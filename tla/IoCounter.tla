------------------------------ MODULE IoCounter ------------------------------
(* The system call that xv6-system_calls adds: getiocount() returns how often *)
(* read() and write() were called since boot.  Every processor may be in one  *)
(* of the three calls; iocount is loaded and stored in separate steps, and    *)
(* what keeps them together is iocounterlock.  The processes run test_1 to    *)
(* test_5, whose descriptor 4 is not open: a call that fails counts as well.  *)
EXTENDS Integers, Sequences, FiniteSetsExt

CONSTANTS IoProc, FirstIo,  \* process table; the process a test starts as
          NoHolder,         \* of the lock
          UINT,             \* an unsigned int counts modulo UINT
          IoTests,          \* the tests to run,
          Loops, Children   \* and their 1000 (10000, 100000) and 20

ASSUME IoAssumption ==
  /\ FirstIo \in IoProc /\ NoHolder \notin IoProc
  /\ UINT \in Nat \ {0} /\ Loops \in Nat /\ Children \in Nat

VARIABLES iocount, iocounterlock,
          ioAt,     \* where a process is in a call, or "user", "zombie", "unborn"
          ioTmp,    \* the value of iocount that it loaded
          ioRun,    \* its program: [pc, child, got], got the results of getiocount()
          ioTest,   \* the test that runs
          ioCalls   \* history: read() and write() calls counted so far, modulo UINT

ioVars == <<iocount, iocounterlock, ioAt, ioTmp, ioRun, ioTest, ioCalls>>

-----------------------------------------------------------------------------
(* The tests: calls, each made by the parent, by the child or by both.        *)
CallBy(op, who) == <<[op |-> op, who |-> who]>>
Times(n, s)   == [k \in 1..(n * Len(s)) |-> s[((k - 1) % Len(s)) + 1]]
Both(op)      == CallBy(op, "both")
Mixed(n, who) == [k \in 1..n |-> IF k % 2 = 1 THEN CallBy("read", who)[1] ELSE CallBy("write", who)[1]]

test_1 == Both("get") \o Both("get") \o Both("read") \o Both("get") \o Both("write") \o Both("get")
test_2 == Both("get") \o Times(Loops, Both("read")) \o Both("get") \o Times(Loops, Both("write"))
          \o Both("get") \o Mixed(Loops, "both") \o Both("get")
test_3 == Both("get") \o Both("fork") \o CallBy("wait", "parent")
          \o Mixed(Loops, "both") \o CallBy("get", "parent")
test_4 == Both("get")
          \o Times(Children, Both("fork") \o Mixed(Loops, "child")
                             \o CallBy("exit", "child") \o CallBy("wait", "parent"))
          \o Both("get")
test_5 == Both("get") \o Both("fork") \o Times(Loops, Both("read"))
          \o CallBy("wait", "parent") \o CallBy("get", "parent")

TestOf == [test_1 |-> test_1, test_2 |-> test_2, test_3 |-> test_3, test_4 |-> test_4, test_5 |-> test_5]
TestCode   == TestOf[ioTest] \o Both("exit")

(* What a test prints: how far the counter went from one call to the next.    *)
Prints == [test_1 |-> <<0, 1, 1>>, test_2 |-> <<Loops, Loops, Loops>>, test_3 |-> <<2 * Loops>>,
           test_4 |-> <<Children * Loops>>, test_5 |-> <<2 * Loops>>]

-----------------------------------------------------------------------------
Fresh == [pc |-> 1, child |-> FALSE, got |-> <<>>]

(* A test starts on a kernel that has counted for a while.                    *)
IoInit ==
  /\ iocount \in 0..(UINT - 1) /\ ioCalls = iocount
  /\ iocounterlock = NoHolder
  /\ ioAt = [p \in IoProc |-> IF p = FirstIo THEN "user" ELSE "unborn"]
  /\ ioTmp = [p \in IoProc |-> 0]
  /\ ioRun = [p \in IoProc |-> Fresh]
  /\ ioTest \in IoTests

Counting == {"locked", "loaded", "counted"}
Calling(p) == TestCode[ioRun[p].pc].op
Asks(p, ops) == ioAt[p] = "user" /\ Calling(p) \in ops
(* Past the call it returns from, to the next one for a process of its kind.  *)
Follow(r) ==
  LET kinds == {"both", IF r.child THEN "child" ELSE "parent"}
  IN  [r EXCEPT !.pc = Min({k \in DOMAIN TestCode : k > r.pc /\ TestCode[k].who \in kinds})]
IoGoes(p, at) == ioAt' = [ioAt EXCEPT ![p] = at]

Idle     == TRUE  \* mutant: the lock is not waited for
LockFree == iocounterlock = NoHolder
Acquires(p) ==
  /\ Asks(p, {"read", "write", "get"})
  /\ LockFree
  /\ iocounterlock' = p
  /\ IoGoes(p, "locked")
  /\ UNCHANGED <<iocount, ioTmp, ioRun, ioTest, ioCalls>>

Loads(p) ==
  /\ ioAt[p] = "locked" /\ IoGoes(p, "loaded")
  /\ ioTmp' = [ioTmp EXCEPT ![p] = iocount]
  /\ UNCHANGED <<iocount, iocounterlock, ioRun, ioTest, ioCalls>>

Inc(n)    == (n + 1) % UINT

(* iocount++ of sys_read() and sys_write().                                   *)
Stores(p) ==
  /\ ioAt[p] = "loaded" /\ Calling(p) \in {"read", "write"} /\ IoGoes(p, "counted")
  /\ iocount' = Inc(ioTmp[p])
  /\ ioCalls' = (ioCalls + 1) % UINT
  /\ UNCHANGED <<iocounterlock, ioTmp, ioRun, ioTest>>

Returns(p, got) ==
  /\ iocounterlock' = NoHolder /\ IoGoes(p, "user")
  /\ ioRun' = [ioRun EXCEPT ![p] = Follow([@ EXCEPT !.got = got])]
  /\ UNCHANGED <<iocount, ioTmp, ioTest, ioCalls>>
IoReturns(p)  == ioAt[p] = "counted" /\ Returns(p, ioRun[p].got)
Getiocount(p) == ioAt[p] = "loaded" /\ Calling(p) = "get" /\ Returns(p, Append(ioRun[p].got, ioTmp[p]))

IoFork(p) ==
  /\ Asks(p, {"fork"})
  /\ \E q \in IoProc :
       /\ ioAt[q] = "unborn" /\ IoGoes(q, "user")
       /\ ioRun' = [ioRun EXCEPT ![p] = Follow(@), ![q] = Follow([ioRun[p] EXCEPT !.child = TRUE])]
  /\ UNCHANGED <<iocount, iocounterlock, ioTmp, ioTest, ioCalls>>

IoWait(p) ==
  /\ Asks(p, {"wait"})
  /\ \E q \in IoProc :
       /\ ioAt[q] = "zombie" /\ ioRun[q].child /\ IoGoes(q, "unborn")
       /\ ioRun' = [ioRun EXCEPT ![p] = Follow(@), ![q] = Fresh]
  /\ UNCHANGED <<iocount, iocounterlock, ioTmp, ioTest, ioCalls>>

IoExit(p) ==
  /\ Asks(p, {"exit"}) /\ IoGoes(p, "zombie")
  /\ UNCHANGED <<iocount, iocounterlock, ioTmp, ioRun, ioTest, ioCalls>>

IoStep(p) ==
  Acquires(p) \/ Loads(p) \/ Stores(p) \/ IoReturns(p) \/ Getiocount(p) \/ IoFork(p) \/ IoWait(p) \/ IoExit(p)
IoNext == \E p \in IoProc : IoStep(p)
IoSpec == IoInit /\ [][IoNext]_ioVars

TestOver == ioAt[FirstIo] = "zombie"

-----------------------------------------------------------------------------
(* The counter and the lock have the values of their types, and a process has *)
(* the lock exactly while it is inside one of the three system calls.         *)
IoTypeOK ==
  /\ iocount \in 0..(UINT - 1) /\ ioCalls \in 0..(UINT - 1)
  /\ \A p \in IoProc : ioAt[p] \in Counting <=> iocounterlock = p

(* No call is lost or counted twice, whichever processors count at a time     *)
(* (iocount++ in sysfile.c).                                                  *)
NoneLost == iocount = ioCalls

(* Every test prints what the calls of its processes add up to, also when the *)
(* counter wraps in between.                                                  *)
IoTestsPass ==
  TestOver => \A k \in DOMAIN Prints[ioTest] :
                (ioRun[FirstIo].got[k + 1] - ioRun[FirstIo].got[k]) % UINT = Prints[ioTest][k] % UINT

=============================================================================
