------------------------------ MODULE MCKernel ------------------------------
(* Parts of the kernel that share nothing here: the constant part of a        *)
(* behaviour says which of them runs; the others stay in an initial state.    *)
(* Memory runs under any calls ("memory") and under the programs of MemTests  *)
(* ("tests").                                                                 *)
EXTENDS Pipe, MemTests, Log, TicketSched, IoCounter

CONSTANT Parts    \* the parts of a run

VARIABLE part

kernelVars == <<pipeVars, memVars, memTestVars, vars, ticketVars, ioVars, part>>

(* Programs: segments from page 1 on; two segments; one linked at 0, as       *)
(* forktest is; one that is not aligned; and some whose second segment ends   *)
(* near the end of the address space, so that the end wraps by itself or with *)
(* what comes before it: loaduvm() finds a table at 4, and none at 16.        *)
Prog(segs, e) == [segs |-> segs, entry |-> e]
Seg(v, m)     == [vaddr |-> v, memsz |-> m, filesz |-> m]
High(v, m)    == [vaddr |-> v, memsz |-> m, filesz |-> 1]
MCInit        == Prog(<<Seg(2, 2)>>, 1)
MCFiles       == {MCInit, Prog(<<Seg(2, 1), Seg(4, 1)>>, 1), Prog(<<Seg(0, 1)>>, 0), Prog(<<Seg(3, 1)>>, 1)}
                 \cup {Prog(<<Seg(2, 2), High(v, m)>>, 1) : v \in {4, 16}, m \in {WORD - 18, WORD - 5}}

KernelInit ==
  /\ part \in Parts
  /\ part # "tests"   => script = ScriptOf("exectest")
  /\ part # "tickets" => tickets = [p \in Proc |-> 1]
  /\ part # "iocount" => iocount = 0 /\ ioTest = "test_1"
  /\ part # "pipe"    => ncpu = 1 /\ open = {CHOOSE r \in Reader : TRUE, CHOOSE w \in Writer : TRUE}
  /\ PipeInit /\ MemTestInit /\ Init /\ TicketInit /\ IoInit
  /\ part # "log"     => \A b \in Block : home[b] = CHOOSE v \in Value : TRUE

KernelNext ==
  /\ UNCHANGED part
  /\ \/ part = "pipe" /\ PipeNext /\ UNCHANGED <<memVars, memTestVars, vars, ticketVars, ioVars>>
     \/ part = "memory" /\ MemNext /\ UNCHANGED <<pipeVars, memTestVars, vars, ticketVars, ioVars>>
     \/ part = "tests" /\ MemTestNext /\ UNCHANGED <<pipeVars, vars, ticketVars, ioVars>>
     \/ part = "log" /\ Next /\ UNCHANGED <<pipeVars, memVars, memTestVars, ticketVars, ioVars>>
     \/ part = "tickets" /\ TicketNext /\ UNCHANGED <<pipeVars, memVars, memTestVars, vars, ioVars>>
     \/ part = "iocount" /\ IoNext /\ UNCHANGED <<pipeVars, memVars, memTestVars, vars, ticketVars>>
     \/ part = "tickets" /\ UNCHANGED kernelVars              \* the passes are over
     \/ part = "iocount" /\ TestOver /\ UNCHANGED kernelVars  \* the test is over

(* The fairness of pipes and of the log, of the part that runs.               *)
KernelSpec ==
  /\ KernelInit /\ [][KernelNext]_kernelVars
  /\ \A p \in PipeProc : /\ WF_pipeVars(part = "pipe" /\ Locked(p))
                         /\ SF_pipeVars(part = "pipe" /\ (Acquire(p) \/ PipeClose(p)))
  /\ WF_vars(part = "log" /\ DiskStep)
  /\ \A t \in LogOp : /\ WF_vars(part = "log" /\ AppendBlock(t))
                      /\ SF_vars(part = "log" /\ EndOp(t))
                      /\ WF_vars(part = "log" /\ Committed(t))

(* The repository's own tests of memory and of the counter pass, in every     *)
(* interleaving of their processes (usertests.c, test_1.c to test_5.c).       *)
TestsPass == MemTestsPass /\ IoTestsPass

=============================================================================
