----------------------------- MODULE MCProcesses -----------------------------
(* Processes that run at the same time, three times: the process table on two *)
(* processors, the spin locks of any kernel paths, and calls on names that    *)
(* lock inodes.  They share nothing here: the constant part of a behaviour    *)
(* says which of them runs; the others stay in an initial state.              *)
EXTENDS MCProcTable, Spinlocks, MCInodeLocks

VARIABLE part

processesVars == <<vars, spinVars, nameVars, part>>

ProcessesSymmetry == CpuSymmetry \cup Sym

ProcessesInit ==
  /\ part \in {"table", "spin", "names"}
  /\ Init /\ SpinInit
  /\ NamesInit /\ (part # "names" => dinode[3].type = "file")

ProcessesNext ==
  /\ UNCHANGED part
  /\ \/ part = "table" /\ Next /\ UNCHANGED <<spinVars, nameVars>>
     \/ part = "spin" /\ SpinNext /\ UNCHANGED <<vars, nameVars>>
     \/ part = "names" /\ NamesNext /\ UNCHANGED <<vars, spinVars>>
     \/ part = "names" /\ UNCHANGED processesVars   \* calls may wait for each other

ProcessesSpec == ProcessesInit /\ [][ProcessesNext]_processesVars

=============================================================================
