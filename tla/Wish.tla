-------------------------------- MODULE Wish --------------------------------
(* The shell wish.c and the processes it makes.  A process of the shell reads *)
(* a line, forks, and waits; the child tries execv() with the directories of  *)
(* the path, and when none has the program it returns from run_fork() and     *)
(* reads on as a second shell.  A fork copies the buffer of the input, and    *)
(* the offset in the file is one for all: exit() of a process that has lines  *)
(* left in its buffer gives them back to the file (the C library's exit()).   *)
EXTENDS Integers, Sequences, FiniteSets, SequencesExt, FiniteSetsExt

CONSTANTS Scripts,   \* sequences of command lines, see MCPrograms
          InDir,     \* the programs in a directory
          BufLines,  \* the lines a read() of a file gives
          MaxShells  \* the processes there can be at a time

(* A command line: the number after "loop" is not negative (run_loop).        *)
CommandLine == [op : STRING, times : Nat, prog : STRING, badRedirect : BOOLEAN,
                dirs : Seq(STRING), args : BOOLEAN]

ASSUME WishAssumption ==
  BufLines \in Nat \ {0} /\ MaxShells \in Nat \ {0} /\ Scripts \subseteq Seq(CommandLine)

VARIABLES
  script, batch,  \* the lines, and whether they are in a file
  offset,         \* the next line of the file, or of the terminal
  sh              \* processes: [parent, at, path, tried, loops], and the buffer,
                  \* which holds the lines from line to upto

wishVars == <<script, batch, offset, sh>>

Shell    == 1..MaxShells
Cmd(i)   == script[sh[i].line - 1]                  \* the line i is at
Stands(i, a) == sh[i].at = a

NoShell  == [parent |-> 0, at |-> "free", path |-> <<>>, tried |-> 0, loops |-> 0,
             line |-> 1, upto |-> 0]

WishInit ==
  /\ script \in Scripts /\ batch \in BOOLEAN
  /\ offset = 1
  /\ sh = [i \in Shell |-> IF i # 1 THEN NoShell
                         ELSE [NoShell EXCEPT !.at = "read", !.path = <<"/bin">>]]

Becomes(i, a) == sh' = [sh EXCEPT ![i].at = a]
Same          == UNCHANGED <<script, batch, offset>>

-----------------------------------------------------------------------------
(* getline(): a line of the buffer, which is filled first when it is empty; a *)
(* terminal gives a line at a time.                                           *)
Empty(i)  == sh[i].line > sh[i].upto
AtEof(i)  == Stands(i, "read") /\ Empty(i) /\ offset > Len(script)

FilledTo  == IF batch THEN Min({offset + BufLines - 1, Len(script)}) ELSE offset
Getline(i) ==
  IF Empty(i) THEN [line |-> offset, upto |-> FilledTo, offset |-> FilledTo + 1]
  ELSE [line |-> sh[i].line, upto |-> sh[i].upto, offset |-> offset]

(* exit() of a process with n lines left moves the offset back by them, if it *)
(* is not less.                                                               *)
Back(o, n) == IF n < o THEN o - n ELSE o
Exits(i)   == /\ Becomes(i, "dead")
              /\ offset' = Back(offset, sh[i].upto + 1 - sh[i].line)
              /\ UNCHANGED <<script, batch>>

(* main(): the end of a batch file ends the process.  That of a terminal does *)
(* not: main() looks for a line for ever, which changes nothing here.         *)
Eof(i) == AtEof(i) /\ batch /\ Becomes(i, "dead") /\ Same

(* process(): the built-in commands, and what is left to run_fork() and       *)
(* run_loop(); cd changes nothing that the others look at.                    *)
Times(c) == IF c.op = "loop" THEN c.times ELSE IF c.op = "run" THEN 1 ELSE 0

Process(i) ==
  LET g == Getline(i)
      c == script[g.line]
      quits == c.op = "exit" /\ ~c.args IN
  /\ Stands(i, "read") /\ ~AtEof(i)
  /\ offset' = IF quits THEN Back(g.offset, g.upto - g.line) ELSE g.offset
  /\ sh' = [sh EXCEPT ![i] = [sh[i] EXCEPT
              !.line  = g.line + 1,
              !.upto  = g.upto,
              !.loops = Times(c),
              !.path  = IF c.op = "path" THEN c.dirs ELSE sh[i].path,
              !.at    = IF quits THEN "dead" ELSE IF Times(c) > 0 THEN "fork" ELSE "read"]]
  /\ UNCHANGED <<script, batch>>

-----------------------------------------------------------------------------
(* run_fork(): an error of the redirection, or of fork(), ends the process.   *)
BadRedirect(i) == Stands(i, "fork") /\ Cmd(i).badRedirect /\ Exits(i)

ForkFails(i)   == Stands(i, "fork") /\ ~Cmd(i).badRedirect /\ Exits(i)

GoesOn    == "read"           \* mutant: the parent does not wait
Forked    == "wait"

RunFork(i) ==
  /\ Stands(i, "fork") /\ ~Cmd(i).badRedirect
  /\ \E j \in Shell : Stands(j, "free") /\ (\A k \in Shell : Stands(k, "free") => j <= k)
       /\ sh' = [sh EXCEPT ![i].at = Forked,
                           ![j] = [sh[i] EXCEPT !.parent = i, !.at = "child", !.tried = 0]]
  /\ Same

(* An iteration of run_loop() is over, or the only call of run_fork().        *)
Again(i) == [sh[i] EXCEPT !.loops = @ - 1, !.at = IF sh[i].loops > 1 THEN "fork" ELSE "read"]

WaitChild(i) ==
  /\ Stands(i, "wait")
  /\ \E j \in Shell : sh[j].parent = i /\ Stands(j, "dead")
       /\ sh' = [sh EXCEPT ![i] = Again(i), ![j] = NoShell]
  /\ Same

(* The string of the path is not emptied between two directories, so that     *)
(* execv() finds a program in the first one only.                             *)
InFirst(i)  == sh[i].tried = 0 /\ Cmd(i).prog \in InDir[sh[i].path[1]]

NoPath(i) == Stands(i, "child") /\ sh[i].path = <<>> /\ Exits(i)

Execv(i) ==
  /\ Stands(i, "child") /\ sh[i].path # <<>>
  /\ sh' = [sh EXCEPT ![i] =
       IF InFirst(i) THEN [sh[i] EXCEPT !.at = "prog"]
       ELSE IF sh[i].tried + 1 < Len(sh[i].path) THEN [sh[i] EXCEPT !.tried = @ + 1]
       ELSE Again(i)]
  /\ Same

(* The program ends; it has no buffer of the shell's.                         *)
ProgEnds(i) == Stands(i, "prog") /\ Becomes(i, "dead") /\ Same

-----------------------------------------------------------------------------

ShellStep(i) ==
  \/ Eof(i) \/ Process(i) \/ BadRedirect(i) \/ ForkFails(i) \/ RunFork(i)
  \/ WaitChild(i) \/ NoPath(i) \/ Execv(i) \/ ProgEnds(i)

WishNext == \E i \in Shell : ShellStep(i)

WishSpec == WishInit /\ [][WishNext]_wishVars

-----------------------------------------------------------------------------

(* The buffers and the offset are within the input.                           *)
WishTypeOK ==
  /\ offset \in 1..(Len(script) + 1)
  /\ \A i \in Shell :
       /\ sh[i].at \in {"free", "read", "fork", "child", "wait", "prog", "dead"}
       /\ sh[i].parent \in 0..MaxShells /\ sh[i].loops >= 0
       /\ sh[i].upto \in 0..Len(script) /\ sh[i].line \in 1..(sh[i].upto + 1)

(* At most one process runs, the shell or a program: outputs never mix and    *)
(* the shell never reads a line before the command on the last one has ended, *)
(* though shells fork shells and each of them may be the one that reads.      *)
OneRuns == Cardinality({i \in Shell : sh[i].at \notin {"free", "wait", "dead"}}) <= 1

(* One process at a time uses the input (wish.c:158).                         *)
WishSound == WishTypeOK /\ OneRuns

ExitRead ==
  \E i \in Shell : Stands(i, "dead") /\ sh[i].line > 1 /\ Cmd(i).op = "exit" /\ ~Cmd(i).args

(* "The loop continues indefinitely, until the user types the built-in        *)
(* command exit, at which point it exits" (Readme.md:34); "In either mode, if *)
(* you hit the end-of-file marker (EOF), you should call exit(0) and exit     *)
(* gracefully" (Readme.md:38): either ends every process of the shell.        *)
WishEnds ==
  (ExitRead \/ \E i \in Shell : AtEof(i)) ~> \A i \in Shell : Stands(i, "dead") \/ Stands(i, "free")

=============================================================================
