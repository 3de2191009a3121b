--------------------------------- MODULE Sh ---------------------------------
(* The xv6 shell, sh.c: the parser, on sequences of tokens ("a": a word), and *)
(* the processes that runcmd() makes for what was parsed.  A program reads    *)
(* its input to the end; what it does otherwise is left out.                  *)
EXTENDS Integers, Sequences, FiniteSets, SequencesExt, FiniteSetsExt

CONSTANTS Lines,    \* the lines that are typed, sequences of tokens
          MAXARGS

ASSUME ShAssumption == MAXARGS \in Nat \ {0}

-----------------------------------------------------------------------------
(* Commands                                                                   *)
EXEC(n)        == [type |-> "EXEC", argc |-> n]
REDIR(cmd, fd) == [type |-> "REDIR", cmd |-> cmd, fd |-> fd]
PIPE(l, r)     == [type |-> "PIPE", left |-> l, right |-> r]
LIST(l, r)     == [type |-> "LIST", left |-> l, right |-> r]
BACK(cmd)      == [type |-> "BACK", cmd |-> cmd]

(* A parser returns the command and the tokens it leaves, or panics.          *)
Parsed(c, s)  == [ok |-> TRUE, cmd |-> c, rest |-> s]
Syntax        == [ok |-> FALSE, cmd |-> EXEC(0), rest |-> <<>>]
Peek(s, toks) == s # <<>> /\ Head(s) \in toks

RECURSIVE Parseline(_), Parsepipe(_), Parseexec(_), Parseredirs(_, _), Args(_, _, _)

Parseredirs(cmd, s) ==
  IF ~Peek(s, {"<", ">"}) THEN Parsed(cmd, s)
  ELSE IF ~Peek(Tail(s), {"a"}) THEN Syntax
  ELSE Parseredirs(REDIR(cmd, IF Head(s) = "<" THEN 0 ELSE 1), Tail(Tail(s)))

(* The redirections of the words so far are in ret; the count of arguments    *)
(* is in the innermost command, which is filled in at the end.                *)
RECURSIVE WithArgs(_, _)
WithArgs(ret, n) == IF ret.type = "EXEC" THEN EXEC(n) ELSE [ret EXCEPT !.cmd = WithArgs(@, n)]

TooMany(n) == n >= MAXARGS

Args(ret, n, s) ==
  IF s = <<>> \/ Peek(s, {"|", ")", "&", ";"}) THEN Parsed(WithArgs(ret, n), s)
  ELSE IF Head(s) # "a" \/ TooMany(n + 1) THEN Syntax
  ELSE LET r == Parseredirs(ret, Tail(s)) IN IF r.ok THEN Args(r.cmd, n + 1, r.rest) ELSE Syntax

Parseblock(s) ==
  LET r == Parseline(Tail(s)) IN
  IF r.ok /\ Peek(r.rest, {")"}) THEN Parseredirs(r.cmd, Tail(r.rest)) ELSE Syntax

Parseexec(s) ==
  IF Peek(s, {"("}) THEN Parseblock(s)
  ELSE LET r == Parseredirs(EXEC(0), s) IN IF r.ok THEN Args(r.cmd, 0, r.rest) ELSE Syntax

Rightpipe(s) == Parsepipe(s)

Parsepipe(s) ==
  LET l == Parseexec(s) IN
  IF ~l.ok \/ ~Peek(l.rest, {"|"}) THEN l
  ELSE LET r == Rightpipe(Tail(l.rest)) IN
       IF r.ok THEN Parsed(PIPE(l.cmd, r.cmd), r.rest) ELSE Syntax

RECURSIVE Backs(_, _)
Backs(c, s) == IF Peek(s, {"&"}) THEN Backs(BACK(c), Tail(s)) ELSE Parsed(c, s)

Listcmd(l, r)  == LIST(l, r)

Parseline(s) ==
  LET p == Parsepipe(s)
      l == Backs(p.cmd, p.rest) IN
  IF ~p.ok \/ ~Peek(l.rest, {";"}) THEN IF p.ok THEN l ELSE p
  ELSE LET r == Parseline(Tail(l.rest)) IN
       IF r.ok THEN Parsed(Listcmd(l.cmd, r.cmd), r.rest) ELSE Syntax

Parsecmd(s) == LET r == Parseline(s) IN IF r.ok /\ r.rest = <<>> THEN r ELSE Syntax

-----------------------------------------------------------------------------
(* runcmd()                                                                   *)

VARIABLES
  tokens,    \* the line
  parsed,    \* what parsecmd() makes of it
  procs,     \* processes in the order of their fork(); the first is the shell:
             \* [par, pos: place of its command in the tree, node, at, in, out, ends]
  forkFailed \* history

shVars == <<tokens, parsed, procs, forkFailed>>

Proc  == DOMAIN procs
Std   == <<"console", 0>>
File  == <<"file", 0>>
InAt(i, a)   == procs[i].at = a
Runs(i, t)   == InAt(i, "run") /\ procs[i].node.type = t
Exit         == "exit"

ShInit ==
  /\ tokens \in Lines
  /\ parsed = Parsecmd(tokens)
  /\ procs = <<[par |-> 0, pos |-> <<>>, node |-> EXEC(0), at |-> "main", in |-> Std, out |-> Std,
                ends |-> {}]>>
  /\ forkFailed = FALSE

(* fork1(): the child runs c, which is step d from its parent's command, with *)
(* in and out; the parent becomes me.  fork() may fail: then i panics.        *)
Fork1(i, me, c, d, in, out) ==
  \/ procs' = [procs EXCEPT ![i] = [@ EXCEPT !.at = Exit, !.ends = {}]] /\ forkFailed' = TRUE
  \/ /\ procs' = Append([procs EXCEPT ![i] = me],
                        [par |-> i, pos |-> procs[i].pos \o d, node |-> c, at |-> "run",
                         in |-> in, out |-> out, ends |-> {}])
     /\ UNCHANGED forkFailed
ShBecomes(i, me) == procs' = [procs EXCEPT ![i] = me] /\ UNCHANGED forkFailed

(* wait(): one child that has ended.                                          *)
Reaps(i, me) ==
  \E j \in Proc :
    /\ procs[j].par = i /\ InAt(j, Exit)
    /\ procs' = [procs EXCEPT ![i] = me, ![j].par = 0]
    /\ UNCHANGED forkFailed

Main(i) ==
  /\ InAt(i, "main")
  /\ Fork1(i, [procs[i] EXCEPT !.at = "wait1"], parsed.cmd, <<>>, Std, Std)

(* exec() may fail.                                                           *)
RunExec(i) ==
  /\ Runs(i, "EXEC")
  /\ \/ ShBecomes(i, [procs[i] EXCEPT !.at = Exit])
     \/ procs[i].node.argc > 0 /\ ShBecomes(i, [procs[i] EXCEPT !.at = "prog"])

(* open() may fail; a redirection closes what was there.                      *)
RunRedir(i) ==
  /\ Runs(i, "REDIR")
  /\ \/ ShBecomes(i, [procs[i] EXCEPT !.at = Exit])
     \/ ShBecomes(i, [procs[i] EXCEPT !.node = @.cmd, !.pos = Append(@, "c"),
                                    !.in  = IF procs[i].node.fd = 0 THEN File ELSE @,
                                    !.out = IF procs[i].node.fd = 1 THEN File ELSE @])

RunsOn(i)   == [procs[i] EXCEPT !.node = procs[i].node.right, !.pos = Append(@, "r")]  \* mutant: no wait
WaitsLeft(i) == [procs[i] EXCEPT !.at = "left"]
AfterFork(i) == WaitsLeft(i)

RunList(i) ==
  /\ Runs(i, "LIST")
  /\ Fork1(i, AfterFork(i), procs[i].node.left, <<"l">>, procs[i].in, procs[i].out)

ListRight(i) ==
  /\ InAt(i, "left")
  /\ Reaps(i, [procs[i] EXCEPT !.at = "run", !.node = @.right, !.pos = Append(@, "r")])

(* A pipe is named by the process that makes it; its ends are <<"r", i>> and  *)
(* <<"w", i>>.  The children close what they do not use before they run.      *)
RunPipe(i) ==
  /\ Runs(i, "PIPE")
  /\ Fork1(i, [procs[i] EXCEPT !.at = "pipe", !.ends = {<<"r", i>>, <<"w", i>>}],
           procs[i].node.left, <<"l">>, procs[i].in, <<"w", i>>)

PipeRight(i) ==
  /\ InAt(i, "pipe")
  /\ Fork1(i, [procs[i] EXCEPT !.at = "close"], procs[i].node.right, <<"r">>, <<"r", i>>, procs[i].out)

KeepsWrite(i) == {<<"w", i>>}    \* mutant: p[1] stays open
KeepsNone(i)  == {}
Kept(i)       == KeepsNone(i)

PipeClose(i) ==
  /\ InAt(i, "close")
  /\ ShBecomes(i, [procs[i] EXCEPT !.at = "wait2", !.ends = Kept(i)])

Wait2(i) == InAt(i, "wait2") /\ Reaps(i, [procs[i] EXCEPT !.at = "wait1"])
Wait1(i) == InAt(i, "wait1") /\ Reaps(i, [procs[i] EXCEPT !.at = Exit, !.ends = {}])

RunBack(i) ==
  /\ Runs(i, "BACK")
  /\ Fork1(i, [procs[i] EXCEPT !.at = Exit], procs[i].node.cmd, <<"c">>, procs[i].in, procs[i].out)

(* A program that reads a pipe ends when nobody can write to it any more.     *)
Holds(j, e) == ~InAt(j, Exit) /\ (procs[j].in = e \/ procs[j].out = e \/ e \in procs[j].ends)
ShProgEnds(i) ==
  /\ InAt(i, "prog")
  /\ \A k \in Proc : procs[i].in = <<"r", k>> => \A j \in Proc : ~Holds(j, <<"w", k>>)
  /\ ShBecomes(i, [procs[i] EXCEPT !.at = Exit])

ShStep(i) ==
  /\ \/ Main(i) \/ RunExec(i) \/ RunRedir(i) \/ RunList(i) \/ ListRight(i) \/ RunPipe(i)
     \/ PipeRight(i) \/ PipeClose(i) \/ Wait2(i) \/ Wait1(i) \/ RunBack(i) \/ ShProgEnds(i)
  /\ UNCHANGED <<tokens, parsed>>

AllEnded == \A i \in Proc : InAt(i, Exit)
ShNext   == \E i \in Proc : ShStep(i)

ShSpec == ShInit /\ [][ShNext]_shVars
(* While a process can run, one does: no process of a line runs for ever.     *)
ShFair == WF_shVars(\E i \in Proc : ShStep(i))

-----------------------------------------------------------------------------
(* The grammar, by splitting a line in all ways.                              *)
Upto(s, k) == SubSeq(s, 1, k)
Rest(s, k)  == SubSeq(s, k + 1, Len(s))

RECURSIVE IsLine(_), IsPipe(_), IsCmd(_), IsRedirs(_), IsWords(_, _)
IsRedirs(s) == s = <<>> \/ (Len(s) >= 2 /\ s[1] \in {"<", ">"} /\ s[2] = "a" /\ IsRedirs(Rest(s, 2)))
IsWords(s, n) ==
  \/ IsRedirs(s)
  \/ n > 0 /\ \E k \in 0..(Len(s) - 1) : IsRedirs(Upto(s, k)) /\ s[k + 1] = "a" /\ IsWords(Rest(s, k + 1), n - 1)
IsCmd(s)  ==
  \/ IsWords(s, MAXARGS - 1)
  \/ /\ s # <<>> /\ s[1] = "("
     /\ \E k \in 2..Len(s) : s[k] = ")" /\ IsLine(SubSeq(s, 2, k - 1)) /\ IsRedirs(Rest(s, k))
IsPipe(s) ==
  IsCmd(s) \/ \E k \in 1..Len(s) : s[k] = "|" /\ IsCmd(Upto(s, k - 1)) /\ IsPipe(Rest(s, k))
IsLine(s) ==
  \E k \in 0..Len(s) :
    /\ IsPipe(Upto(s, k))
    /\ \E j \in k..Len(s) :
         /\ \A x \in (k + 1)..j : s[x] = "&"
         /\ j = Len(s) \/ (s[j + 1] = ";" /\ IsLine(Rest(s, j + 1)))

AtPrompt == procs[1].at = "main"

(* The parser accepts the lines of the grammar and no others.                 *)
ParserIsGrammar == AtPrompt => (parsed.ok <=> IsLine(tokens))

RECURSIVE Unparse(_)
Block(c) == IF c.type = "EXEC" THEN Unparse(c) ELSE <<"(">> \o Unparse(c) \o <<")">>
Unparse(c) ==
  CASE c.type = "EXEC"  -> [k \in 1..c.argc |-> "a"]
    [] c.type = "REDIR" -> (IF c.cmd.type \in {"EXEC", "REDIR"} THEN Unparse(c.cmd) ELSE Block(c.cmd))
                           \o <<IF c.fd = 0 THEN "<" ELSE ">", "a">>
    [] c.type = "PIPE"  -> Block(c.left) \o <<"|">> \o Block(c.right)
    [] c.type = "LIST"  -> Block(c.left) \o <<";">> \o Block(c.right)
    [] c.type = "BACK"  -> Block(c.cmd) \o <<"&">>

(* The command means what the line says: written out again, with every block  *)
(* in parentheses, it is the same command.                                    *)
RoundTrip == AtPrompt /\ parsed.ok => Parsecmd(Unparse(parsed.cmd)) = parsed

ShTypeOK ==
  /\ \A i \in Proc : procs[i].par < i
  /\ \A i \in Proc : procs[i].ends # {} => procs[i].at \in {"pipe", "close"}

(* In l ; r nothing of r runs before all of l has ended but what l put in the *)
(* background, and the shell waits for all of a line in the same way.         *)
RECURSIVE NodeAt(_, _)
NodeAt(c, pos) ==
  IF pos = <<>> THEN c
  ELSE NodeAt(IF Head(pos) = "l" THEN c.left ELSE IF Head(pos) = "r" THEN c.right ELSE c.cmd, Tail(pos))
Tree == parsed.cmd
InBack(pos, k) == \E m \in k..(Len(pos) - 1) : NodeAt(Tree, Upto(pos, m)).type = "BACK"
After(p, q, k) ==
  /\ k <= Len(p) /\ k <= Len(q) /\ Upto(p, k - 1) = Upto(q, k - 1)
  /\ p[k] = "l" /\ q[k] = "r" /\ NodeAt(Tree, Upto(p, k - 1)).type = "LIST"

InSequence ==
  ~forkFailed =>
    /\ \A i, j \in Proc \ {1} : ~InAt(i, Exit) /\ ~InAt(j, Exit) =>
         \A k \in 1..Len(procs[i].pos) :
           After(procs[i].pos, procs[j].pos, k) => InBack(procs[i].pos, k)
    /\ InAt(1, Exit) => \A i \in Proc \ {1} : InAt(i, Exit) \/ InBack(procs[i].pos, 0)

(* Every line ends, with every process of it: a program that reads a pipe     *)
(* finds its end, since nobody who could still write keeps it open.           *)
LineEnds == ~AtPrompt ~> AllEnded

(* Lines mean what the grammar says, and their commands run in that order.    *)
ShSound == ShTypeOK /\ ParserIsGrammar /\ RoundTrip /\ InSequence

=============================================================================
