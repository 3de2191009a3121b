----------------------------- MODULE MCPrograms -----------------------------
(* Six programs, and the devices: the console, the keyboard, and the disk     *)
(* behind the buffer cache.  They share nothing: the constant part of a       *)
(* behaviour says which of them runs; the others stay in an initial state.    *)
EXTENDS Kv, Wish, Sh, Umalloc, Strings, Pzip,
        ConsoleInput, Keyboard, BufCache

CONSTANT Parts    \* the parts of a run

VARIABLE part

deviceVars  == <<consVars, kbdVars, cacheVars>>
programVars == <<kvVars, wishVars, shVars, mallocVars, sample, vars, deviceVars, part>>

SeqsUpto(S, n) == UNION {[1..k -> S] : k \in 0..n}

(* wish: lines of commands, and the programs of two directories.              *)
Line(op)  == [op |-> op, times |-> 0, prog |-> "", badRedirect |-> FALSE, dirs |-> <<>>, args |-> FALSE]
Prog(p)   == [Line("run") EXCEPT !.prog = p]
MCWish    == {Prog("ls"), Prog("gcc"), Prog("nothing"),
              [Prog("ls") EXCEPT !.badRedirect = TRUE],
              [Prog("nothing") EXCEPT !.op = "loop", !.times = 2],
              [Prog("ls") EXCEPT !.op = "loop", !.times = 2],
              Line("exit"), Line("cd"), Line("path"),
              [Line("path") EXCEPT !.dirs = <<"/usr/bin", "/bin">>]}
MCScripts == (SeqsUpto(MCWish, 3) \ {<<>>}) \cup {<<Line("path"), Prog("ls"), Prog("ls"), Prog("ls")>>}
MCEnding  == {<<Prog("nothing"), Line("exit")>>}
MCDir     == [d \in {"/bin", "/usr/bin"} |-> IF d = "/bin" THEN {"ls"} ELSE {"gcc"}]

(* sh: every line of three tokens, those of four that begin with a word, and  *)
(* some with more processes.                                                  *)
MCLines ==
  SeqsUpto({"a", "|", "&", ";", "(", ")", "<", ">"}, 3) \cup {<<"a">> \o s : s \in [1..3 -> {"a", "|", "&", ";", "(", ")"}]}
  \cup {<<"a", "|", "a", "|", "a">>, <<"(", "a", ";", "a", ")", "|", "a">>, <<"a", "<", "a", ">", "a">>,
        <<"a", "|", "a", ";", "a">>, <<"(", "a", "|", "a", ")", "&", ";", "a">>,
        <<"a", "&", ";", "a", "|", "a">>, <<"a", "|", "(", "a", "&", ";", "a", ")">>}

(* grep and the string functions.                                             *)
MCPatterns == SeqsUpto({"a", "b", ".", "*", "^", "$"}, 3)
              \cup {<<"a", "*", "b", "*">>, <<"^", "a", "*", "$">>, <<"^", ".", "*", "b">>}
MCSubjects == SeqsUpto({"a", "b"}, 3) \cup {<<"$", "a">>, <<"*">>, <<"^", "b">>}
MCStreams  == SeqsUpto({"a", "nl"}, 9)

MCFormats  == SeqsUpto({"%", "d", "c", "z"}, 4)
MCWcTexts  == SeqsUpto({"a", " ", "nl"}, 4)
MCInputs   == SeqsUpto({"a", "nl"}, 5)
MCNames    == SeqsUpto({97, 98, 200}, 2)

(* pzip: seven chunks of at most two bytes out of five files, one of them     *)
(* missing and one empty: runs that cross chunks and files, a NUL inside a    *)
(* run and a chunk of NULs, a byte beyond ASCII, and short last chunks.       *)
MCFiles == << <<97, 97, 97, 0, 97>>, Missing, <<>>, <<97, 200, 200, 200>>, <<0, 0, 97>> >>

ProgramsInit ==
  /\ part \in Parts
  /\ part # "wish" => script = <<Line("cd")>> /\ batch = FALSE
  /\ part # "sh"   => tokens = <<>>
  /\ part # "text" => sample = [kind |-> "int", n |-> 0]
  /\ KvInit /\ WishInit /\ ShInit /\ MallocInit /\ StringsInit /\ Init
  /\ ConsInit /\ KbdInit /\ CacheInit

ProgramStep ==
  \/ part = "kv" /\ KvNext /\ UNCHANGED <<wishVars, shVars, mallocVars, vars>>
  \/ part = "wish" /\ WishNext /\ UNCHANGED <<kvVars, shVars, mallocVars, vars>>
  \/ part = "sh" /\ ShNext /\ UNCHANGED <<kvVars, wishVars, mallocVars, vars>>
  \/ part = "malloc" /\ MallocNext /\ UNCHANGED <<kvVars, wishVars, shVars, vars>>
  \/ part = "pzip" /\ Next /\ UNCHANGED <<kvVars, wishVars, shVars, mallocVars>>

DeviceStep ==
  \/ part = "console" /\ ConsNext /\ UNCHANGED <<kbdVars, cacheVars>>
  \/ part = "keyboard" /\ KbdNext /\ UNCHANGED <<consVars, cacheVars>>
  \/ part = "cache" /\ CacheNext /\ UNCHANGED <<consVars, kbdVars>>
  \/ part \in {"console", "keyboard"} /\ UNCHANGED deviceVars   \* nobody types any more

ProgramsNext ==
  /\ UNCHANGED <<sample, part>>
  /\ \/ ProgramStep /\ UNCHANGED deviceVars
     \/ DeviceStep /\ UNCHANGED <<kvVars, wishVars, shVars, mallocVars, vars>>

(* ShFair, the Fairness of Pzip and CacheFair, and that the processes of wish *)
(* get on, of the part that runs.                                             *)
ProgramsSpec ==
  /\ ProgramsInit /\ [][ProgramsNext]_programVars
  /\ WF_wishVars(part = "wish" /\ \E i \in Shell : ShellStep(i))
  /\ WF_shVars(part = "sh" /\ \E i \in Proc : ShStep(i))
  /\ WF_vars(part = "pzip" /\ ProducerStep)
  /\ \A t \in Consumer : WF_vars(part = "pzip" /\ ConsumerStep(t))
  /\ WF_cacheVars(part = "cache" /\ Ideintr)
  /\ \A p \in User : WF_cacheVars(part = "cache" /\ CacheStep(p))

(* Programs end: every line of sh with all its processes, and the threads of  *)
(* pzip with its run (sh.c, pzip.c).                                          *)
ProgramsEnd == LineEnds /\ ([](part = "pzip") => Terminates)

=============================================================================
