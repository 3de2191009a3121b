---------------------------- MODULE ConsoleInput ----------------------------
(* The input side of console.c: consoleintr() edits a line in a circular      *)
(* buffer, consoleread() takes committed bytes out of it.  r, w and e count   *)
(* modulo 2^32 in the code, modulo WRAP here.  Both hold cons.lock; reading   *)
(* is one step per byte, typing one step per key.                             *)
EXTENDS Integers, Sequences, FiniteSets

CONSTANTS ConsReader, INPUT_BUF, WRAP,
          MaxRead,   \* bounds: bytes asked for in a call,
          MaxTyped,  \* keys typed,
          MaxCalls   \* and calls of each reader

ASSUME ConsoleAssumption ==
  /\ 0 \notin ConsReader
  /\ INPUT_BUF \in Nat \ {0} /\ WRAP \in Nat \ {0} /\ WRAP % INPUT_BUF = 0 /\ WRAP > INPUT_BUF
  /\ MaxRead \in Nat /\ MaxTyped \in Nat

VARIABLES
  input,   \* struct input: [buf, r, w, e]
  lock,    \* the reader that holds cons.lock, 0 for none
  rd,      \* readers: [at, n, target, killed], at: "out", "ready", "asleep"
  typed, calls,
  committed,    \* history: every byte committed (input.w = input.e),
  taken,   \* every byte readers took,
  zeros    \* and how many calls returned 0

consVars == <<input, lock, rd, typed, calls, committed, taken, zeros>>

Key   == {"a", "b", "newline", "eof", "backspace", "killline"}
Plus(i, n) == (i + n) % WRAP
Dist(i, j) == (j - i) % WRAP       \* j - i in unsigned arithmetic
Slot(i)    == i % INPUT_BUF

ConsInit ==
  /\ input = [buf |-> [k \in 0..(INPUT_BUF - 1) |-> "a"], r |-> 0, w |-> 0, e |-> 0]
  /\ lock = 0
  /\ rd = [p \in ConsReader |-> [at |-> "out", n |-> 0, target |-> 0, killed |-> FALSE]]
  /\ typed = 0 /\ calls = [p \in ConsReader |-> MaxCalls]
  /\ committed = <<>> /\ taken = <<>>
  /\ zeros = 0

WakeOneReader ==   \* mutant
  rd' = [p \in ConsReader |-> IF rd[p].at = "asleep" /\ \A q \in ConsReader : rd[q].at = "asleep" => p <= q
                          THEN [rd[p] EXCEPT !.at = "ready"] ELSE rd[p]]
WakeReaders ==
  rd' = [p \in ConsReader |-> IF rd[p].at = "asleep" THEN [rd[p] EXCEPT !.at = "ready"] ELSE rd[p]]

-----------------------------------------------------------------------------
(* consoleintr(), for one character.                                          *)

(* ^U goes back to the last newline that is not committed, or to w.           *)
KillTo ==
  LET stops == {d \in 0..Dist(input.w, input.e) :
                  d = Dist(input.w, input.e) \/ input.buf[Slot(Plus(input.e, WRAP - d - 1))] = "newline"}
  IN  Plus(input.e, WRAP - (CHOOSE d \in stops : \A x \in stops : d <= x))

Room == Dist(input.r, input.e) < INPUT_BUF
EndsLine(c, e) == c \in {"newline", "eof"} \/ e = Plus(input.r, INPUT_BUF)

Span(i, j, buf) == [k \in 1..Dist(i, j) |-> buf[Slot(Plus(i, k - 1))]]

TypeChar(c) ==
  LET e   == Plus(input.e, 1)
      buf == [input.buf EXCEPT ![Slot(input.e)] = c] IN
  /\ lock = 0 /\ typed < MaxTyped /\ c \notin {"backspace", "killline"}
  /\ typed' = typed + 1
  /\ IF ~Room THEN UNCHANGED <<input, rd, committed>>
     ELSE IF EndsLine(c, e)
     THEN /\ input' = [input EXCEPT !.buf = buf, !.e = e, !.w = e]
          /\ committed' = committed \o Span(input.w, e, buf)
          /\ WakeReaders
     ELSE /\ input' = [input EXCEPT !.buf = buf, !.e = e]
          /\ UNCHANGED <<rd, committed>>
  /\ UNCHANGED <<lock, calls, taken, zeros>>

Erasable   == input.e # input.w

Erase(c) ==
  /\ lock = 0 /\ typed < MaxTyped /\ c \in {"backspace", "killline"}
  /\ typed' = typed + 1
  /\ input' = [input EXCEPT !.e = IF c = "killline" THEN KillTo
                                  ELSE IF Erasable THEN Plus(@, WRAP - 1) ELSE @]
  /\ UNCHANGED <<lock, rd, calls, committed, taken, zeros>>

-----------------------------------------------------------------------------
(* consoleread()                                                              *)

Call(p, n) ==
  /\ rd[p].at = "out" /\ calls[p] > 0 /\ ~rd[p].killed
  /\ rd' = [rd EXCEPT ![p] = [@ EXCEPT !.at = "ready", !.n = n, !.target = n]]
  /\ calls' = [calls EXCEPT ![p] = @ - 1]
  /\ UNCHANGED <<input, lock, typed, committed, taken, zeros>>

ReadEnter(p) ==
  /\ rd[p].at = "ready" /\ lock = 0
  /\ lock' = p
  /\ UNCHANGED <<input, rd, typed, calls, committed, taken, zeros>>

Return(p, n) ==
  /\ lock' = 0
  /\ rd' = [rd EXCEPT ![p].at = "out"]
  /\ zeros' = zeros + IF n = 0 THEN 1 ELSE 0

Wait(p) ==
  /\ lock = p /\ rd[p].n > 0 /\ input.r = input.w
  /\ IF rd[p].killed THEN Return(p, -1)
     ELSE /\ rd' = [rd EXCEPT ![p].at = "asleep"]
          /\ lock' = 0
          /\ UNCHANGED zeros
  /\ UNCHANGED <<input, typed, calls, committed, taken>>

(* ^D ends the call; it stays for the next call if this one has bytes.        *)
PutBack(p)   == rd[p].n < rd[p].target

Take(p) ==
  LET c == input.buf[Slot(input.r)]
      n == rd[p].n - 1 IN
  /\ lock = p /\ rd[p].n > 0 /\ input.r # input.w
  /\ IF c = "eof"
     THEN /\ input' = [input EXCEPT !.r = IF PutBack(p) THEN @ ELSE Plus(@, 1)]
          /\ taken' = IF PutBack(p) THEN taken ELSE Append(taken, c)
          /\ Return(p, rd[p].target - rd[p].n)
     ELSE /\ input' = [input EXCEPT !.r = Plus(@, 1)]
          /\ taken' = Append(taken, c)
          /\ IF c = "newline" \/ n = 0 THEN Return(p, rd[p].target - n)
             ELSE rd' = [rd EXCEPT ![p].n = n] /\ UNCHANGED <<lock, zeros>>
  /\ UNCHANGED <<typed, calls, committed>>

(* kill() wakes a sleeping process, which looks at killed again.              *)
KillReader(p) ==
  /\ lock = 0 /\ ~rd[p].killed /\ rd[p].at # "out"
  /\ rd' = [rd EXCEPT ![p].killed = TRUE, ![p].at = IF @ = "asleep" THEN "ready" ELSE @]
  /\ UNCHANGED <<input, lock, typed, calls, committed, taken, zeros>>

ReadStep(p) == ReadEnter(p) \/ Wait(p) \/ Take(p)

ConsNext ==
  \/ \E c \in Key : TypeChar(c) \/ Erase(c)
  \/ \E p \in ConsReader : ReadStep(p) \/ KillReader(p) \/ \E n \in 1..MaxRead : Call(p, n)

ConsSpec == ConsInit /\ [][ConsNext]_consVars

-----------------------------------------------------------------------------

(* The indices count modulo WRAP, and in this order: r, w, e, with at most a  *)
(* bufferful between them.                                                    *)
ConsTypeOK ==
  /\ {input.r, input.w, input.e} \subseteq 0..(WRAP - 1)
  /\ Dist(input.r, input.w) <= Dist(input.r, input.e) /\ Dist(input.r, input.e) <= INPUT_BUF
  /\ lock \in ConsReader \cup {0}

(* The readers together get every committed byte once and in order, however   *)
(* the indices wrap, lines are edited and calls end in the middle of a line.  *)
LinesInOrder == committed = taken \o Span(input.r, input.w, input.buf)

(* No reader sleeps while there are bytes for it.                             *)
NobodySleepsOnInput == (\E p \in ConsReader : rd[p].at = "asleep") => input.r = input.w

(* A full buffer is ready to be read: nobody waits for a newline that there   *)
(* is no room to type (console.c:221).                                        *)
FullIsReady == Dist(input.r, input.e) = INPUT_BUF => input.w = input.e

(* Every ^D makes one call return 0, also when the reader that meets it has   *)
(* bytes already and another reader is waiting (console.c:255-258).           *)
EofIsZero == zeros = Cardinality({i \in 1..Len(taken) : taken[i] = "eof"})

(* Bytes, ends of file and sleepers of the console, with every interrupt      *)
(* between any two steps of a reader.                                         *)
ConsoleSound ==
  ConsTypeOK /\ LinesInOrder /\ NobodySleepsOnInput /\ FullIsReady /\ EofIsZero

=============================================================================
