-------------------------------- MODULE Text --------------------------------
(* What user programs and the kernel do with characters: grep.c, and the      *)
(* copying, comparing and converting functions of string.c, ulib.c, printf.c. *)
(* A character is a string of length one; a C string is the sequence of the   *)
(* characters before its NUL.                                                 *)
EXTENDS Integers, Sequences, FiniteSets, SequencesExt, FiniteSetsExt

CONSTANTS Patterns, Subjects,  \* of grep: patterns, lines,
          Streams,             \* the input of a run of grep
          BUFSIZE,             \* of grep's buf
          MemSize,             \* of the memory that is copied in
          WIDTH                \* bits of an int

ASSUME TextAssumption == {BUFSIZE, MemSize, WIDTH} \subseteq Nat \ {0}

VARIABLE sample   \* what a function is called with

Chars(s, k)  == SubSeq(s, 1, k)
Past(s, k) == SubSeq(s, k + 1, Len(s))

-----------------------------------------------------------------------------
(* grep.c: match()                                                            *)
RECURSIVE Matchhere(_, _), Matchstar(_, _, _)

StarTakes(c, re, text) ==
  \/ Matchhere(re, text)
  \/ text # <<>> /\ (text[1] = c \/ c = ".") /\ Matchstar(c, re, Tail(text))
Matchstar(c, re, text) == StarTakes(c, re, text)

Matchhere(re, text) ==
  IF re = <<>> THEN TRUE
  ELSE IF Len(re) > 1 /\ re[2] = "*" THEN Matchstar(re[1], Past(re, 2), text)
  ELSE IF re = <<"$">> THEN text = <<>>
  ELSE text # <<>> /\ re[1] \in {".", text[1]} /\ Matchhere(Tail(re), Tail(text))

Match(re, text) ==
  IF re # <<>> /\ re[1] = "^" THEN Matchhere(Tail(re), text)
  ELSE \E k \in 0..Len(text) : Matchhere(re, Past(text, k))

(* What a pattern means: a list of items, each a character and whether it may *)
(* be repeated, that cut a part of the line into pieces.                      *)
RECURSIVE Items(_)
Items(re) ==
  IF re = <<>> THEN <<>>
  ELSE IF Len(re) > 1 /\ re[2] = "*" THEN <<[c |-> re[1], star |-> TRUE]>> \o Items(Past(re, 2))
  ELSE <<[c |-> re[1], star |-> FALSE]>> \o Items(Tail(re))

Denotes(re, text) ==
  LET tied  == re # <<>> /\ re[1] = "^"
      all   == Items(IF tied THEN Tail(re) ELSE re)
      ends  == all # <<>> /\ Last(all) = [c |-> "$", star |-> FALSE]
      items == IF ends THEN Chars(all, Len(all) - 1) ELSE all
      n     == Len(items) IN
  \E cut \in [0..n -> 0..Len(text)] :
    /\ tied => cut[0] = 0
    /\ ends => cut[n] = Len(text)
    /\ \A i \in 1..n :
         /\ cut[i - 1] <= cut[i] /\ (~items[i].star => cut[i] = cut[i - 1] + 1)
         /\ \A x \in (cut[i - 1] + 1)..cut[i] : items[i].c \in {".", text[x]}

(* match() finds exactly the lines that have a part its pattern describes.    *)
GrepMatches == sample.kind = "match" => (Match(sample.re, sample.text) <=> Denotes(sample.re, sample.text))

-----------------------------------------------------------------------------
(* grep(): the lines it looks at.                                             *)
NewlineAt(s) == {k \in DOMAIN s : s[k] = "nl"}
RECURSIVE LinesOf(_)
LinesOf(s) ==
  IF NewlineAt(s) = {} THEN <<>>
  ELSE LET k == Min(NewlineAt(s)) IN <<Chars(s, k - 1)>> \o LinesOf(Past(s, k))

DropsRest(s) == <<>>   \* mutant: every read starts at the front of buf
KeepsRest(s) == IF NewlineAt(s) = {} THEN <<>> ELSE Past(s, Max(NewlineAt(s)))
Carried(s)      == KeepsRest(s)

RECURSIVE Greps(_, _)
Greps(buf, input) ==   \* buf: the m characters of the rest
  LET n == Min({BUFSIZE - Len(buf) - 1, Len(input)})
      s == buf \o Chars(input, n) IN
  IF n = 0 THEN <<>> ELSE LinesOf(s) \o Greps(Carried(s), Past(input, n))

(* Of a file, whose reads fill the buffer, grep looks at every line that ends *)
(* and fits, however the lines lie across the buffer.  (Of a pipe, a line is  *)
(* lost up to the end of a read that brings no newline, which is the case     *)
(* this property leaves out.)                                                 *)
LinesFit(s) == \A line \in ToSet(LinesOf(s)) : Len(line) < BUFSIZE - 1
GrepSeesLines ==
  sample.kind = "stream" /\ LinesFit(sample.text) => Greps(<<>>, sample.text) = LinesOf(sample.text)

-----------------------------------------------------------------------------
(* memmove() of string.c, which copies backwards when it must, and of ulib.c, *)
(* which never does.  Memory is a sequence; d and s are places in it.         *)
CopyByte(mem, d, s) == [mem EXCEPT ![d] = mem[s]]

RECURSIVE Forward(_, _, _, _), Backward(_, _, _, _)
Forward(mem, d, s, n)  == IF n = 0 THEN mem ELSE Forward(CopyByte(mem, d, s), d + 1, s + 1, n - 1)
Backward(mem, d, s, n) == IF n = 0 THEN mem ELSE Backward(CopyByte(mem, d + n - 1, s + n - 1), d, s, n - 1)

Overlap(d, s, n)        == s < d /\ s + n > d
KernelMemmove(mem, d, s, n) == IF Overlap(d, s, n) THEN Backward(mem, d, s, n) ELSE Forward(mem, d, s, n)
UserMemmove(mem, d, s, n)   == Forward(mem, d, s, n)

(* strncpy() and safestrcpy(): what they leave in the n places they may use;  *)
(* 0 is NUL, "x" a place that they do not write.                              *)
FillUp(s, n, c) == s \o [k \in 1..(n - Len(s)) |-> c]
Strncpy(t, n) == IF Len(t) >= n THEN Chars(t, n) ELSE FillUp(t, n, "0")
Safestrcpy(t, n) ==
  IF n <= 0 THEN <<>>
  ELSE LET k == Min({Len(t), n - 1}) IN FillUp(Chars(t, k) \o <<"0">>, n, "x")

CopyOf(mem, d, s, n) == [k \in DOMAIN mem |-> IF k \in d..(d + n - 1) THEN mem[s + k - d] ELSE mem[k]]
Memory == [k \in 1..MemSize |-> k]

(* A copy is right whether or not its two ends overlap; the one of user       *)
(* programs only if the destination does not begin inside the source.  A name *)
(* is cut to what its array holds, and safestrcpy() always ends it.           *)
CopiesRight ==
  /\ sample.kind = "move" =>
       LET d == sample.d  e == sample.s  n == sample.n IN
       /\ KernelMemmove(Memory, d, e, n) = CopyOf(Memory, d, e, n)
       /\ d \notin (e + 1)..(e + n - 1) => UserMemmove(Memory, d, e, n) = CopyOf(Memory, d, e, n)
  /\ sample.kind = "copy" =>
       /\ Len(Strncpy(sample.text, sample.n)) = sample.n
       /\ Len(Safestrcpy(sample.text, sample.n)) = sample.n
       /\ sample.n > 0 => Contains(Safestrcpy(sample.text, sample.n), "0")

-----------------------------------------------------------------------------
(* printint(): the digits of an int of WIDTH bits, the last one first, and    *)
(* whether there is a sign.  The negation is in int, then read as unsigned.   *)
Unsigned(x) == x % (2 ^ WIDTH)
Signed(x)   == IF x < 2 ^ (WIDTH - 1) THEN x ELSE x - 2 ^ WIDTH
CInt        == (-(2 ^ (WIDTH - 1)))..(2 ^ (WIDTH - 1) - 1)

NegUnsigned(x) == Unsigned(-x)
Magnitude(x)   == NegUnsigned(x)

RECURSIVE Digits(_, _)
Digits(x, b) == IF x \div b = 0 THEN <<x % b>> ELSE <<x % b>> \o Digits(x \div b, b)

Printint(x, b, sgn) ==
  [neg |-> sgn /\ x < 0, digits |-> Digits(IF sgn /\ x < 0 THEN Magnitude(x) ELSE Unsigned(x), b)]

(* atoi(), which knows no sign; n*10 wraps.                                   *)
Atoi(digits) == FoldRight(LAMBDA d, n : Unsigned(n * 10 + d), digits, 0)

(* A number that was printed reads back as it was, the least one too; in base *)
(* 16 it reads back as its bits.                                              *)
NumbersReadBack ==
  sample.kind = "int" =>
    LET p == Printint(sample.n, 10, TRUE) IN
    /\ Atoi(p.digits) = Unsigned(IF p.neg THEN -sample.n ELSE sample.n)
    /\ p.neg <=> sample.n < 0
    /\ FoldRight(LAMBDA d, n : n * 16 + d, Printint(sample.n, 16, FALSE).digits, 0) = Unsigned(sample.n)

-----------------------------------------------------------------------------
MemPlaces == 1..MemSize
Samples ==
  [kind : {"match"}, re : Patterns, text : Subjects]
  \cup [kind : {"stream"}, text : Streams]
  \cup {m \in [kind : {"move"}, d : MemPlaces, s : MemPlaces, n : 0..MemSize] : Max({m.d, m.s}) + m.n <= MemSize + 1}
  \cup [kind : {"copy"}, text : Subjects, n : 0..MemSize]
  \cup [kind : {"int"}, n : CInt]

TextInit == sample \in Samples

=============================================================================
