------------------------------- MODULE Strings --------------------------------
(* More functions on characters, called with samples as those of Text are:    *)
(* printf() of user programs and cprintf() of the kernel, wc.c, gets() of     *)
(* ulib.c, and the comparisons of string.c and ulib.c.                        *)
EXTENDS Text

CONSTANTS Formats,        \* of printf() and cprintf()
          WcTexts, Inputs,  \* what wc and gets() read
          CNames,         \* strings of codes, to compare
          CMax            \* the largest size passed to gets() and strncmp()

ASSUME StringsAssumption == CMax \in Nat

-----------------------------------------------------------------------------
(* What is printed: <<"put", 0, c>> is a character of the format, <<"d", k>>  *)
(* and so on the k-th argument in that form.                                  *)
Put(c)     == <<"put", 0, c>>
Arg(c, k)  == <<IF c = "p" THEN "x" ELSE c, k, "">>
Unknown(c) == IF c = "%" THEN <<Put(c)>> ELSE <<Put("%"), Put(c)>>

(* printf(), one character after the other; state is 0 or '%'.                *)
NextArg(ap, c)   == ap + 1
PrintfChar(s, c) ==
  IF s.state = "0" THEN IF c = "%" THEN [s EXCEPT !.state = c] ELSE [s EXCEPT !.out = Append(@, Put(c))]
  ELSE IF c \in {"d", "x", "p", "s", "c"}
       THEN [state |-> "0", ap |-> NextArg(s.ap, c), out |-> Append(s.out, Arg(c, s.ap))]
  ELSE [s EXCEPT !.state = "0", !.out = @ \o Unknown(c)]
Printf(fmt) == FoldLeft(PrintfChar, [state |-> "0", ap |-> 1, out |-> <<>>], fmt).out

(* cprintf(), from the character at fmt[0] on; it has no %c.                  *)
RECURSIVE Cprintf(_, _)
Cprintf(fmt, argp) ==
  IF fmt = <<>> THEN <<>>
  ELSE IF fmt[1] # "%" THEN <<Put(fmt[1])>> \o Cprintf(Tail(fmt), argp)
  ELSE IF Len(fmt) = 1 THEN <<>>
  ELSE IF fmt[2] \in {"d", "x", "p", "s"} THEN <<Arg(fmt[2], argp)>> \o Cprintf(Past(fmt, 2), argp + 1)
  ELSE Unknown(fmt[2]) \o Cprintf(Past(fmt, 2), argp)

(* What a format means: a % starts a conversion if an even number of them     *)
(* stand right before it, and every conversion takes the next argument.       *)
Opens(fmt) == {i \in DOMAIN fmt : \E k \in 0..(i - 1) : /\ k % 2 = 0 /\ \A j \in (i - k)..i : fmt[j] = "%"
                                                       /\ (i - k > 1 => fmt[i - k - 1] # "%")}
Meaning(fmt, convs) ==
  LET arg(i) == 1 + Cardinality({j \in Opens(fmt) : j < i /\ j < Len(fmt) /\ fmt[j + 1] \in convs})
      at(i)  == IF i \notin Opens(fmt) THEN (IF i > 1 /\ i - 1 \in Opens(fmt) THEN <<>> ELSE <<Put(fmt[i])>>)
                ELSE IF i = Len(fmt) THEN <<>>
                ELSE IF fmt[i + 1] \in convs THEN <<Arg(fmt[i + 1], arg(i))>> ELSE Unknown(fmt[i + 1])
  IN  FlattenSeq([i \in DOMAIN fmt |-> at(i)])

(* printf() and cprintf() print what the format means: no conversion takes    *)
(* another one's argument, and they differ in %c only.                        *)
FormatsMean ==
  sample.kind = "format" =>
    /\ Printf(sample.text) = Meaning(sample.text, {"d", "x", "p", "s", "c"})
    /\ Cprintf(sample.text, 1) = Meaning(sample.text, {"d", "x", "p", "s"})

-----------------------------------------------------------------------------
(* wc(): lines, words and characters; inword lasts from one read to the next. *)
WcSpaces == {" ", "cr", "tab", "nl", "vt"}
WcChar(s, ch) ==
  [c |-> s.c + 1,
   l |-> s.l + (IF ch = "nl" THEN 1 ELSE 0),
   w |-> s.w + (IF ch \notin WcSpaces /\ ~s.inword THEN 1 ELSE 0),
   inword |-> ch \notin WcSpaces]
WcRead(s, buf)    == FoldLeft(WcChar, s, buf)
Wc(reads)         == FoldLeft(WcRead, [l |-> 0, w |-> 0, c |-> 0, inword |-> FALSE], reads)

(* The reads that end after the characters in cuts.                           *)
RECURSIVE ReadsOf(_, _, _)
ReadsOf(text, cuts, from) ==
  LET ends == {k \in cuts \cup {Len(text)} : from < k /\ k <= Len(text)} IN
  IF ends = {} THEN <<>> ELSE <<SubSeq(text, from + 1, Min(ends))>> \o ReadsOf(text, cuts, Min(ends))

(* wc counts the same however the input arrives (wc.c).                       *)
WcCounts ==
  sample.kind = "wc" =>
    LET t == sample.text  n == Wc(ReadsOf(t, sample.cuts, 0)) IN
    /\ n.c = Len(t) /\ n.l = Cardinality({k \in DOMAIN t : t[k] = "nl"})
    /\ n.w = Cardinality({k \in DOMAIN t : t[k] \notin WcSpaces /\ (k = 1 \/ t[k - 1] \in WcSpaces)})

-----------------------------------------------------------------------------
(* gets(): one line, or as much of it as fits before the NUL.                 *)
RoomForNul(i, max)   == i + 1 < max
Fits(i, max)         == RoomForNul(i, max)
RECURSIVE Gets(_, _, _)
Gets(input, i, max) ==
  IF ~Fits(i, max) \/ input = <<>> THEN <<>>
  ELSE IF input[1] \in {"nl", "cr"} THEN <<input[1]>>
  ELSE <<input[1]>> \o Gets(Tail(input), i + 1, max)
RECURSIVE AllGets(_, _)
AllGets(input, max) ==
  LET s == Gets(input, 0, max) IN IF s = <<>> THEN <<>> ELSE <<s>> \o AllGets(Past(input, Len(s)), max)

(* Calls of gets() take the whole input, never more than one line and never   *)
(* more than buf holds with its NUL (ulib.c; sh.c reads its commands so).     *)
GetsTakesLines ==
  sample.kind = "gets" =>
    LET lines == AllGets(sample.text, sample.n) IN
    /\ FlattenSeq(lines) = sample.text
    /\ \A line \in ToSet(lines) :
         Len(line) < sample.n /\ \A k \in 1..(Len(line) - 1) : line[k] \notin {"nl", "cr"}

-----------------------------------------------------------------------------
(* strcmp(), strncmp() and memcmp(); a C string ends with a NUL, 0.           *)
CharAt(s, k)     == IF k <= Len(s) THEN s[k] ELSE 0
Diff(a, b)       == a - b
Strcmp(p, q) ==
  LET k == Min({i \in 1..(Len(p) + 1) : CharAt(p, i) = 0 \/ CharAt(p, i) # CharAt(q, i)})
  IN  Diff(CharAt(p, k), CharAt(q, k))
Strncmp(p, q, n) ==
  LET stops == {i \in 1..n : CharAt(p, i) = 0 \/ CharAt(p, i) # CharAt(q, i)}
  IN  IF stops = {} THEN 0 ELSE Diff(CharAt(p, Min(stops)), CharAt(q, Min(stops)))
Memcmp(v, w, n) ==
  LET stops == {i \in 1..n : v[i] # w[i]}
  IN  IF stops = {} THEN 0 ELSE Diff(v[Min(stops)], w[Min(stops)])

(* dirlink() stores a name with strncpy(), padded with NULs or cut.           *)
StoredName(s, n) == [k \in 1..n |-> CharAt(s, k)]
Precedes(p, q) ==
  \E k \in 1..(Len(q)) : /\ \A i \in 1..(k - 1) : CharAt(p, i) = q[i]
                         /\ CharAt(p, k) < q[k]

(* The comparisons order strings by unsigned characters, memcmp() agrees with *)
(* strcmp() on padded arrays, and a directory finds a name exactly when it    *)
(* agrees with the stored one in the n = DIRSIZ characters that it keeps.     *)
NamesCompare ==
  sample.kind = "compare" =>
    LET p == sample.p  q == sample.q  n == sample.n IN
    /\ (Strcmp(p, q) < 0 <=> Precedes(p, q)) /\ (Strcmp(p, q) = 0 <=> p = q)
    /\ Strncmp(p, q, n) = Strcmp(Chars(p, Min({n, Len(p)})), Chars(q, Min({n, Len(q)})))
    /\ Strncmp(p, StoredName(q, n), n) = Strncmp(p, q, n)
    /\ Memcmp(StoredName(p, n), StoredName(q, n), n) = Strncmp(p, q, n)

-----------------------------------------------------------------------------
StringSamples ==
  [kind : {"format"}, text : Formats]
  \cup [kind : {"wc"}, text : WcTexts, cuts : SUBSET (1..3)]
  \cup [kind : {"gets"}, text : Inputs, n : 2..(CMax + 1)]
  \cup [kind : {"compare"}, p : CNames, q : CNames, n : 0..CMax]

StringsInit == sample \in Samples \cup StringSamples

(* The library and the text tools compute what their callers rely on, on      *)
(* every sample: searches, copies, comparisons, numbers, formats and counts.  *)
LibrarySound ==
  /\ GrepMatches /\ GrepSeesLines /\ CopiesRight /\ NumbersReadBack
  /\ FormatsMean /\ WcCounts /\ GetsTakesLines /\ NamesCompare

=============================================================================
