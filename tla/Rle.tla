--------------------------------- MODULE Rle ---------------------------------
(* The two passes of pzip.c over bytes: the run length encoding of a chunk in *)
(* consumer() and the merge across chunks in compressOutput(), with the       *)
(* encoding they should add up to.                                            *)
EXTENDS Naturals, Sequences, SequencesExt

NUL == 0

Run(n, b) == [count |-> n, byte |-> b]

(* consumer() compares an unsigned char of the file with a char: they are     *)
(* equal for ASCII only, so that any other byte always starts a run.          *)
Extends(c, b) == c = b /\ c < 128

(* One byte of the chunk: a NUL is skipped, and ends the run before it.       *)
EncodeByte(acc, b) ==
  [prev |-> b,
   runs |-> IF b = NUL
            THEN acc.runs
            ELSE IF acc.runs # <<>> /\ Extends(b, acc.prev)
                 THEN [acc.runs EXCEPT ![Len(acc.runs)].count = @ + 1]
                 ELSE Append(acc.runs, Run(1, b))]

Encode(bytes) == FoldLeft(EncodeByte, [prev |-> NUL, runs |-> <<>>], bytes).runs

(* Without any record the last fwrite of compressOutput() reads the bytes     *)
(* before the first buffer.                                                   *)
Garbage == Run(0, NUL)

LostCount(acc, r) ==
  IF r.byte = acc.last.byte
  THEN [acc EXCEPT !.last = r]
  ELSE [last    |-> r,
        written |-> IF acc.last # Garbage THEN Append(acc.written, acc.last) ELSE acc.written]

(* compressOutput(): a record with the byte of the one before takes over its  *)
(* count; otherwise the one before is written.                                *)
MergeRun(acc, r) ==
  IF r.byte = acc.last.byte
  THEN [acc EXCEPT !.last = Run(r.count + acc.last.count, r.byte)]
  ELSE [last    |-> r,
        written |-> IF acc.last # Garbage THEN Append(acc.written, acc.last) ELSE acc.written]

Merge(runs) ==
  LET end == FoldLeft(MergeRun, [last |-> Garbage, written |-> <<>>], runs)
  IN  Append(end.written, end.last)

-----------------------------------------------------------------------------
(* The encoding of a sequence of bytes: the maximal runs of what is left when *)
(* the NUL bytes are taken out.                                               *)
Reference(bytes) ==
  LET s      == SelectSeq(bytes, LAMBDA b : b # NUL)
      starts == {i \in 1..Len(s) : i = 1 \/ s[i] # s[i - 1]}
      from   == SetToSortSeq(starts, <)
      end(i) == IF i = Len(from) THEN Len(s) + 1 ELSE from[i + 1]
  IN  [i \in 1..Len(from) |-> Run(end(i) - from[i], s[from[i]])]
=============================================================================
