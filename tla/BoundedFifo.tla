----------------------------- MODULE BoundedFifo -----------------------------
(* What put() and get() of pzip.c promise: the chunks come out in the order   *)
(* they went in, each of them once, and never more than Bound at a time.      *)
EXTENDS Naturals, Sequences

CONSTANTS Item, Bound

VARIABLES queue, in, out  \* the queue, and how many items went in and came out

FInit == queue = <<>> /\ in = 0 /\ out = 0

Put(x) ==
  /\ Len(queue) < Bound
  /\ queue' = Append(queue, x)
  /\ in' = in + 1
  /\ UNCHANGED out

Get ==
  /\ queue # <<>>
  /\ queue' = Tail(queue)
  /\ out' = out + 1
  /\ UNCHANGED in

FNext == Get \/ \E x \in Item : Put(x)

FSpec == FInit /\ [][FNext]_<<queue, in, out>>
=============================================================================
