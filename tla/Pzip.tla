-------------------------------- MODULE Pzip --------------------------------
(* The parallel compressor pzip.c: one producer that cuts the files into      *)
(* chunks, consumers that compress them, the circular queue and the two       *)
(* condition variables between them, and the merge of the compressed chunks   *)
(* once every thread has ended.  What a thread does between pthread_mutex_lock *)
(* and the next unlock or wait is one step.                                   *)
EXTENDS Integers, Sequences, FiniteSets, SequencesExt, Rle

CONSTANTS Consumer,  \* the consumer threads, get_nprocs() of them
          Producer,  \* the producer thread
          Files,     \* the arguments: the bytes of each file, or Missing
          Missing,   \* a file open() fails for
          ChunkSz,   \* bytes in a chunk
          QLen       \* slots of the queue

ASSUME PzipAssumption ==
  /\ Producer \notin Consumer /\ Consumer # {}
  /\ QLen \in Nat \ {0} /\ ChunkSz \in Nat \ {0}
  /\ Files \in Seq({Missing} \cup Seq(0..255)) /\ Files # <<>>

Thread == Consumer \cup {Producer}

Ceiling(n, m) == n \div m + (IF n % m # 0 THEN 1 ELSE 0)

FileSize(f) == IF Files[f] = Missing THEN 0 ELSE Len(Files[f])

NumChunks(f) == Ceiling(FileSize(f), ChunkSz)

(* totalChunks of main() after the first f files.                             *)
ChunksUpTo[f \in 0..Len(Files)] == IF f = 0 THEN 0 ELSE ChunksUpTo[f - 1] + NumChunks(f)

(* main() sizes the output array from a first look at the files.              *)
TotalChunks == ChunksUpTo[Len(Files)]

(* The length of chunk i (from 0) of file f: the last one takes what is left. *)
ChunkSize(f, i) ==
  IF i = NumChunks(f) - 1 /\ FileSize(f) % ChunkSz # 0 THEN FileSize(f) % ChunkSz ELSE ChunkSz

Chunk(f, i) == SubSeq(Files[f], i * ChunkSz + 1, i * ChunkSz + ChunkSize(f, i))

VARIABLES
  file, chunk, globalPage,              \* the producer's i, inner i, globalPage
  q, fillPtr, usePtr, numFull,          \* the circular queue
  isComplete,
  waitFill, waitEmpty,                  \* threads in pthread_cond_wait
  pc, item,                             \* per thread, and the qitem it works on
  output,                               \* compressed chunks by chunkNum
  printed                               \* what compressOutput() writes

producing == <<file, chunk, globalPage>>
ring      == <<q, fillPtr, usePtr, numFull>>
waiting   == <<waitFill, waitEmpty>>
vars      == <<producing, ring, isComplete, waiting, pc, item, output, printed>>

NoItem  == [num |-> -1, data |-> <<>>]
NoRuns  == [filled |-> FALSE, runs |-> <<>>]  \* an output slot nobody has filled
Filled(runs) == [filled |-> TRUE, runs |-> runs]

TypeOK ==
  /\ file \in 1..(Len(Files) + 1) /\ chunk \in Nat
  /\ globalPage \in 0..TotalChunks
  /\ fillPtr \in 0..(QLen - 1) /\ usePtr \in 0..(QLen - 1)
  /\ numFull \in 0..QLen
  /\ DOMAIN q = 0..(QLen - 1)
  /\ isComplete \in BOOLEAN
  /\ waitFill \subseteq Consumer /\ waitEmpty \subseteq {Producer}
  /\ pc[Producer] \in {"open", "put", "finish", "done", "joined"}
  /\ \A t \in Consumer : pc[t] \in {"flag", "take", "compress", "done"}
  /\ DOMAIN output = 0..(TotalChunks - 1)

Init ==
  /\ file = 1 /\ chunk = 0 /\ globalPage = 0
  /\ q = [i \in 0..(QLen - 1) |-> NoItem]
  /\ fillPtr = 0 /\ usePtr = 0 /\ numFull = 0
  /\ isComplete = FALSE
  /\ waitFill = {} /\ waitEmpty = {}
  /\ pc = [t \in Thread |-> IF t = Producer THEN "open" ELSE "flag"]
  /\ item = [t \in Thread |-> NoItem]
  /\ output = [i \in 0..(TotalChunks - 1) |-> NoRuns]
  /\ printed = NoRuns

Goto(t, l) == pc' = [pc EXCEPT ![t] = l]

-----------------------------------------------------------------------------
(* Condition variables *)

(* pthread_cond_signal wakes one waiter, if there is one.                     *)
Signal(set, next) == IF set = {} THEN next = {} ELSE \E t \in set : next = set \ {t}

(* pthread_cond_wait may also return by itself.                               *)
SpuriousWakeup ==
  /\ \/ \E t \in waitFill : waitFill' = waitFill \ {t} /\ UNCHANGED waitEmpty
     \/ \E t \in waitEmpty : waitEmpty' = waitEmpty \ {t} /\ UNCHANGED waitFill
  /\ UNCHANGED <<producing, ring, isComplete, pc, item, output, printed>>

-----------------------------------------------------------------------------
(* producer() *)

(* The next file: one that cannot be opened or is empty is skipped.           *)
OpenFile ==
  /\ pc[Producer] = "open"
  /\ IF file > Len(Files)
     THEN Goto(Producer, "finish") /\ UNCHANGED <<file, chunk>>
     ELSE IF FileSize(file) = 0
          THEN file' = file + 1 /\ UNCHANGED <<chunk, pc>>
          ELSE chunk' = 0 /\ Goto(Producer, "put") /\ UNCHANGED file
  /\ UNCHANGED <<globalPage, ring, isComplete, waiting, item, output, printed>>

QueueFull == numFull = QLen

PutsChunk == pc[Producer] = "put" /\ Producer \notin waitEmpty

(* The queue is full: wait for a consumer.                                    *)
PutWait ==
  /\ PutsChunk
  /\ QueueFull
  /\ waitEmpty' = {Producer}
  /\ UNCHANGED <<producing, ring, isComplete, waitFill, pc, item, output, printed>>

(* put() and pthread_cond_signal(&fill).                                      *)
PutChunk ==
  /\ PutsChunk
  /\ ~QueueFull
  /\ q' = [q EXCEPT ![fillPtr] = [num |-> globalPage, data |-> Chunk(file, chunk)]]
  /\ fillPtr' = (fillPtr + 1) % QLen
  /\ numFull' = numFull + 1
  /\ globalPage' = globalPage + 1
  /\ Signal(waitFill, waitFill')
  /\ IF chunk + 1 < NumChunks(file)
     THEN chunk' = chunk + 1 /\ UNCHANGED <<file, pc>>
     ELSE file' = file + 1 /\ chunk' = 0 /\ Goto(Producer, "open")
  /\ UNCHANGED <<usePtr, isComplete, waitEmpty, item, output, printed>>

WokenAtEndOne(set) == IF set = {} THEN {} ELSE set \ {CHOOSE t \in set : TRUE}

(* pthread_cond_broadcast(&fill): no consumer keeps waiting.                  *)
WokenAtEnd(set) == {}

FinishProducer ==
  /\ pc[Producer] = "finish"
  /\ isComplete' = TRUE
  /\ waitFill' = WokenAtEnd(waitFill)
  /\ Goto(Producer, "done")
  /\ UNCHANGED <<producing, ring, waitEmpty, item, output, printed>>

-----------------------------------------------------------------------------
(* consumer() *)

GoOnUntilComplete == ~isComplete
GoOn == numFull # 0 \/ ~isComplete

(* flag, before the loop and at its end.                                      *)
ReadFlag(t) ==
  /\ pc[t] = "flag"
  /\ Goto(t, IF GoOn THEN "take" ELSE "done")
  /\ UNCHANGED <<producing, ring, isComplete, waiting, item, output, printed>>

Takes(t) == pc[t] = "take" /\ t \notin waitFill

TakeWait(t) ==
  /\ Takes(t)
  /\ numFull = 0 /\ ~isComplete
  /\ waitFill' = waitFill \cup {t}
  /\ UNCHANGED <<producing, ring, isComplete, waitEmpty, pc, item, output, printed>>

CanTakeIfWoken == numFull # 0 \/ isComplete
CanTake == numFull # 0

(* get() and pthread_cond_signal(&empty).                                     *)
TakeChunk(t) ==
  /\ Takes(t)
  /\ CanTake
  /\ item' = [item EXCEPT ![t] = q[usePtr]]
  /\ usePtr' = (usePtr + 1) % QLen
  /\ numFull' = numFull - 1
  /\ Signal(waitEmpty, waitEmpty')
  /\ Goto(t, "compress")
  /\ UNCHANGED <<producing, q, fillPtr, isComplete, waitFill, output, printed>>

(* Another consumer took the last chunk.                                      *)
TakeNothing(t) ==
  /\ Takes(t)
  /\ ~CanTake /\ isComplete
  /\ Goto(t, "flag")
  /\ UNCHANGED <<producing, ring, isComplete, waiting, item, output, printed>>

(* Run length encoding, outside the lock.                                     *)
Compress(t) ==
  /\ pc[t] = "compress"
  /\ output' = [output EXCEPT ![item[t].num] = Filled(Encode(item[t].data))]
  /\ item' = [item EXCEPT ![t] = NoItem]
  /\ Goto(t, "flag")
  /\ UNCHANGED <<producing, ring, isComplete, waiting, printed>>

-----------------------------------------------------------------------------
(* main() joins the threads, then compressOutput().                           *)
MergeOutput ==
  /\ \A t \in Consumer : pc[t] = "done"
  /\ pc[Producer] = "done"
  /\ printed' = Filled(Merge(FlattenSeq([i \in 1..TotalChunks |-> output[i - 1].runs])))
  /\ Goto(Producer, "joined")
  /\ UNCHANGED <<producing, ring, isComplete, waiting, item, output>>

ProducerStep == OpenFile \/ PutWait \/ PutChunk \/ FinishProducer \/ MergeOutput

ConsumerStep(t) ==
  ReadFlag(t) \/ TakeWait(t) \/ TakeChunk(t) \/ TakeNothing(t) \/ Compress(t)

(* The process has exited.                                                    *)
Exited == pc[Producer] = "joined" /\ UNCHANGED vars

Next ==
  ProducerStep \/ (\E t \in Consumer : ConsumerStep(t)) \/ SpuriousWakeup \/ Exited

(* A thread that can run does; the mutex is handed to whoever keeps asking.   *)
Fairness ==
  /\ WF_vars(ProducerStep)
  /\ \A t \in Consumer : WF_vars(ConsumerStep(t))

Spec == Init /\ [][Next]_vars

FairSpec == Spec /\ Fairness

-----------------------------------------------------------------------------
(* The chunks in the queue, oldest first.                                     *)
Queued == [i \in 1..numFull |-> q[(usePtr + i - 1) % QLen]]

(* The qitems the producer cuts the files into.                               *)
AllItems ==
  {[num |-> ChunksUpTo[x[1] - 1] + x[2], data |-> Chunk(x[1], x[2])] :
     x \in UNION {{f} \X (0..(NumChunks(f) - 1)) : f \in 1..Len(Files)}}

(* put() and get() work on one bounded first-in first-out queue.              *)
Queue == INSTANCE BoundedFifo WITH
  Item <- AllItems, Bound <- QLen, queue <- Queued, in <- globalPage, out <- globalPage - numFull

QueueIsFifo == Queue!FSpec

(* Every chunk handed out so far is in exactly one place: the queue, the      *)
(* hands of one consumer, or its slot of the output.                          *)
ChunkInOnePlace ==
  \A n \in 0..(globalPage - 1) :
    Cardinality({i \in 1..numFull : Queued[i].num = n})
      + Cardinality({t \in Consumer : pc[t] = "compress" /\ item[t].num = n})
      + (IF output[n].filled THEN 1 ELSE 0) = 1

(* The consumers leave the loop only when the work is over.                   *)
NothingLeft ==
  (\A t \in Consumer : pc[t] = "done") =>
    numFull = 0 /\ \A n \in DOMAIN output : output[n].filled

(* What compressOutput() merges are the encodings of all chunks in the order  *)
(* of the input, whichever consumers encoded them, and in whatever order.     *)
DataOf(n) == (CHOOSE x \in AllItems : x.num = n).data

PrintedInOrder ==
  printed.filled =>
    printed.runs = Merge(FlattenSeq([i \in 1..TotalChunks |-> Encode(DataOf(i - 1))]))

(* What pzip writes is the run length encoding of its input without the NUL   *)
(* bytes, as if the files were one.                                           *)
AllBytes ==
  FlattenSeq([f \in 1..Len(Files) |-> IF Files[f] = Missing THEN <<>> ELSE Files[f]])

OutputCorrect == printed.filled => printed.runs = Reference(AllBytes)

(* Nobody waits forever for a signal: the program ends.                       *)
Terminates == <>(pc[Producer] = "joined")

(* No chunk is lost, taken twice or printed out of its place.                 *)
PzipSound == TypeOK /\ ChunkInOnePlace /\ NothingLeft /\ PrintedInOrder

=============================================================================
