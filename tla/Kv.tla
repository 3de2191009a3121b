--------------------------------- MODULE Kv ---------------------------------
(* The key-value store kv.c: an array of keys and pointers to values, read    *)
(* from database.txt when a run starts and written when it ends.  A command   *)
(* of the command line is a step; so is a line of the file.  Of a value only  *)
(* its buffer is kept: it is copied without its NUL, so that what is printed  *)
(* and saved is the value and whatever follows it in memory, up to a NUL.     *)
(* The model takes what follows to stay on the line of the value.             *)
EXTENDS Integers, Sequences, FiniteSets, SequencesExt, FiniteSetsExt, Functions

CONSTANTS KvKey,
          INITIAL_CAPACITY,
          KvBuffer,      \* bounds: the buffers of the heap (numbers),
          MaxCommands    \* the commands

ASSUME KvAssumption == KvKey # {} /\ INITIAL_CAPACITY \in Nat \ {0}

VARIABLES
  db,       \* [arr: sequence of [key, ptr], capacity]; size is the length
  heap,     \* a buffer is "fresh", "live" or "freed"
  database, \* the keys of the lines of database.txt
  run,      \* "loading", "running", "saving", "over" or "wild"
  line,     \* the next line to read or to write
  asked,    \* the last command or the end of the last run: [op, key]
  commands

kvVars == <<db, heap, database, run, line, asked, commands>>

Size      == Len(db.arr)
IndexOf(k) == {i \in 1..Size : db.arr[i].key = k}
First(k)   == Min(IndexOf(k))

(* malloc() returns any buffer that is not allocated, also one that an entry  *)
(* of the array still points to.                                              *)
FreeBuffers == {b \in KvBuffer : heap[b] # "live"}
Malloc(b)   == b \in FreeBuffers /\ (heap[b] = "freed" \/ b = Min(FreeBuffers))
               /\ heap' = [heap EXCEPT ![b] = "live"]

Asked(op, k) == asked' = [op |-> op, key |-> k]

KvInit ==
  /\ db = [arr |-> <<>>, capacity |-> INITIAL_CAPACITY]
  /\ heap = [b \in KvBuffer |-> "fresh"]
  /\ database = <<>>
  /\ run = "loading" /\ line = 1
  /\ asked = [op |-> "none", key |-> 0] /\ commands = 0

-----------------------------------------------------------------------------
(* main() reads the file.  The array does not grow here: a line more than it  *)
(* holds is written past its end, and nothing is known of what follows, in    *)
(* this run or, from the file it may leave, in the next.                      *)
Load(b) ==
  /\ run = "loading" /\ line <= Len(database)
  /\ IF Size = db.capacity
     THEN run' = "wild" /\ UNCHANGED <<db, heap, line>>
     ELSE /\ Malloc(b)
          /\ db' = [db EXCEPT !.arr = Append(@, [key |-> database[line], ptr |-> b])]
          /\ line' = line + 1
          /\ UNCHANGED run
  /\ UNCHANGED <<database, asked, commands>>

Loaded ==
  /\ run = "loading" /\ line > Len(database)
  /\ run' = "running"
  /\ UNCHANGED <<db, heap, database, line, asked, commands>>

Command == run = "running" /\ commands < MaxCommands /\ commands' = commands + 1

(* putinStore(): a full array is doubled before the key is looked for.        *)
Grown(n)       == IF n # 0 /\ n = db.capacity THEN 2 * db.capacity ELSE db.capacity

PutinStore(k, b) ==
  /\ Command /\ Asked("p", k) /\ Malloc(b)
  /\ db' = [capacity |-> Grown(Size),
            arr |-> IF IndexOf(k) # {} THEN [db.arr EXCEPT ![First(k)].ptr = b]
                    ELSE Append(db.arr, [key |-> k, ptr |-> b])]
  /\ UNCHANGED <<database, run, line>>

(* deleteKey(): the entries behind move up, pointers and all, and then the    *)
(* buffer of the last place is freed, which is now that of two entries.  The  *)
(* C library ends a run that frees a buffer twice.                            *)
NotShifted(k) == Size              \* mutant: the last entry goes
Gone(k)       == First(k)

DeleteStore(k) ==
  LET last == db.arr[Size].ptr IN
  /\ Command /\ IndexOf(k) # {}
  /\ IF heap[last] = "live"
     THEN /\ Asked("d", k)
          /\ db' = [db EXCEPT !.arr = RemoveAt(@, Gone(k))]
          /\ heap' = [heap EXCEPT ![last] = "freed"]
          /\ UNCHANGED run
     ELSE run' = "over" /\ Asked("stopped", 0) /\ UNCHANGED <<db, heap>>
  /\ UNCHANGED <<database, line>>

(* clearStore(): the buffers are not freed.                                   *)
ClearStore ==
  /\ Command /\ Asked("c", 0)
  /\ db' = [db EXCEPT !.arr = <<>>]
  /\ UNCHANGED <<heap, database, run, line>>

-----------------------------------------------------------------------------
(* The end of main(): the file is emptied first.                              *)
SaveStart ==
  /\ run = "running"
  /\ database' = <<>>
  /\ run' = "saving" /\ line' = 1
  /\ Asked("save", 0)
  /\ UNCHANGED <<db, heap, commands>>

SaveLine ==
  /\ run = "saving" /\ line <= Size
  /\ database' = Append(database, db.arr[line].key)
  /\ line' = line + 1
  /\ UNCHANGED <<db, heap, run, asked, commands>>

Saved ==
  /\ run = "saving" /\ line > Size
  /\ run' = "over" /\ Asked("end", 0)
  /\ UNCHANGED <<db, heap, database, line, commands>>

(* The run is stopped at any point.  A line cut before its value is skipped   *)
(* by the next run.                                                           *)
Stopped ==
  /\ run \notin {"over", "wild"}
  /\ run' = "over" /\ Asked("stopped", 0)
  /\ UNCHANGED <<db, heap, database, line, commands>>

(* The next run, with a new heap.                                             *)
Restart ==
  /\ run = "over" /\ commands < MaxCommands
  /\ db' = [arr |-> <<>>, capacity |-> INITIAL_CAPACITY]
  /\ heap' = [b \in KvBuffer |-> "fresh"]
  /\ run' = "loading" /\ line' = 1
  /\ UNCHANGED <<database, asked, commands>>

KvNext ==
  \/ \E b \in KvBuffer : Load(b) \/ \E k \in KvKey : PutinStore(k, b)
  \/ \E k \in KvKey : DeleteStore(k)
  \/ Loaded \/ ClearStore \/ SaveStart \/ SaveLine \/ Saved \/ Stopped \/ Restart

KvSpec == KvInit /\ [][KvNext]_kvVars

-----------------------------------------------------------------------------

KeysOf(arr) == {arr[i].key : i \in DOMAIN arr}

(* A key is in the array, and in the file, once, and the array holds what its *)
(* size says.                                                                 *)
KvTypeOK ==
  /\ Cardinality(KeysOf(db.arr)) = Size /\ Size <= db.capacity
  /\ Cardinality(Range(database)) = Len(database)
  /\ \A i \in 1..Size : db.arr[i].key \in KvKey /\ db.arr[i].ptr \in KvBuffer
  /\ run \in {"loading", "running", "saving", "over", "wild"}

(* The program keeps a set of keys from run to run: a put adds its key, a     *)
(* delete takes out its own and no other, a run that comes to its end leaves  *)
(* the whole set to the next and one that is stopped the old set or a part of *)
(* its own.  Nothing is promised once the file has more keys than             *)
(* INITIAL_CAPACITY.                                                          *)
Map == INSTANCE PersistentMap WITH
         MapKey <- KvKey, Capacity <- INITIAL_CAPACITY, kept <- Range(database),
         map <- IF run \in {"loading", "over", "wild"} THEN Range(database) ELSE KeysOf(db.arr),
         lost <- run = "wild"

(* The refinement of that map, which reads the array and the file as sets,    *)
(* and that no key is twice in them.                                          *)
KvIsMap == []KvTypeOK /\ Map!MapSpec

(* "either deletes the relevant key-value pair (and prints nothing), or fails *)
(* to do so": every key that is left still has its value (README.md:34).      *)
ValuesLive == \A i \in 1..Size : heap[db.arr[i].ptr] = "live"

=============================================================================
