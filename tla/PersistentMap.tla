---------------------------- MODULE PersistentMap ----------------------------
(* What kv keeps: the keys of its map, and what a later run of the program    *)
(* finds of them.  A run that does not come to its end leaves the old keys or *)
(* a part of the new ones.  The promise ends with a file of more keys than    *)
(* the program has room for when it starts.                                   *)
EXTENDS Naturals, FiniteSets

CONSTANTS MapKey, Capacity

VARIABLES map, kept,  \* the keys of this run, those the file keeps
          asked,      \* the command, or how the last run ended: [op, key]
          lost        \* the promise has ended

Ask(op, k) == asked' = [op |-> op, key |-> k]

MapInit == map = {} /\ kept = {} /\ asked = [op |-> "none", key |-> 0] /\ lost = FALSE

PutKey(k)    == Ask("p", k) /\ map' = map \cup {k} /\ UNCHANGED kept
DeleteKey(k) == Ask("d", k) /\ k \in map /\ map' = map \ {k} /\ UNCHANGED kept
ClearMap     == Ask("c", 0) /\ map' = {} /\ UNCHANGED kept

(* The file at any point of the save.                                         *)
SaveMap == Ask("save", 0) /\ kept' \subseteq map /\ UNCHANGED map

(* The next run starts from the file.                                         *)
EndRun  == Ask("end", 0) /\ kept = map /\ UNCHANGED <<map, kept>>
StopRun == Ask("stopped", 0) /\ map' = kept /\ UNCHANGED kept

MapStep ==
  \/ \E k \in MapKey : PutKey(k) \/ DeleteKey(k)
  \/ ClearMap \/ SaveMap \/ EndRun \/ StopRun

NoRoom == asked.op \in {"end", "stopped"} /\ Cardinality(kept) > Capacity

MapNext ==
  \/ ~lost /\ MapStep /\ ~lost'
  \/ (lost \/ NoRoom) /\ lost'

MapSpec == MapInit /\ [][MapNext]_<<map, kept, asked, lost>>

=============================================================================
