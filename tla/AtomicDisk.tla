----------------------------- MODULE AtomicDisk -----------------------------
(* What log.c promises to the file system: the operations between begin_op()  *)
(* and end_op() reach the disk in groups, and each group entirely or not at   *)
(* all, whenever the machine stops.                                           *)
CONSTANTS Block, Value, LogOp

VARIABLES durable,  \* what a machine that starts now would find on the disk
          current,  \* what the file system reads
          active    \* operations between begin_op() and end_op()

avars == <<durable, current, active>>

AInit ==
  /\ durable \in [Block -> Value]
  /\ current = durable
  /\ active = {}

Begin(t) ==
  /\ t \notin active
  /\ active' = active \cup {t}
  /\ UNCHANGED <<durable, current>>

Write(t, b, v) ==
  /\ t \in active
  /\ current' = [current EXCEPT ![b] = v]
  /\ UNCHANGED <<durable, active>>

End(t) ==
  /\ t \in active
  /\ active' = active \ {t}
  /\ UNCHANGED <<durable, current>>

(* Never in the middle of an operation.                                       *)
Commit ==
  /\ active = {}
  /\ durable' = current
  /\ UNCHANGED <<current, active>>

(* Uncommitted operations are lost as a whole.                                *)
Crash ==
  /\ current' = durable
  /\ active' = {}
  /\ UNCHANGED durable

ANext ==
  \/ \E t \in LogOp : Begin(t) \/ End(t) \/ \E b \in Block, v \in Value : Write(t, b, v)
  \/ Commit \/ Crash

ASpec == AInit /\ [][ANext]_avars
=============================================================================
