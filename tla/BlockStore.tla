----------------------------- MODULE BlockStore -----------------------------
(* What bread(), bwrite(), log_write() and brelse() promise: a block is held  *)
(* by one process at a time, and only the process that holds it changes it.   *)
CONSTANTS StoreProc, StoreBlock, Content, Nobody

VARIABLES store, holder

StoreInit ==
  /\ store \in [StoreBlock -> Content]
  /\ holder = [b \in StoreBlock |-> Nobody]

Hold(p, b) ==
  /\ holder[b] = Nobody
  /\ holder' = [holder EXCEPT ![b] = p]
  /\ UNCHANGED store

Update(p, b) ==
  /\ holder[b] = p
  /\ \E v \in Content : store' = [store EXCEPT ![b] = v]
  /\ UNCHANGED holder

Give(p, b) ==
  /\ holder[b] = p
  /\ holder' = [holder EXCEPT ![b] = Nobody]
  /\ UNCHANGED store

StoreNext == \E p \in StoreProc, b \in StoreBlock : Hold(p, b) \/ Update(p, b) \/ Give(p, b)

StoreSpec == StoreInit /\ [][StoreNext]_<<store, holder>>

=============================================================================
