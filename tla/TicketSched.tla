----------------------------- MODULE TicketSched -----------------------------
(* What the tickets of scheduler() in proc.c are worth: one processor, a      *)
(* fixed set of processes that keep their tickets, and the slices each one    *)
(* accumulates in ticksAcc.  Processes in Steady compute without end, the     *)
(* others may also sleep and be woken at any time.                            *)
EXTENDS Naturals

CONSTANTS N,          \* number of processes, in slots 1..N of the table
          Steady,     \* the processes that never sleep
          MaxTickets, \* bound: the largest number of tickets
          MaxPass     \* bound: passes over the table

ASSUME TicketAssumption ==
  /\ N \in Nat \ {0}
  /\ Steady \subseteq 1..N
  /\ MaxTickets \in Nat \ {0}
  /\ MaxPass \in Nat

Proc == 1..N

VARIABLES tickets, ticksAcc,
          runnable,  \* p->state is RUNNABLE when scheduler() looks at it
          cursor,    \* p, the loop variable of scheduler()
          turn,      \* i, the slice counter
          pass       \* passes completed

ticketVars == <<tickets, ticksAcc, runnable, cursor, turn, pass>>

TicketTypeOK ==
  /\ tickets \in [Proc -> 1..MaxTickets]
  /\ ticksAcc \in [Proc -> Nat]
  /\ runnable \in [Proc -> BOOLEAN]
  /\ cursor \in 1..(N + 1)
  /\ turn \in 1..(MaxTickets + 1)
  /\ pass \in Nat

TicketInit ==
  /\ tickets \in [Proc -> 1..MaxTickets]
  /\ ticksAcc = [p \in Proc |-> 0]
  /\ runnable = [p \in Proc |-> TRUE]
  /\ cursor = 1
  /\ turn = 1
  /\ pass = 0

StrictMoreSlices(p) == runnable[p] /\ turn < tickets[p]

(* The condition of the while loop of scheduler().                            *)
MoreSlices(p) == runnable[p] /\ turn <= tickets[p]

(* One iteration of the while loop.  The process comes back because the clock *)
(* ticked or, unless it is steady, because it went to sleep.                  *)
Slice(p) ==
  /\ cursor = p
  /\ MoreSlices(p)
  /\ ticksAcc' = [ticksAcc EXCEPT ![p] = @ + 1]
  /\ turn' = turn + 1
  /\ \E stays \in BOOLEAN :
       /\ p \in Steady => stays
       /\ runnable' = [runnable EXCEPT ![p] = stays]
  /\ UNCHANGED <<tickets, cursor, pass>>

(* The turn is over, or the slot is skipped.                                  *)
NextSlot(p) ==
  /\ cursor = p
  /\ ~MoreSlices(p)
  /\ cursor' = cursor + 1
  /\ turn' = 1
  /\ UNCHANGED <<tickets, ticksAcc, runnable, pass>>

NextPass ==
  /\ cursor = N + 1
  /\ pass < MaxPass
  /\ cursor' = 1
  /\ pass' = pass + 1
  /\ UNCHANGED <<tickets, ticksAcc, runnable, turn>>

(* wakeup1() or kill(), while another process runs: the scheduler keeps       *)
(* ptable.lock from the moment a process sleeps until it leaves its slot.     *)
Wake(p) ==
  /\ ~runnable[p] /\ cursor # p
  /\ runnable' = [runnable EXCEPT ![p] = TRUE]
  /\ UNCHANGED <<tickets, ticksAcc, cursor, turn, pass>>

TicketNext == NextPass \/ \E p \in Proc : Slice(p) \/ NextSlot(p) \/ Wake(p)

TicketSpec == TicketInit /\ [][TicketNext]_ticketVars

-----------------------------------------------------------------------------

(* scheduler() gives CPU time in proportion to tickets: against a process q   *)
(* that always computes, nobody is more than one turn ahead of its share.     *)
FairShare ==
  \A p \in Proc, q \in Steady :
    ticksAcc[p] * tickets[q] <= (ticksAcc[q] + tickets[q]) * tickets[p]

=============================================================================
