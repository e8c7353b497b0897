--------------------------- MODULE MasterScheduler ---------------------------
(***************************************************************************)
(* The queues of MasterScheduler (src/master/MasterScheduler.h) and the    *)
(* actions they hold (src/master/Action.h), as operators on sequences.     *)
(*                                                                         *)
(* m_ready is a FIFO of actions.  m_waiting is a priority queue of actions *)
(* with a due time.  Here it is the sequence of its elements in the order  *)
(* in which top()/pop() deliver them, and the due time of an element is    *)
(* kept as `left', the time left until it is due (0: due now or overdue).  *)
(***************************************************************************)
EXTENDS Integers, Sequences

(* LocalAddress::null_addr. *)
NullAddr == 0

(* A timer that is not armed; an armed one holds the time left. *)
Off == -1
TimerValue == Nat \cup {Off}

(* One tick of the clock, as an armed or disarmed timer sees it. *)
Aged(t) == IF t > 0 THEN t - 1 ELSE t

-----------------------------------------------------------------------------
(* Actions. *)

MasterStart == [cmd |-> "send_master_start", addr |-> NullAddr]
QueryAddress == [cmd |-> "query_address", addr |-> NullAddr]
DoNothing == [cmd |-> "do_nothing", addr |-> NullAddr]
SendToken(a) == [cmd |-> "send_token", addr |-> a]

-----------------------------------------------------------------------------
(* The queues. *)

(* Mutant: the waiting queue is a FIFO. *)
LastPosition(waiting, left) == {Len(waiting)}

(* Positions at which a new element may stand in the waiting queue.  Among  *)
(* equal due times (and equal commands) std::priority_queue promises no     *)
(* order, so there may be several.                                          *)
Positions(waiting, left) ==
  {k \in 0 .. Len(waiting) :
     /\ \A i \in 1 .. k : waiting[i].left <= left
     /\ \A i \in (k + 1) .. Len(waiting) : left <= waiting[i].left}

AddAction(waiting, k, action, left) ==
  [i \in 1 .. (Len(waiting) + 1) |->
     IF i <= k THEN waiting[i]
     ELSE IF i = k + 1 THEN [action |-> action, left |-> left]
     ELSE waiting[i - 1]]

AddActionNow(ready, action) == Append(ready, action)

(* workToDo() moves the first n elements of the waiting queue: it goes on   *)
(* while the top one is due.                                                *)
WorkToDoMoves(waiting, n) ==
  /\ n \in 0 .. Len(waiting)
  /\ \A i \in 1 .. n : waiting[i].left = 0
  /\ n < Len(waiting) => waiting[n + 1].left > 0

ReadyAfter(ready, waiting, n) ==
  [i \in 1 .. (Len(ready) + n) |->
     IF i <= Len(ready) THEN ready[i] ELSE waiting[i - Len(ready)].action]

(* Mutant: the loop pops once more than it pushes. *)
WaitingAfterExtraPop(waiting, n) ==
  [i \in 1 .. (Len(waiting) - n - 1) |-> waiting[i + n + 1]]

WaitingAfter(waiting, n) ==
  [i \in 1 .. (Len(waiting) - n) |-> waiting[i + n]]

(* The elements of the waiting queue one tick later. *)
AgedWaiting(waiting) ==
  [i \in 1 .. Len(waiting) |->
     [action |-> waiting[i].action, left |-> Aged(waiting[i].left)]]
=============================================================================
