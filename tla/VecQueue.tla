------------------------------ MODULE VecQueue ------------------------------
(***************************************************************************)
(* VecQueue<El> of src/src/utility/VecQueue.h: a queue kept in a vector.   *)
(* pop only moves the position of the head; the elements in front of it    *)
(* are erased when the queue runs empty, or when the vector is longer than *)
(* normLimit and more than half of it has been consumed.                   *)
(*                                                                         *)
(* A queue is a record of its two members.  Positions in the vector count  *)
(* from 0 in the code and from 1 in a sequence, so the head element is     *)
(* store[head + 1].                                                        *)
(***************************************************************************)
EXTENDS Integers, Sequences

CONSTANT NormLimit   \* the template parameter normLimit of push, 20

ASSUME NormLimitAssumption == NormLimit \in Nat

EmptyQueue == [store |-> <<>>, head |-> 0]

\* front
HeadOf(q) == q.store[q.head + 1]

\* empty
IsEmpty(q) == q.store = <<>>

\* size
SizeOf(q) == Len(q.store) - q.head

\* The elements a user of the queue can still take, in their order.
Contents(q) == SubSeq(q.store, q.head + 1, Len(q.store))

(* Mutant: the head is not moved back when the vector is cleared. *)
CheckEmptyKeepsHead(q) ==
  IF q.head = Len(q.store) THEN [store |-> <<>>, head |-> q.head] ELSE q

CheckEmpty(q) == IF q.head = Len(q.store) THEN EmptyQueue ELSE q

(* Mutant: the head element is erased with the consumed ones. *)
CheckRenormalizationDropsHead(q) ==
  IF q.head > Len(q.store) \div 2
  THEN [store |-> SubSeq(q.store, q.head + 2, Len(q.store)), head |-> 0]
  ELSE q

CheckRenormalization(q) ==
  IF q.head > Len(q.store) \div 2
  THEN [store |-> SubSeq(q.store, q.head + 1, Len(q.store)), head |-> 0]
  ELSE q

Push(q, el) ==
  LET r == IF Len(q.store) > NormLimit THEN CheckRenormalization(q) ELSE q
  IN  [store |-> Append(r.store, el), head |-> r.head]

Pop(q) == CheckEmpty([store |-> q.store, head |-> q.head + 1])

PopBack(q) ==
  CheckEmpty([store |-> SubSeq(q.store, 1, Len(q.store) - 1),
              head |-> q.head])

(* The queues over a set of elements that satisfy the comment in the class *)
(* (lines 85 to 88): the head is a position of the vector or 0, and the    *)
(* vector is empty when the queue is.                                      *)
Sound(q, El) ==
  /\ q.store \in Seq(El)
  /\ q.head \in Nat
  /\ q.head < Len(q.store) \/ q = EmptyQueue
=============================================================================
