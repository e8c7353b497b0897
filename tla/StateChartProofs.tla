--------------------------- MODULE StateChartProofs --------------------------
(***************************************************************************)
(* Proofs about the event queue of a state chart: what the operations of   *)
(* VecQueue do to the elements a user can still take, for every limit of   *)
(* the renormalization, and from it the order in which events are handled. *)
(***************************************************************************)
EXTENDS StateChart, SequenceTheorems, TLAPS

(* Contents read element by element. *)
LEMMA ContentsElements ==
  ASSUME NEW El, NEW q, Sound(q, El)
  PROVE  /\ Contents(q) \in Seq(El)
         /\ Len(Contents(q)) = Len(q.store) - q.head
         /\ \A i \in 1 .. Len(q.store) - q.head :
              Contents(q)[i] = q.store[q.head + i]
<1> DEFINE s == q.store
           h == q.head
<1>1. s \in Seq(El) /\ h \in Nat /\ h <= Len(s)
  BY DEF Sound, EmptyQueue
<1>2. Len(s) \in Nat /\ \A i \in 1 .. Len(s) : s[i] \in El
  BY <1>1
<1>3. \A i \in h + 1 .. Len(s) : s[i] \in El
  BY <1>1, <1>2
<1> HIDE DEF s, h
<1>4. /\ SubSeq(s, h + 1, Len(s)) \in Seq(El)
      /\ Len(SubSeq(s, h + 1, Len(s)))
           = IF h + 1 <= Len(s) THEN Len(s) - (h + 1) + 1 ELSE 0
      /\ \A i \in 1 .. Len(s) - (h + 1) + 1 :
           SubSeq(s, h + 1, Len(s))[i] = s[(h + 1) + i - 1]
  BY <1>1, <1>2, <1>3, SubSeqProperties
<1>5. Contents(q) = SubSeq(s, h + 1, Len(s))
  BY DEF Contents, s, h
<1>6. /\ Contents(q) \in Seq(El)
      /\ Len(Contents(q)) = Len(s) - h
      /\ \A i \in 1 .. Len(s) - h : Contents(q)[i] = s[h + i]
  BY <1>1, <1>2, <1>4, <1>5
<1> QED
  BY <1>6 DEF s, h

(* push adds the element behind the others, whether or not the vector is   *)
(* renormalized first, and keeps the condition of the class comment.       *)
THEOREM PushAppends ==
  ASSUME NEW El, NEW q, Sound(q, El), NEW el \in El
  PROVE  /\ Sound(Push(q, el), El)
         /\ Contents(Push(q, el)) = Append(Contents(q), el)
<1> DEFINE r == IF Len(q.store) > NormLimit
                THEN CheckRenormalization(q) ELSE q
           p == Push(q, el)
<1>1. q.store \in Seq(El) /\ q.head \in Nat /\ q.head <= Len(q.store)
  BY DEF Sound, EmptyQueue
<1>2. /\ Contents(q) \in Seq(El)
      /\ Len(Contents(q)) = Len(q.store) - q.head
      /\ \A i \in 1 .. Len(q.store) - q.head :
           Contents(q)[i] = q.store[q.head + i]
  BY ContentsElements
<1>3. /\ r.store \in Seq(El) /\ r.head \in Nat /\ r.head <= Len(r.store)
      /\ Len(r.store) - r.head = Len(q.store) - q.head
      /\ \A i \in 1 .. Len(r.store) - r.head :
           r.store[r.head + i] = Contents(q)[i]
  <2>1. CASE r = q
    BY <1>1, <1>2, <2>1
  <2>2. CASE r = [store |-> Contents(q), head |-> 0]
    <3>1. r.store = Contents(q) /\ r.head = 0
      BY <2>2
    <3> QED
      BY <1>1, <1>2, <3>1
  <2>3. r = q \/ r = [store |-> Contents(q), head |-> 0]
    BY DEF CheckRenormalization, Contents
  <2> QED
    BY <2>1, <2>2, <2>3
<1>4. p.store = Append(r.store, el) /\ p.head = r.head
  BY DEF Push
<1> HIDE DEF r, p
<1>5. /\ p.store \in Seq(El)
      /\ Len(p.store) = Len(r.store) + 1
      /\ \A i \in 1 .. Len(r.store) : p.store[i] = r.store[i]
      /\ p.store[Len(r.store) + 1] = el
  BY <1>3, <1>4, AppendProperties
<1>6. Sound(p, El)
  BY <1>3, <1>4, <1>5 DEF Sound
<1>7. /\ Contents(p) \in Seq(El)
      /\ Len(Contents(p)) = Len(p.store) - p.head
      /\ \A i \in 1 .. Len(p.store) - p.head :
           Contents(p)[i] = p.store[p.head + i]
  BY <1>6, ContentsElements
<1>8. /\ Append(Contents(q), el) \in Seq(El)
      /\ Len(Append(Contents(q), el)) = Len(Contents(q)) + 1
      /\ \A i \in 1 .. Len(Contents(q)) :
           Append(Contents(q), el)[i] = Contents(q)[i]
      /\ Append(Contents(q), el)[Len(Contents(q)) + 1] = el
  BY <1>2, AppendProperties
<1>9. Len(Contents(p)) = Len(Append(Contents(q), el))
  BY <1>1, <1>2, <1>3, <1>4, <1>5, <1>7, <1>8
<1>10. ASSUME NEW i \in 1 .. Len(Contents(p))
       PROVE  Contents(p)[i] = Append(Contents(q), el)[i]
  <2>0. Len(q.store) \in Nat /\ Len(r.store) \in Nat
    BY <1>1, <1>3
  <2>1. Contents(p)[i] = p.store[p.head + i]
    BY <1>7
  <2>2. CASE i = Len(Contents(q)) + 1
    <3>1. p.head + i = Len(r.store) + 1
      BY <2>0, <2>2, <1>1, <1>2, <1>3, <1>4
    <3> QED
      BY <3>1, <2>1, <2>2, <1>5, <1>8
  <2>3. CASE i <= Len(Contents(q))
    <3>1. i \in 1 .. Len(r.store) - r.head /\ r.head + i \in 1 .. Len(r.store)
      BY <2>0, <2>3, <1>1, <1>2, <1>3
    <3>2. p.store[p.head + i] = r.store[r.head + i]
      BY <3>1, <1>4, <1>5
    <3>3. r.store[r.head + i] = Contents(q)[i]
      BY <3>1, <1>3
    <3>4. i \in 1 .. Len(Contents(q))
      BY <2>0, <2>3, <1>2
    <3> QED
      BY <3>2, <3>3, <3>4, <2>1, <1>8
  <2>4. i <= Len(Contents(q)) \/ i = Len(Contents(q)) + 1
    BY <2>0, <1>1, <1>2, <1>9, <1>8
  <2> QED
    BY <2>2, <2>3, <2>4
<1>11. Contents(p) = Append(Contents(q), el)
  BY <1>7, <1>8, <1>9, <1>10, SeqEqual
<1> QED
  BY <1>6, <1>11 DEF p

(* pop takes away the first element and no other, also when it empties the *)
(* queue and the vector is cleared.                                        *)
THEOREM PopDropsFirst ==
  ASSUME NEW El, NEW q, Sound(q, El), Len(Contents(q)) > 0
  PROVE  /\ Sound(Pop(q), El)
         /\ Len(Contents(Pop(q))) = Len(Contents(q)) - 1
         /\ \A i \in 1 .. Len(Contents(q)) - 1 :
              Contents(Pop(q))[i] = Contents(q)[i + 1]
<1> DEFINE m == [store |-> q.store, head |-> q.head + 1]
           p == Pop(q)
<1>1. /\ Len(Contents(q)) = Len(q.store) - q.head
      /\ \A i \in 1 .. Len(q.store) - q.head :
           Contents(q)[i] = q.store[q.head + i]
  BY ContentsElements
<1>2. q.store \in Seq(El) /\ q.head \in Nat /\ Len(q.store) \in Nat
      /\ q.head < Len(q.store)
  BY <1>1 DEF Sound, EmptyQueue
<1>3. CASE q.head + 1 = Len(q.store)
  <2>1. p = EmptyQueue
    BY <1>3 DEF Pop, CheckEmpty
  <2>2. p.store = <<>> /\ p.head = 0
    BY <2>1 DEF EmptyQueue
  <2>3. Sound(p, El)
    BY <2>1, <2>2 DEF Sound
  <2>4. Len(Contents(p)) = 0
    BY <2>2, <2>3, ContentsElements
  <2> QED
    BY <2>3, <2>4, <1>1, <1>2, <1>3
<1>4. CASE q.head + 1 # Len(q.store)
  <2>1. p = m
    BY <1>4 DEF Pop, CheckEmpty
  <2>2. p.store = q.store /\ p.head = q.head + 1
    BY <2>1
  <2>3. Sound(p, El)
    BY <2>2, <1>2, <1>4 DEF Sound
  <2> HIDE DEF p, m
  <2>4. /\ Len(Contents(p)) = Len(p.store) - p.head
        /\ \A i \in 1 .. Len(p.store) - p.head :
             Contents(p)[i] = p.store[p.head + i]
    BY <2>3, ContentsElements
  <2>5. Len(Contents(p)) = Len(Contents(q)) - 1
    BY <2>2, <2>4, <1>1, <1>2
  <2>6. ASSUME NEW i \in 1 .. Len(Contents(q)) - 1
        PROVE  Contents(p)[i] = Contents(q)[i + 1]
    <3>1. Contents(p)[i] = p.store[p.head + i]
      BY <2>2, <2>4, <1>1, <1>2
    <3>2. Contents(q)[i + 1] = q.store[q.head + (i + 1)]
      BY <1>1, <1>2
    <3>3. i \in Nat
      BY <1>1, <1>2
    <3>4. p.head + i = q.head + (i + 1)
      BY <3>3, <2>2, <1>2
    <3> QED
      BY <3>1, <3>2, <3>4, <2>2
  <2> QED
    BY <2>3, <2>5, <2>6 DEF p
<1> QED
  BY <1>3, <1>4
(* pop_back takes away the last element and no other.  The program does    *)
(* not use it.                                                             *)
THEOREM PopBackDropsLast ==
  ASSUME NEW El, NEW q, Sound(q, El), SizeOf(q) > 0
  PROVE  /\ Sound(PopBack(q), El)
         /\ SizeOf(PopBack(q)) = SizeOf(q) - 1
         /\ \A i \in 1 .. SizeOf(q) - 1 :
              Contents(PopBack(q))[i] = Contents(q)[i]
<1> DEFINE s == q.store
           t == SubSeq(s, 1, Len(s) - 1)
           m == [store |-> t, head |-> q.head]
           p == PopBack(q)
<1>1. s \in Seq(El) /\ q.head \in Nat /\ Len(s) \in Nat /\ q.head < Len(s)
  BY DEF Sound, EmptyQueue, SizeOf
<1>2. \A i \in 1 .. Len(s) - q.head : Contents(q)[i] = s[q.head + i]
  BY ContentsElements
<1> HIDE DEF s
<1>3. \A i \in 1 .. Len(s) - 1 : s[i] \in El
  BY <1>1
<1>4. /\ t \in Seq(El)
      /\ Len(t) = IF 1 <= Len(s) - 1 THEN (Len(s) - 1) - 1 + 1 ELSE 0
      /\ \A i \in 1 .. (Len(s) - 1) - 1 + 1 : t[i] = s[1 + i - 1]
  BY <1>1, <1>3, SubSeqProperties
<1> HIDE DEF t
<1>5. /\ t \in Seq(El)
      /\ Len(t) = Len(s) - 1
      /\ \A i \in 1 .. Len(s) - 1 : t[i] = s[i]
  <2>1. Len(t) = Len(s) - 1
    <3>1. Len(t) = IF 1 <= Len(s) - 1 THEN (Len(s) - 1) - 1 + 1 ELSE 0
      BY <1>4
    <3>2. Len(s) \in Nat /\ Len(s) >= 1
      BY <1>1
    <3> QED
      BY <3>1, <3>2
  <2>2. ASSUME NEW i \in 1 .. Len(s) - 1 PROVE t[i] = s[i]
    <3>1. i \in 1 .. (Len(s) - 1) - 1 + 1 /\ 1 + i - 1 = i
      BY <1>1
    <3>2. t[i] = s[1 + i - 1]
      BY <3>1, <1>4
    <3> QED
      BY <3>1, <3>2
  <2> QED
    BY <2>1, <2>2, <1>4
<1>6. p = IF q.head = Len(t) THEN EmptyQueue ELSE m
  BY DEF PopBack, CheckEmpty, s, t
<1>7. SizeOf(q) = Len(s) - q.head
  BY DEF SizeOf, s
<1>8. CASE q.head = Len(t)
  <2>1. p.store = <<>> /\ p.head = 0 /\ p = EmptyQueue
    BY <1>6, <1>8 DEF EmptyQueue
  <2>2. Sound(p, El) /\ SizeOf(p) = 0
    BY <2>1 DEF Sound, SizeOf
  <2> QED
    BY <2>2, <1>1, <1>5, <1>7, <1>8
<1>9. CASE q.head # Len(t)
  <2>1. p.store = t /\ p.head = q.head
    BY <1>6, <1>9
  <2> HIDE DEF p, m
  <2>2. Sound(p, El)
    BY <2>1, <1>1, <1>5, <1>9 DEF Sound
  <2>3. SizeOf(p) = SizeOf(q) - 1
    BY <2>1, <1>1, <1>5, <1>7 DEF SizeOf
  <2>4. \A i \in 1 .. Len(t) - q.head : Contents(p)[i] = t[q.head + i]
    BY <2>1, <2>2, ContentsElements
  <2>5. ASSUME NEW i \in 1 .. SizeOf(q) - 1
        PROVE  Contents(p)[i] = Contents(q)[i]
    <3>1. /\ i \in 1 .. Len(t) - q.head
          /\ i \in 1 .. Len(s) - q.head
          /\ q.head + i \in 1 .. Len(s) - 1
      BY <1>1, <1>5, <1>7
    <3> QED
      BY <3>1, <2>4, <1>2, <1>5
  <2> QED
    BY <2>2, <2>3, <2>5 DEF p
<1> QED
  BY <1>8, <1>9
-----------------------------------------------------------------------------
(* The order of events.                                                    *)

(* What makes DeliveredInOrder inductive: the two positions of the queue   *)
(* are sound, and no more events are handled than were posted.             *)
QueueInv ==
  /\ posted \in Nat /\ handled \in Nat /\ handled <= posted
  /\ Sound(m_eventQueue, Nat)
  /\ DeliveredInOrder

LEMMA PushKeepsOrder ==
  ASSUME QueueInv,
         m_eventQueue' = Push(m_eventQueue, posted + 1),
         posted' = posted + 1, handled' = handled
  PROVE  QueueInv'
<1> DEFINE n == posted - handled
           c == Contents(m_eventQueue)
<1>1. /\ posted \in Nat /\ handled \in Nat /\ handled <= posted
      /\ Sound(m_eventQueue, Nat)
      /\ c = [i \in 1 .. n |-> handled + i]
  BY DEF QueueInv, DeliveredInOrder
<1>2. /\ Sound(m_eventQueue', Nat)
      /\ Contents(m_eventQueue') = Append(c, posted + 1)
  <2>1. posted + 1 \in Nat
    BY <1>1
  <2>2. /\ Sound(Push(m_eventQueue, posted + 1), Nat)
        /\ Contents(Push(m_eventQueue, posted + 1)) = Append(c, posted + 1)
    BY <2>1, <1>1, PushAppends
  <2> QED
    BY <2>2
<1>3. c \in Seq(Nat)
  BY <1>1, ContentsElements
<1>4. n \in Nat
  BY <1>1
<1> HIDE DEF c
<1>5. Len(c) = n /\ \A i \in 1 .. n : c[i] = handled + i
  <2>1. DOMAIN c = 1 .. Len(c) /\ Len(c) \in Nat
    BY <1>3
  <2>2. DOMAIN c = 1 .. n
    BY <1>1
  <2> QED
    BY <2>1, <2>2, <1>1, <1>4
<1>6. /\ Append(c, posted + 1) \in Seq(Nat)
      /\ Len(Append(c, posted + 1)) = n + 1
      /\ \A i \in 1 .. n : Append(c, posted + 1)[i] = handled + i
      /\ Append(c, posted + 1)[n + 1] = posted + 1
  BY <1>1, <1>3, <1>5, AppendProperties
<1> DEFINE d == Append(c, posted + 1)
           f == [i \in 1 .. n + 1 |-> handled + i]
<1>7. \A i \in 1 .. n + 1 : d[i] = handled + i
  <2> SUFFICES ASSUME NEW i \in 1 .. n + 1 PROVE d[i] = handled + i
    OBVIOUS
  <2>1. CASE i = n + 1
    BY <2>1, <1>1, <1>6
  <2>2. CASE i # n + 1
    BY <2>2, <1>1, <1>4, <1>6
  <2> QED
    BY <2>1, <2>2
<1>8. d = f
  <2>1. d \in [1 .. n + 1 -> Nat]
    BY <1>6, <1>4, LenProperties
  <2> HIDE DEF d
  <2>2. d = [i \in 1 .. n + 1 |-> d[i]]
    BY <2>1
  <2> QED
    BY <2>2, <1>7
<1>9. posted' - handled' = n + 1
  BY <1>1
<1> HIDE DEF n
<1>10. Contents(m_eventQueue') = [i \in 1 .. posted' - handled' |-> handled' + i]
  BY <1>2, <1>8, <1>9
<1>11. posted' \in Nat /\ handled' \in Nat /\ handled' <= posted'
  BY <1>1
<1> QED
  BY <1>2, <1>10, <1>11 DEF QueueInv, DeliveredInOrder

LEMMA PopKeepsOrder ==
  ASSUME QueueInv, handled < posted,
         m_eventQueue' = Pop(m_eventQueue),
         posted' = posted, handled' = handled + 1
  PROVE  QueueInv'
<1> DEFINE n == posted - handled
           c == Contents(m_eventQueue)
           d == Contents(m_eventQueue')
           f == [i \in 1 .. n - 1 |-> (handled + 1) + i]
<1>1. /\ posted \in Nat /\ handled \in Nat
      /\ Sound(m_eventQueue, Nat)
      /\ c = [i \in 1 .. n |-> handled + i]
      /\ n \in Nat /\ n > 0
  BY DEF QueueInv, DeliveredInOrder
<1>2. c \in Seq(Nat)
  BY <1>1, ContentsElements
<1> HIDE DEF c
<1>3. Len(c) = n /\ \A i \in 1 .. n : c[i] = handled + i
  <2>1. DOMAIN c = 1 .. Len(c) /\ Len(c) \in Nat
    BY <1>2
  <2>2. DOMAIN c = 1 .. n
    BY <1>1
  <2> QED
    BY <2>1, <2>2, <1>1
<1>4. /\ Sound(m_eventQueue', Nat)
      /\ Len(d) = n - 1
      /\ \A i \in 1 .. n - 1 : d[i] = c[i + 1]
  BY <1>1, <1>3, PopDropsFirst DEF c
<1>5. d \in Seq(Nat)
  BY <1>4, ContentsElements
<1>6. \A i \in 1 .. n - 1 : d[i] = (handled + 1) + i
  BY <1>1, <1>3, <1>4
<1> HIDE DEF d
<1>7. d = f
  <2>1. d \in [1 .. n - 1 -> Nat]
    BY <1>4, <1>5, LenProperties
  <2>2. d = [i \in 1 .. n - 1 |-> d[i]]
    BY <2>1
  <2> QED
    BY <2>2, <1>6
<1>8. posted' - handled' = n - 1 /\ handled' = handled + 1
  BY <1>1
<1> QED
  BY <1>1, <1>4, <1>7, <1>8 DEF QueueInv, DeliveredInOrder, d

LEMMA OrderInit == Init => QueueInv
<1> SUFFICES ASSUME Init PROVE QueueInv
  OBVIOUS
<1>1. posted = 0 /\ handled = 0 /\ m_eventQueue = EmptyQueue
  BY DEF Init
<1>2. m_eventQueue.store = <<>> /\ m_eventQueue.head = 0
  BY <1>1 DEF EmptyQueue
<1>3. Sound(m_eventQueue, Nat)
  BY <1>1, <1>2 DEF Sound
<1>4. Contents(m_eventQueue) \in Seq(Nat) /\ Len(Contents(m_eventQueue)) = 0
  BY <1>2, <1>3, ContentsElements
<1>5. Contents(m_eventQueue) = [i \in 1 .. 0 |-> 0 + i]
  BY <1>4
<1> QED
  BY <1>1, <1>3, <1>5 DEF QueueInv, DeliveredInOrder

LEMMA OrderStep == QueueInv /\ [Next]_vars => QueueInv'
<1> SUFFICES ASSUME QueueInv, [Next]_vars PROVE QueueInv'
  OBVIOUS
<1>1. CASE UNCHANGED <<m_eventQueue, posted, handled>>
  BY <1>1 DEF QueueInv, DeliveredInOrder, Sound, Contents, EmptyQueue
<1>2. CASE PostEvent
  BY <1>2, PushKeepsOrder DEF PostEvent
<1>3. CASE UserCode /\ UNCHANGED handled
  BY <1>1, <1>3, PushKeepsOrder DEF UserCode, PostNothing, PostInside
<1>4. CASE PopEvent
  BY <1>4, PopKeepsOrder DEF PopEvent
<1>5. ASSUME NEW s \in State, NEW parent \in State, AddState(s, parent)
      PROVE  QueueInv'
  BY <1>1, <1>5 DEF AddState
<1>6. ASSUME NEW s \in State, SetStartState(s)
      PROVE  QueueInv'
  BY <1>1, <1>6 DEF SetStartState
<1>7. CASE ProcessEvent \/ DoExit \/ DoEntry
  BY <1>3, <1>7 DEF ProcessEvent, DoExit, DoEntry
<1>8. CASE PrepareTransition \/ Started \/ ExitDone \/ EntryDone
  BY <1>1, <1>8 DEF PrepareTransition, Started, ExitDone, EntryDone
<1>9. CASE Cleanup \/ Destroyed
  BY <1>1, <1>9 DEF Cleanup, Destroyed
<1>10. CASE UNCHANGED vars
  BY <1>1, <1>10 DEF vars
<1> QED
  BY <1>2, <1>4, <1>5, <1>6, <1>7, <1>8, <1>9, <1>10 DEF Next, Library

(* The events of a chart are handled once each and in the order in which   *)
(* they were posted, for every number of events and every limit of the     *)
(* renormalization (postEvent, VecQueue::push and pop).                    *)
THEOREM EventsKeepTheirOrder == Spec => []DeliveredInOrder
<1>1. QueueInv => DeliveredInOrder
  BY DEF QueueInv
<1> QED
  BY <1>1, OrderInit, OrderStep, PTL DEF Spec
=============================================================================
