---------------------------- MODULE MasterQueueProofs ------------------------
(***************************************************************************)
(* The queues of the master: what insertion, workToDo() and taking the    *)
(* first ready action do to them.                                          *)
(***************************************************************************)
EXTENDS Master, TLAPS

(* Membership of an action in the two queues, and the condition under      *)
(* which no action is in them twice.                                       *)
InReady(r, x) == \E i \in 1 .. Len(r) : r[i] = x
InWaiting(w, x) == \E i \in 1 .. Len(w) : w[i].action = x

Distinct(r, w) ==
  /\ \A i, j \in 1 .. Len(r) : r[i] = r[j] => i = j
  /\ \A i, j \in 1 .. Len(w) : w[i].action = w[j].action => i = j
  /\ \A i \in 1 .. Len(r) : \A j \in 1 .. Len(w) : r[i] # w[j].action
  /\ ~InReady(r, DoNothing)
  /\ ~InWaiting(w, DoNothing)

Sorted(w) ==
  \A i, j \in 1 .. Len(w) : i <= j => w[i].left <= w[j].left

-----------------------------------------------------------------------------
(* The queue operations. *)

LEMMA WaitingElement ==
  ASSUME NEW w \in Seq(WaitingAction), NEW i \in 1 .. Len(w)
  PROVE  w[i] \in WaitingAction /\ w[i].action \in Action /\ w[i].left \in Nat
<1>1. w[i] \in WaitingAction
  OBVIOUS
<1> QED
  BY <1>1 DEF WaitingAction

LEMMA EmptySequence ==
  ASSUME NEW S, NEW q \in Seq(S), Len(q) = 0
  PROVE  q = <<>>
OBVIOUS

LEMMA FunctionIsSequence ==
  ASSUME NEW S, NEW m \in Nat, NEW f \in [1 .. m -> S]
  PROVE  f \in Seq(S) /\ Len(f) = m
OBVIOUS

LEMMA AddActionType ==
  ASSUME NEW w \in Seq(WaitingAction), NEW k \in 0 .. Len(w),
         NEW x \in Action, NEW left \in Nat
  PROVE  /\ AddAction(w, k, x, left) \in Seq(WaitingAction)
         /\ Len(AddAction(w, k, x, left)) = Len(w) + 1
         /\ DOMAIN AddAction(w, k, x, left) = 1 .. (Len(w) + 1)
<1> DEFINE v == AddAction(w, k, x, left)
<1>1. ASSUME NEW i \in 1 .. (Len(w) + 1) PROVE v[i] \in WaitingAction
  <2>1. CASE i <= k
    BY <2>1, WaitingElement DEF AddAction
  <2>2. CASE i = k + 1
    <3>1. v[i] = [action |-> x, left |-> left]
      BY <2>2 DEF AddAction
    <3> QED
      BY <3>1 DEF WaitingAction
  <2>3. CASE i > k + 1
    <3>1. v[i] = w[i - 1] /\ i - 1 \in 1 .. Len(w)
      BY <2>3 DEF AddAction
    <3> QED
      BY <3>1, WaitingElement
  <2> QED
    BY <2>1, <2>2, <2>3
<1>2. v \in [1 .. (Len(w) + 1) -> WaitingAction]
  BY <1>1 DEF AddAction
<1>3. v \in Seq(WaitingAction) /\ Len(v) = Len(w) + 1
  BY <1>2
<1> QED
  BY <1>2, <1>3

(* Inserting an action that is in neither queue keeps the queues distinct. *)
LEMMA AddActionDistinct ==
  ASSUME NEW r \in Seq(Action), NEW w \in Seq(WaitingAction), Distinct(r, w),
         NEW k \in 0 .. Len(w), NEW x \in Action, NEW left \in Nat,
         x # DoNothing, ~InReady(r, x), ~InWaiting(w, x)
  PROVE  /\ Distinct(r, AddAction(w, k, x, left))
         /\ \A y : InWaiting(AddAction(w, k, x, left), y)
                     <=> InWaiting(w, y) \/ y = x
<1> DEFINE v == AddAction(w, k, x, left)
           old(i) == IF i <= k THEN i ELSE i - 1
<1>1. Len(v) = Len(w) + 1
  BY AddActionType
<1>2. \A i \in 1 .. Len(v) : i # k + 1 =>
        old(i) \in 1 .. Len(w) /\ v[i].action = w[old(i)].action
  BY <1>1 DEF AddAction
<1>3. v[k + 1].action = x /\ k + 1 \in 1 .. Len(v)
  BY <1>1 DEF AddAction
<1>4. \A y : InWaiting(v, y) <=> InWaiting(w, y) \/ y = x
  <2>1. ASSUME NEW y, InWaiting(v, y) PROVE InWaiting(w, y) \/ y = x
    BY <2>1, <1>2, <1>3 DEF InWaiting
  <2>2. ASSUME NEW i \in 1 .. Len(w) PROVE InWaiting(v, w[i].action)
    <3>1. CASE i <= k
      BY <3>1, <1>1, <1>2 DEF InWaiting
    <3>2. CASE i > k
      <4>1. i + 1 \in 1 .. Len(v) /\ i + 1 # k + 1 /\ old(i + 1) = i
        BY <3>2, <1>1
      <4> QED
        BY <4>1, <1>2 DEF InWaiting
    <3> QED
      BY <3>1, <3>2
  <2>3. InWaiting(v, x)
    BY <1>3 DEF InWaiting
  <2> QED
    BY <2>1, <2>2, <2>3 DEF InWaiting
<1>5. \A i, j \in 1 .. Len(v) : v[i].action = v[j].action => i = j
  <2> SUFFICES ASSUME NEW i \in 1 .. Len(v), NEW j \in 1 .. Len(v),
                      v[i].action = v[j].action
               PROVE  i = j
    OBVIOUS
  <2>1. CASE i = k + 1 \/ j = k + 1
    BY <2>1, <1>2, <1>3 DEF InWaiting
  <2>2. CASE i # k + 1 /\ j # k + 1
    <3>1. old(i) = old(j)
      BY <2>2, <1>2 DEF Distinct
    <3> QED
      BY <3>1, <2>2
  <2> QED
    BY <2>1, <2>2
<1>6. \A i \in 1 .. Len(r) : \A j \in 1 .. Len(v) : r[i] # v[j].action
  BY <1>2, <1>3 DEF Distinct, InReady
<1> QED
  BY <1>4, <1>5, <1>6 DEF Distinct

(* Inserting at one of the positions the order allows keeps it sorted. *)
LEMMA AddActionSorted ==
  ASSUME NEW w \in Seq(WaitingAction), Sorted(w), NEW x \in Action,
         NEW left \in Nat, NEW k \in Positions(w, left)
  PROVE  Sorted(AddAction(w, k, x, left))
<1>1. k \in 0 .. Len(w) /\ Len(AddAction(w, k, x, left)) = Len(w) + 1
  BY AddActionType DEF Positions
<1> DEFINE v == AddAction(w, k, x, left)
<1>2. \A i \in 1 .. Len(w) : w[i].left \in Nat
  BY WaitingElement
<1>3. \A i \in 1 .. Len(v) :
        \/ i <= k /\ i \in 1 .. Len(w) /\ v[i].left = w[i].left
        \/ i = k + 1 /\ v[i].left = left
        \/ i > k + 1 /\ i - 1 \in 1 .. Len(w) /\ v[i].left = w[i - 1].left
  BY <1>1 DEF AddAction
<1>4. /\ \A i \in 1 .. k : w[i].left <= left
      /\ \A i \in (k + 1) .. Len(w) : left <= w[i].left
  BY DEF Positions
<1> SUFFICES ASSUME NEW i \in 1 .. Len(v), NEW j \in 1 .. Len(v), i <= j
             PROVE  v[i].left <= v[j].left
  BY DEF Sorted
<1>5. CASE i <= k
  BY <1>5, <1>1, <1>2, <1>3, <1>4 DEF Sorted
<1>6. CASE i = k + 1
  BY <1>6, <1>1, <1>2, <1>3, <1>4 DEF Sorted
<1>7. CASE i > k + 1
  <2>1. /\ i - 1 \in 1 .. Len(w) /\ v[i].left = w[i - 1].left
        /\ j - 1 \in 1 .. Len(w) /\ v[j].left = w[j - 1].left
        /\ i - 1 <= j - 1
    BY <1>7, <1>1, <1>3
  <2> QED
    BY <2>1 DEF Sorted
<1> QED
  BY <1>5, <1>6, <1>7, <1>1

LEMMA MoveType ==
  ASSUME NEW r \in Seq(Action), NEW w \in Seq(WaitingAction),
         NEW n \in 0 .. Len(w)
  PROVE  /\ ReadyAfter(r, w, n) \in Seq(Action)
         /\ Len(ReadyAfter(r, w, n)) = Len(r) + n
         /\ WaitingAfter(w, n) \in Seq(WaitingAction)
         /\ Len(WaitingAfter(w, n)) = Len(w) - n
<1>1. \A i \in 1 .. Len(w) : w[i].action \in Action /\ w[i] \in WaitingAction
  BY WaitingElement
<1>2. ReadyAfter(r, w, n) \in [1 .. (Len(r) + n) -> Action]
  BY <1>1 DEF ReadyAfter
<1>3. WaitingAfter(w, n) \in [1 .. (Len(w) - n) -> WaitingAction]
  BY <1>1 DEF WaitingAfter
<1>4. Len(r) + n \in Nat /\ Len(w) - n \in Nat
  OBVIOUS
<1>5. ReadyAfter(r, w, n) \in Seq(Action)
      /\ Len(ReadyAfter(r, w, n)) = Len(r) + n
  BY <1>2, <1>4, FunctionIsSequence
<1>6. WaitingAfter(w, n) \in Seq(WaitingAction)
      /\ Len(WaitingAfter(w, n)) = Len(w) - n
  BY <1>3, <1>4, FunctionIsSequence
<1> QED
  BY <1>5, <1>6

(* workToDo() neither loses nor doubles an action. *)
LEMMA MoveDistinct ==
  ASSUME NEW r \in Seq(Action), NEW w \in Seq(WaitingAction),
         NEW n \in 0 .. Len(w), Distinct(r, w)
  PROVE  /\ Distinct(ReadyAfter(r, w, n), WaitingAfter(w, n))
         /\ \A y : InReady(ReadyAfter(r, w, n), y)
                     \/ InWaiting(WaitingAfter(w, n), y)
                   <=> InReady(r, y) \/ InWaiting(w, y)
<1> DEFINE r2 == ReadyAfter(r, w, n)
           w2 == WaitingAfter(w, n)
<1>1. Len(r2) = Len(r) + n /\ Len(w2) = Len(w) - n
  BY MoveType
<1>2. \A i \in 1 .. Len(r2) :
        \/ i \in 1 .. Len(r) /\ r2[i] = r[i]
        \/ /\ i > Len(r)
           /\ i - Len(r) \in 1 .. n
           /\ i - Len(r) \in 1 .. Len(w)
           /\ r2[i] = w[i - Len(r)].action
  BY <1>1 DEF ReadyAfter
<1>3. \A i \in 1 .. Len(w2) : i + n \in (n + 1) .. Len(w) /\ i + n \in 1 .. Len(w) /\ w2[i] = w[i + n]
  BY <1>1 DEF WaitingAfter
<1>4. \A i, j \in 1 .. Len(r2) : r2[i] = r2[j] => i = j
  <2> SUFFICES ASSUME NEW i \in 1 .. Len(r2), NEW j \in 1 .. Len(r2),
                      r2[i] = r2[j]
               PROVE  i = j
    OBVIOUS
  <2>1. CASE i \in 1 .. Len(r) /\ j \in 1 .. Len(r)
    BY <2>1, <1>2 DEF Distinct
  <2>2. CASE i > Len(r) /\ j > Len(r)
    <3> DEFINE a == i - Len(r)
               b == j - Len(r)
    <3> HIDE DEF r2
    <3>1. /\ a \in 1 .. Len(w) /\ b \in 1 .. Len(w)
          /\ r2[i] = w[a].action /\ r2[j] = w[b].action
      <4>1. i \notin 1 .. Len(r) /\ j \notin 1 .. Len(r)
        BY <2>2
      <4>2. a \in 1 .. Len(w) /\ r2[i] = w[a].action
        BY <4>1, <1>2
      <4>3. b \in 1 .. Len(w) /\ r2[j] = w[b].action
        BY <4>1, <1>2
      <4> QED
        BY <4>2, <4>3
    <3> HIDE DEF a, b
    <3>2. w[a].action = w[b].action
      BY <3>1
    <3>3. a = b
      BY <3>1, <3>2 DEF Distinct
    <3> QED
      BY <3>3 DEF a, b
  <2>3. CASE ~(i > Len(r) <=> j > Len(r))
    <3>1. ASSUME NEW k \in 1 .. Len(r2), NEW l \in 1 .. Len(r2),
                 k \in 1 .. Len(r), l > Len(r), r2[k] = r2[l]
          PROVE  FALSE
      <4> DEFINE b == l - Len(r)
      <4>1. b \in 1 .. Len(w) /\ r2[k] = r[k] /\ r2[l] = w[b].action
        BY <3>1, <1>2
      <4> HIDE DEF b, r2
      <4> QED
        BY <3>1, <4>1 DEF Distinct
    <3> QED
      BY <2>3, <3>1, <1>2
  <2> QED
    BY <2>1, <2>2, <2>3, <1>1
<1>5. \A i, j \in 1 .. Len(w2) : w2[i].action = w2[j].action => i = j
  <2> SUFFICES ASSUME NEW i \in 1 .. Len(w2), NEW j \in 1 .. Len(w2),
                      w2[i].action = w2[j].action
               PROVE  i = j
    OBVIOUS
  <2> DEFINE a == i + n
             b == j + n
  <2>1. a \in 1 .. Len(w) /\ b \in 1 .. Len(w) /\ w2[i] = w[a] /\ w2[j] = w[b]
    BY <1>3
  <2> HIDE DEF a, b, w2
  <2>2. w[a].action = w[b].action
    BY <2>1
  <2>3. a = b
    BY <2>1, <2>2 DEF Distinct
  <2> QED
    BY <2>3 DEF a, b
<1>6. \A i \in 1 .. Len(r2) : \A j \in 1 .. Len(w2) : r2[i] # w2[j].action
  <2> SUFFICES ASSUME NEW i \in 1 .. Len(r2), NEW j \in 1 .. Len(w2),
                      r2[i] = w2[j].action
               PROVE  FALSE
    OBVIOUS
  <2>1. CASE i \in 1 .. Len(r)
    BY <2>1, <1>2, <1>3 DEF Distinct
  <2>2. CASE i > Len(r)
    <3> DEFINE a == i - Len(r)
               b == j + n
    <3>2. a \in 1 .. Len(w) /\ a <= n /\ r2[i] = w[a].action
      BY <2>2, <1>2
    <3>3. b \in 1 .. Len(w) /\ b > n /\ w2[j] = w[b]
      BY <1>3
    <3> HIDE DEF a, b
    <3>1. a = b
      BY <3>2, <3>3 DEF Distinct
    <3> QED
      BY <3>1, <3>2, <3>3
  <2> QED
    BY <2>1, <2>2, <1>2
<1>7. \A y : InReady(r2, y) \/ InWaiting(w2, y) => InReady(r, y) \/ InWaiting(w, y)
  BY <1>2, <1>3 DEF InReady, InWaiting
<1>8. ASSUME NEW i \in 1 .. Len(r) PROVE InReady(r2, r[i])
  <2>1. i \in 1 .. Len(r2) /\ r2[i] = r[i]
    BY <1>1, <1>2
  <2> QED
    BY <2>1 DEF InReady
<1>9. ASSUME NEW i \in 1 .. Len(w)
      PROVE InReady(r2, w[i].action) \/ InWaiting(w2, w[i].action)
  <2>1. CASE i <= n
    <3>1. i + Len(r) \in 1 .. Len(r2) /\ (i + Len(r)) - Len(r) = i
          /\ i + Len(r) > Len(r)
      BY <2>1, <1>1
    <3>2. r2[i + Len(r)] = w[i].action
      BY <3>1, <1>1 DEF ReadyAfter
    <3> QED
      BY <3>1, <3>2 DEF InReady
  <2>2. CASE i > n
    <3>1. i - n \in 1 .. Len(w2) /\ (i - n) + n = i
      BY <2>2, <1>1
    <3>2. w2[i - n] = w[i]
      BY <3>1, <1>3
    <3> QED
      BY <3>1, <3>2 DEF InWaiting
  <2> QED
    BY <2>1, <2>2
<1>10. \A y : InReady(r, y) \/ InWaiting(w, y) => InReady(r2, y) \/ InWaiting(w2, y)
  BY <1>8, <1>9 DEF InReady, InWaiting
<1> QED
  BY <1>4, <1>5, <1>6, <1>7, <1>10 DEF Distinct

LEMMA MoveSorted ==
  ASSUME NEW w \in Seq(WaitingAction), NEW n \in 0 .. Len(w), Sorted(w)
  PROVE  Sorted(WaitingAfter(w, n))
<1>0. <<>> \in Seq(Action)
  OBVIOUS
<1>1. WaitingAfter(w, n) = [i \in 1 .. (Len(w) - n) |-> w[i + n]]
  BY DEF WaitingAfter
<1>2. Len(WaitingAfter(w, n)) = Len(w) - n
  BY <1>0, MoveType
<1> SUFFICES ASSUME NEW i \in 1 .. (Len(w) - n), NEW j \in 1 .. (Len(w) - n),
                    i <= j
             PROVE  w[i + n].left <= w[j + n].left
  BY <1>1, <1>2 DEF Sorted
<1>3. i + n \in 1 .. Len(w) /\ j + n \in 1 .. Len(w) /\ i + n <= j + n
  OBVIOUS
<1> QED
  BY <1>3 DEF Sorted

(* Taking the first ready action out of its queue. *)
LEMMA TakeReady ==
  ASSUME NEW r \in Seq(Action), NEW w \in Seq(WaitingAction), Distinct(r, w),
         r # <<>>
  PROVE  /\ Head(r) \in Action
         /\ Tail(r) \in Seq(Action)
         /\ Distinct(Tail(r), w)
         /\ Head(r) # DoNothing
         /\ ~InReady(Tail(r), Head(r))
         /\ ~InWaiting(w, Head(r))
         /\ \A y : InReady(r, y) <=> InReady(Tail(r), y) \/ y = Head(r)
<1>1. Len(r) \in Nat /\ Len(r) > 0 /\ Len(Tail(r)) = Len(r) - 1
      /\ Head(r) = r[1] /\ Tail(r) \in Seq(Action) /\ Head(r) \in Action
  OBVIOUS
<1>2. \A i \in 1 .. Len(Tail(r)) : i + 1 \in 1 .. Len(r) /\ Tail(r)[i] = r[i + 1]
  BY <1>1
<1>3. \A i \in 2 .. Len(r) : i - 1 \in 1 .. Len(Tail(r)) /\ Tail(r)[i - 1] = r[i]
  BY <1>1, <1>2
<1>4. \A y : InReady(r, y) <=> InReady(Tail(r), y) \/ y = Head(r)
  <2>1. ASSUME NEW i \in 1 .. Len(r) PROVE InReady(Tail(r), r[i]) \/ r[i] = Head(r)
    <3>1. CASE i = 1
      BY <3>1, <1>1
    <3>2. CASE i \in 2 .. Len(r)
      BY <3>2, <1>3 DEF InReady
    <3> QED
      BY <3>1, <3>2
  <2>2. InReady(r, Head(r))
    BY <1>1 DEF InReady
  <2>3. \A y : InReady(Tail(r), y) => InReady(r, y)
    BY <1>2 DEF InReady
  <2> QED
    BY <2>1, <2>2, <2>3 DEF InReady
<1>5. ~InReady(Tail(r), Head(r))
  <2> SUFFICES ASSUME NEW i \in 1 .. Len(Tail(r)), Tail(r)[i] = Head(r)
               PROVE  FALSE
    BY DEF InReady
  <2>1. 1 \in 1 .. Len(r) /\ i + 1 \in 1 .. Len(r) /\ r[i + 1] = r[1]
    BY <1>1, <1>2
  <2>2. i + 1 = 1
    BY <2>1 DEF Distinct
  <2> QED
    BY <2>2
<1>6. Head(r) # DoNothing /\ ~InWaiting(w, Head(r))
  BY <1>1 DEF Distinct, InReady, InWaiting
<1>7. Distinct(Tail(r), w)
  <2>1. \A i, j \in 1 .. Len(Tail(r)) : Tail(r)[i] = Tail(r)[j] => i = j
    <3> SUFFICES ASSUME NEW i \in 1 .. Len(Tail(r)), NEW j \in 1 .. Len(Tail(r)),
                        Tail(r)[i] = Tail(r)[j]
                 PROVE  i = j
      OBVIOUS
    <3>1. i + 1 = j + 1
      BY <1>2 DEF Distinct
    <3> QED
      BY <3>1
  <2> QED
    BY <2>1, <1>2, <1>4 DEF Distinct
<1> QED
  BY <1>1, <1>4, <1>5, <1>6, <1>7

LEMMA AddActionNowDistinct ==
  ASSUME NEW r \in Seq(Action), NEW w \in Seq(WaitingAction), Distinct(r, w),
         NEW x \in Action, x # DoNothing, ~InReady(r, x), ~InWaiting(w, x)
  PROVE  /\ AddActionNow(r, x) \in Seq(Action)
         /\ Distinct(AddActionNow(r, x), w)
         /\ \A y : InReady(AddActionNow(r, x), y) <=> InReady(r, y) \/ y = x
<1> DEFINE q == AddActionNow(r, x)
<1>1. q \in Seq(Action) /\ Len(q) = Len(r) + 1
  BY DEF AddActionNow
<1>2. /\ \A i \in 1 .. Len(r) : q[i] = r[i] /\ i \in 1 .. Len(q)
      /\ q[Len(r) + 1] = x
      /\ \A i \in 1 .. Len(q) : i \in 1 .. Len(r) \/ i = Len(r) + 1
      /\ Len(r) + 1 \in 1 .. Len(q)
  BY <1>1 DEF AddActionNow
<1>3. \A y : InReady(q, y) <=> InReady(r, y) \/ y = x
  <2>1. \A y : InReady(q, y) => InReady(r, y) \/ y = x
    BY <1>2 DEF InReady
  <2>2. \A y : InReady(r, y) => InReady(q, y)
    BY <1>2 DEF InReady
  <2>3. InReady(q, x)
    BY <1>2 DEF InReady
  <2> QED
    BY <2>1, <2>2, <2>3
<1>4. \A i, j \in 1 .. Len(q) : q[i] = q[j] => i = j
  BY <1>2 DEF Distinct, InReady
<1>5. \A i \in 1 .. Len(q) : \A j \in 1 .. Len(w) : q[i] # w[j].action
  BY <1>2 DEF Distinct, InWaiting
<1> QED
  BY <1>1, <1>3, <1>4, <1>5 DEF Distinct

(* Taking the top off a stack. *)
LEMMA DropLast ==
  ASSUME NEW S, NEW q \in Seq(S), Len(q) > 0
  PROVE  /\ SubSeq(q, 1, Len(q) - 1) \in Seq(S)
         /\ Len(SubSeq(q, 1, Len(q) - 1)) = Len(q) - 1
         /\ \A i \in 1 .. (Len(q) - 1) : SubSeq(q, 1, Len(q) - 1)[i] = q[i]
<1> DEFINE n == Len(q) - 1
<1>1. n \in Nat /\ \A i \in 1 .. n : q[i] \in S
  OBVIOUS
<1> HIDE DEF n
<1>2. SubSeq(q, 1, n) \in Seq(S)
  BY <1>1
<1>3. Len(SubSeq(q, 1, n)) = n
  BY <1>1
<1>4. \A i \in 1 .. n : SubSeq(q, 1, n)[i] = q[i]
  BY <1>1
<1> QED
  BY <1>2, <1>3, <1>4 DEF n
=============================================================================
