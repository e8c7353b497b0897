---------------------------- MODULE MasterProofs ----------------------------
(***************************************************************************)
(* Proofs about the bus master, for every choice of addresses, clients,    *)
(* delays and lost echoes.                                                 *)
(***************************************************************************)
EXTENDS MasterQueueProofs

(***************************************************************************)
(* The inductive invariant.  The properties of Master support each other;  *)
(* what has to be added is that the waiting queue is sorted, that no queue *)
(* holds the action under way or do_nothing, and that the timer of the     *)
(* chart runs exactly outside Idle.                                        *)
(***************************************************************************)
QueueInv ==
  /\ Distinct(m_ready, m_waiting)
  /\ Sorted(m_waiting)
  /\ ~InReady(m_ready, ahAction)
  /\ ~InWaiting(m_waiting, ahAction)

TimerFollowsState == (fsmTimer = Off) <=> (fsmState = "idle")

Inv ==
  /\ TypeOK
  /\ AbortsOnlyAtStart
  /\ QueueInv
  /\ TokenForEveryLine
  /\ QueryNeverLost
  /\ AddressesConserved
  /\ OneAddressPerClient
  /\ ChartFollowsAction
  /\ WakesUpInTime
  /\ TimerFollowsState

-----------------------------------------------------------------------------
(* The constants. *)

LEMMA ActionFacts ==
  /\ MasterStart \in Action /\ QueryAddress \in Action /\ DoNothing \in Action
  /\ MasterStart # DoNothing /\ QueryAddress # DoNothing
  /\ MasterStart # QueryAddress
  /\ \A a : /\ SendToken(a) # DoNothing
            /\ SendToken(a) # QueryAddress
            /\ SendToken(a) # MasterStart
            /\ SendToken(a).addr = a
            /\ \A b : SendToken(a) = SendToken(b) => a = b
  /\ \A a \in Address : SendToken(a) \in Action
BY DEF Action, MasterStart, QueryAddress, DoNothing, SendToken

LEMMA AddressFacts ==
  /\ Static \subseteq Nat /\ Dynamic \subseteq Nat
  /\ Static \subseteq Address /\ Dynamic \subseteq Address
  /\ StaticLow \in Static
  /\ \A a \in Address : a \in Static <=> a \notin Dynamic
  /\ 0 \notin Address
BY AddressAssumption DEF Static, Dynamic, Address

(* At most one event waits, so none is left when one is processed. *)
LEMMA NoEventsLeft ==
  ASSUME TypeOK, ChartFollowsAction
  PROVE  EventsLeft = <<>>
<1>1. CASE m_eventQueue = <<>>
  BY <1>1 DEF EventsLeft
<1>2. CASE m_eventQueue # <<>>
  <2>1. m_eventQueue \in Seq({"check_new_command"}) /\ Len(m_eventQueue) = 1
    BY <1>2 DEF TypeOK, ChartFollowsAction
  <2>2. /\ Tail(m_eventQueue) \in Seq({"check_new_command"})
        /\ Len(Tail(m_eventQueue)) = 0
    BY <2>1, <1>2
  <2>3. Tail(m_eventQueue) = <<>>
    BY <2>2, EmptySequence
  <2> QED
    BY <2>3, <1>2 DEF EventsLeft
<1> QED
  BY <1>1, <1>2

-----------------------------------------------------------------------------
(* checkNewAction() when the chart has no action: whatever was in the       *)
(* queues is in them afterwards or has been started, and if nothing was     *)
(* started the delay timer covers all that waits.                           *)

CheckNewActionResult(r, w) ==
  /\ m_ready' \in Seq(Action)
  /\ m_waiting' \in Seq(WaitingAction)
  /\ ahAction' \in Action
  /\ fsmAction' = ahAction'
  /\ m_eventQueue' \in Seq({"check_new_command"})
  /\ m_delayAction' \in TimerValue
  /\ status' = status
  /\ Distinct(m_ready', m_waiting')
  /\ Sorted(m_waiting')
  /\ ~InReady(m_ready', ahAction')
  /\ ~InWaiting(m_waiting', ahAction')
  /\ \A y : y # DoNothing =>
       (InReady(m_ready', y) \/ InWaiting(m_waiting', y) \/ ahAction' = y
         <=> InReady(r, y) \/ InWaiting(w, y))
  /\ m_eventQueue' # <<>> => Len(m_eventQueue') = 1 /\ ahAction' # DoNothing
  /\ ahAction' = DoNothing => \A i \in 1 .. Len(m_waiting') :
       m_delayAction' # Off /\ m_delayAction' <= m_waiting'[i].left
  /\ ahAction' = DoNothing => m_ready' = <<>>
  /\ m_delayAction' # Off => ahAction' = DoNothing

LEMMA CheckNewActionLemma ==
  ASSUME NEW r \in Seq(Action), NEW w \in Seq(WaitingAction),
         Distinct(r, w), Sorted(w), EventsLeft = <<>>,
         CheckNewAction(DoNothing, Off, r, w)
  PROVE  CheckNewActionResult(r, w)
<1> PICK n \in 0 .. Len(w) :
      /\ WorkToDoMoves(w, n)
      /\ m_waiting' = WaitingAfter(w, n)
      /\ IF ReadyAfter(r, w, n) # <<>>
         THEN /\ ahAction' = Head(ReadyAfter(r, w, n))
              /\ m_ready' = Tail(ReadyAfter(r, w, n))
              /\ StartAction(DoNothing, Head(ReadyAfter(r, w, n)))
              /\ m_delayAction' = Off
         ELSE /\ ahAction' = DoNothing
              /\ m_ready' = ReadyAfter(r, w, n)
              /\ fsmAction' = DoNothing
              /\ m_eventQueue' = EventsLeft
              /\ m_delayAction' = IF WaitingAfter(w, n) = <<>> THEN Off
                                  ELSE WaitingAfter(w, n)[1].left
              /\ UNCHANGED status
  BY DEF CheckNewAction
<1> DEFINE r2 == ReadyAfter(r, w, n)
           w2 == WaitingAfter(w, n)
<1>1. r2 \in Seq(Action) /\ w2 \in Seq(WaitingAction)
  BY MoveType
<1>2. /\ Distinct(r2, w2)
      /\ \A y : InReady(r2, y) \/ InWaiting(w2, y)
                  <=> InReady(r, y) \/ InWaiting(w, y)
  BY MoveDistinct
<1>3. Sorted(w2)
  BY MoveSorted
<1>4. CASE r2 # <<>>
  <2>1. /\ Head(r2) \in Action
        /\ Tail(r2) \in Seq(Action)
        /\ Distinct(Tail(r2), w2)
        /\ Head(r2) # DoNothing
        /\ ~InReady(Tail(r2), Head(r2))
        /\ ~InWaiting(w2, Head(r2))
        /\ \A y : InReady(r2, y) <=> InReady(Tail(r2), y) \/ y = Head(r2)
    BY <1>1, <1>2, <1>4, TakeReady
  <2>2. /\ ahAction' = Head(r2) /\ m_ready' = Tail(r2) /\ m_waiting' = w2
        /\ fsmAction' = Head(r2) /\ m_delayAction' = Off /\ status' = status
        /\ m_eventQueue' = <<"check_new_command">>
    BY <1>4 DEF StartAction
  <2>3. m_eventQueue' \in Seq({"check_new_command"}) /\ Len(m_eventQueue') = 1
    BY <2>2
  <2> HIDE DEF r2, w2
  <2>4. \A y : InReady(m_ready', y) \/ InWaiting(m_waiting', y) \/ ahAction' = y
               <=> InReady(r, y) \/ InWaiting(w, y)
    BY <2>1, <2>2, <1>2
  <2> QED
    BY <1>1, <1>3, <2>1, <2>2, <2>3, <2>4
    DEF CheckNewActionResult, TimerValue
<1>5. CASE r2 = <<>>
  <2>1. /\ ahAction' = DoNothing /\ m_ready' = r2 /\ m_waiting' = w2
        /\ fsmAction' = DoNothing /\ status' = status
        /\ m_eventQueue' = <<>>
        /\ m_delayAction' = IF w2 = <<>> THEN Off ELSE w2[1].left
    BY <1>5
  <2> HIDE DEF r2, w2
  <2>2. CASE w2 = <<>>
    <3>1. m_delayAction' = Off /\ 1 .. Len(w2) = {}
      BY <2>1, <2>2
    <3> QED
      BY <1>1, <1>2, <1>3, <1>5, <2>1, <3>1, ActionFacts
      DEF CheckNewActionResult, TimerValue, Distinct
  <2>3. CASE w2 # <<>>
    <3>1. 1 \in 1 .. Len(w2)
      BY <1>1, <2>3
    <3>2. m_delayAction' = w2[1].left /\ m_delayAction' \in Nat
      BY <2>1, <2>3, <3>1, <1>1, WaitingElement
    <3>3. m_delayAction' # Off /\ m_delayAction' \in TimerValue
      BY <3>2 DEF Off, TimerValue
    <3>4. \A i \in 1 .. Len(w2) : m_delayAction' <= w2[i].left
      BY <3>1, <3>2, <1>3 DEF Sorted
    <3> QED
      BY <1>1, <1>2, <1>3, <1>5, <2>1, <3>3, <3>4, ActionFacts
      DEF CheckNewActionResult, Distinct
  <2> QED
    BY <2>2, <2>3
<1> QED
  BY <1>4, <1>5

-----------------------------------------------------------------------------
(* Initialization. *)

LEMMA InitInv == Init => Inv
<1> SUFFICES ASSUME Init PROVE Inv
  OBVIOUS
<1> DEFINE last == StaticHigh - StaticLow + 1
           tokens == [i \in 1 .. last |-> SendToken(StaticLow + i - 1)]
           top == DynamicHigh - DynamicLow + 1
<1>1. last \in Nat /\ top \in Nat
  BY AddressAssumption
<1>2. PICK uids \in [Static -> GarbageUids] :
        m_table = [a \in Static |-> StaticLine(uids[a])]
  BY DEF Init, DynamicStart
<1>3. DOMAIN m_table = Static
  BY <1>2
<1>4. \A a \in Static : m_table[a] \in Line /\ ~m_table[a].dynamic
  BY <1>2 DEF StaticLine, Line, LineState, BadCountCap, Uid
<1>5. \A i \in 1 .. last : StaticLow + i - 1 \in Static
  BY <1>1, AddressAssumption DEF Static
<1>6. tokens \in Seq(Action) /\ Len(tokens) = last
  <2>1. tokens \in [1 .. last -> Action]
    BY <1>5, ActionFacts, AddressFacts
  <2> QED
    BY <2>1, <1>1, FunctionIsSequence
<1>7. m_ready \in Seq(Action) /\ Len(m_ready) = last + 1
      /\ m_ready[last + 1] = QueryAddress
      /\ \A i \in 1 .. last : m_ready[i] = SendToken(StaticLow + i - 1)
  <2>1. m_ready = Append(tokens, QueryAddress)
    BY DEF Init, DynamicStart
  <2> HIDE DEF tokens
  <2>2. m_ready \in Seq(Action) /\ Len(m_ready) = last + 1
        /\ m_ready[last + 1] = QueryAddress
        /\ \A i \in 1 .. last : m_ready[i] = tokens[i]
    BY <2>1, <1>1, <1>6, ActionFacts
  <2> QED
    BY <2>2 DEF tokens
<1>8. m_freeAddresses \in Seq(Dynamic) /\ Len(m_freeAddresses) = top
      /\ \A i \in 1 .. top : m_freeAddresses[i] = DynamicHigh - i + 1
  <2>1. m_freeAddresses = [i \in 1 .. top |-> DynamicHigh - i + 1]
    BY DEF Init, DynamicStart
  <2>2. m_freeAddresses \in [1 .. top -> Dynamic]
    BY <2>1, AddressAssumption DEF Dynamic
  <2> QED
    BY <2>1, <2>2, <1>1, FunctionIsSequence
<1>9. TypeOK
  <2>1. m_eventQueue \in Seq({"check_new_command"})
    BY DEF Init
  <2>2. m_waiting \in Seq(WaitingAction)
    BY DEF Init
  <2>3. m_table \in [DOMAIN m_table -> Line]
    BY <1>2, <1>3, <1>4
  <2> QED
    BY <1>3, <1>7, <1>8, <2>1, <2>2, <2>3, ActionFacts, AddressFacts
    DEF TypeOK, Init, DynamicStart, State, TimerValue, Off, Packet, NoPacket,
        Status
<1>10. QueueInv
  <2>1. 1 .. Len(m_waiting) = {}
    BY DEF Init
  <2>2. \A i \in 1 .. Len(m_ready) :
          \/ i = last + 1 /\ m_ready[i] = QueryAddress
          \/ i \in 1 .. last /\ m_ready[i] = SendToken(StaticLow + i - 1)
    BY <1>7, <1>1
  <2>3. \A i, j \in 1 .. Len(m_ready) : m_ready[i] = m_ready[j] => i = j
    <3> SUFFICES ASSUME NEW i \in 1 .. Len(m_ready),
                        NEW j \in 1 .. Len(m_ready), m_ready[i] = m_ready[j]
                 PROVE  i = j
      OBVIOUS
    <3>1. CASE i \in 1 .. last /\ j \in 1 .. last
      <4>1. StaticLow + i - 1 = StaticLow + j - 1
        BY <3>1, <1>7, ActionFacts
      <4> QED
        BY <4>1, AddressAssumption
    <3>2. CASE ~(i \in 1 .. last /\ j \in 1 .. last)
      BY <3>2, <2>2, ActionFacts
    <3> QED
      BY <3>1, <3>2
  <2>4. ~InReady(m_ready, DoNothing) /\ ~InReady(m_ready, MasterStart)
    BY <2>2, ActionFacts DEF InReady
  <2> QED
    BY <2>1, <2>3, <2>4
    DEF QueueInv, Distinct, Sorted, InWaiting, Init
<1>11. TokenForEveryLine
  <2>1. ASSUME NEW a \in Address, a \in Static PROVE Queued(SendToken(a))
    <3>1. a - StaticLow + 1 \in 1 .. last
          /\ StaticLow + (a - StaticLow + 1) - 1 = a
      BY <2>1, AddressAssumption DEF Static
    <3> QED
      BY <3>1, <1>1, <1>7 DEF Queued
  <2>2. ASSUME NEW a \in Address, Present(SendToken(a)) PROVE a \in Static
    <3>0. ahAction = MasterStart /\ 1 .. Len(m_waiting) = {}
      BY DEF Init
    <3>1. PICK i \in 1 .. Len(m_ready) : m_ready[i] = SendToken(a)
      BY <2>2, <3>0, ActionFacts DEF Present, Queued, Delayed
    <3>2. i \in 1 .. last /\ SendToken(StaticLow + i - 1) = SendToken(a)
      BY <3>1, <1>1, <1>7, ActionFacts
    <3> QED
      BY <3>2, <1>5, ActionFacts
  <2> QED
    BY <2>1, <2>2, <1>3 DEF TokenForEveryLine, Present
<1>12. QueryNeverLost
  <2>1. Queued(QueryAddress)
    BY <1>7, <1>1 DEF Queued
  <2> QED
    BY <2>1 DEF QueryNeverLost, Present, Init, DynamicStart
<1>13. AddressesConserved
  <2>1. ASSUME NEW a \in Dynamic
        PROVE  \E i \in 1 .. Len(m_freeAddresses) : m_freeAddresses[i] = a
    <3>1. DynamicHigh - a + 1 \in 1 .. top
          /\ DynamicHigh - (DynamicHigh - a + 1) + 1 = a
      BY AddressAssumption DEF Dynamic
    <3> QED
      BY <3>1, <1>8
  <2>2. \A i, j \in 1 .. Len(m_freeAddresses) :
          m_freeAddresses[i] = m_freeAddresses[j] => i = j
    BY <1>8, AddressAssumption
  <2> QED
    BY <2>1, <2>2, <1>3, <1>4, AddressFacts DEF AddressesConserved
<1>14. OneAddressPerClient
  BY <1>3, AddressFacts DEF OneAddressPerClient
<1>15. ChartFollowsAction
  BY ActionFacts DEF ChartFollowsAction, Init
<1>16. WakesUpInTime /\ TimerFollowsState /\ AbortsOnlyAtStart
  BY ActionFacts DEF WakesUpInTime, TimerFollowsState, AbortsOnlyAtStart, Init
<1> QED
  BY <1>9, <1>10, <1>11, <1>12, <1>13, <1>14, <1>15, <1>16 DEF Inv

-----------------------------------------------------------------------------
(* The end of every handler that finishes an action: back in Idle, with     *)
(* checkNewAction() called on queues that hold a token for every row and a  *)
(* query unless its timer runs.                                             *)

LEMMA ResumeLemma ==
  ASSUME NEW r, NEW w, CheckNewActionResult(r, w),
         status = "running", fsmState' = "idle", fsmTimer' = Off,
         DOMAIN m_table' \subseteq Address,
         m_table' \in [DOMAIN m_table' -> Line],
         m_freeAddresses' \in Seq(Dynamic),
         queryTimer' \in TimerValue, sent' \in Packet,
         \A a \in Address : a \in DOMAIN m_table' <=>
           InReady(r, SendToken(a)) \/ InWaiting(w, SendToken(a)),
         InReady(r, QueryAddress) \/ InWaiting(w, QueryAddress)
           <=> queryTimer' = Off,
         AddressesConserved', OneAddressPerClient'
  PROVE  Inv'
<1>1. TypeOK'
  BY DEF TypeOK, CheckNewActionResult, TimerValue, State, Status
<1>2. AbortsOnlyAtStart' /\ TimerFollowsState'
  BY DEF AbortsOnlyAtStart, TimerFollowsState, CheckNewActionResult
<1>3. QueueInv'
  BY DEF QueueInv, CheckNewActionResult, Distinct, Sorted, InReady, InWaiting
<1>4. \A y : y # DoNothing =>
        (Present(y)' <=> InReady(r, y) \/ InWaiting(w, y))
  BY DEF CheckNewActionResult, Present, Queued, Delayed, InReady, InWaiting
<1>5. TokenForEveryLine'
  BY <1>4, ActionFacts DEF TokenForEveryLine
<1>6. QueryNeverLost'
  BY <1>4, ActionFacts DEF QueryNeverLost
<1>7. ChartFollowsAction'
  BY DEF ChartFollowsAction, CheckNewActionResult
<1>8. WakesUpInTime'
  <2>1. ASSUME ahAction' = DoNothing PROVE m_delayAction' # Off
    <3>1. StaticLow \in Address /\ StaticLow \in DOMAIN m_table'
      BY AddressFacts DEF AddressesConserved
    <3>2. Present(SendToken(StaticLow))'
      BY <3>1, <1>5 DEF TokenForEveryLine
    <3>3. m_ready' = <<>> /\ 1 .. Len(m_ready') = {}
      BY <2>1 DEF CheckNewActionResult
    <3>4. \E i \in 1 .. Len(m_waiting') : TRUE
      BY <2>1, <3>2, <3>3, ActionFacts DEF Present, Queued, Delayed
    <3> QED
      BY <2>1, <3>4 DEF CheckNewActionResult
  <2> QED
    BY <2>1 DEF WakesUpInTime, CheckNewActionResult
<1> QED
  BY <1>1, <1>2, <1>3, <1>5, <1>6, <1>7, <1>8 DEF Inv

(* What holds while an action is under way. *)
LEMMA UnderWay ==
  ASSUME Inv, ahAction # DoNothing
  PROVE  /\ m_delayAction = Off
         /\ fsmAction = ahAction
         /\ EventsLeft = <<>>
         /\ \A y : y # ahAction =>
              (Present(y) <=> InReady(m_ready, y) \/ InWaiting(m_waiting, y))
<1>1. m_delayAction = Off
  BY DEF Inv, WakesUpInTime
<1>2. fsmAction = ahAction
  BY DEF Inv, ChartFollowsAction
<1>3. EventsLeft = <<>>
  BY NoEventsLeft DEF Inv
<1>4. \A y : y # ahAction =>
        (Present(y) <=> InReady(m_ready, y) \/ InWaiting(m_waiting, y))
  BY DEF Present, Queued, Delayed, InReady, InWaiting
<1> QED
  BY <1>1, <1>2, <1>3, <1>4

(* A new state of a row that stays. *)
LEMMA SetStateType ==
  ASSUME NEW line \in Line, NEW st \in LineState
  PROVE  /\ SetState(line, st) \in Line
         /\ SetState(line, st).dynamic = line.dynamic
         /\ SetState(line, st).uid = line.uid
         /\ NextDelay(SetState(line, st).state) \in Nat
<1>1. line.badCount \in 0 .. 4 /\ line.dynamic \in BOOLEAN /\ line.uid \in Uid
  BY DEF Line, BadCountCap
<1>2. BadCountAfter(line, st) \in 0 .. 4
  BY <1>1 DEF BadCountAfter, BadCountCap
<1>3. (IF BadCountAfter(line, st) > 3 THEN "free" ELSE st) \in LineState
  BY DEF LineState
<1>4. SetState(line, st) \in Line
  BY <1>1, <1>2, <1>3 DEF SetState, Line, BadCountCap
<1>5. SetState(line, st).state \in LineState
  BY <1>3 DEF SetState
<1>6. \A s \in LineState : NextDelay(s) \in Nat
  BY TimeAssumption DEF LineState, NextDelay
<1> QED
  BY <1>4, <1>5, <1>6 DEF SetState

(* updateAddressLine(), for the address whose token is under way. *)
LEMMA UpdateAddressLineInv ==
  ASSUME Inv, status = "running", NEW a \in Address, ahAction = SendToken(a),
         NEW st \in LineState, UpdateAddressLine(a, st),
         fsmState' = "idle", fsmTimer' = Off, sent' = NoPacket
  PROVE  Inv'
<1>1. a \in DOMAIN m_table
  BY DEF Inv, TokenForEveryLine, Present
<1> DEFINE line == SetState(m_table[a], st)
<1>2. m_table[a] \in Line
  BY <1>1 DEF Inv, TypeOK
<1>3. line \in Line /\ line.dynamic = m_table[a].dynamic
      /\ line.uid = m_table[a].uid /\ NextDelay(line.state) \in Nat
  BY <1>2, SetStateType
<1>4. ahAction # DoNothing /\ SendToken(a) \in Action
  BY ActionFacts
<1>5. /\ m_delayAction = Off
      /\ EventsLeft = <<>>
      /\ \A y : y # SendToken(a) =>
           (Present(y) <=> InReady(m_ready, y) \/ InWaiting(m_waiting, y))
  BY <1>4, UnderWay
<1>6. /\ m_ready \in Seq(Action) /\ m_waiting \in Seq(WaitingAction)
      /\ Distinct(m_ready, m_waiting) /\ Sorted(m_waiting)
      /\ ~InReady(m_ready, SendToken(a)) /\ ~InWaiting(m_waiting, SendToken(a))
  BY DEF Inv, TypeOK, QueueInv
<1>7. sent' \in Packet
  BY DEF Packet
<1>8. queryTimer' = queryTimer /\ queryTimer' \in TimerValue
  BY <1>1 DEF UpdateAddressLine, Inv, TypeOK
<1>9. DOMAIN m_table \subseteq Address /\ m_table \in [DOMAIN m_table -> Line]
      /\ m_freeAddresses \in Seq(Dynamic)
  BY DEF Inv, TypeOK
<1> HIDE DEF line
<1>10. CASE RemoveDynamic(line)
  <2>1. /\ m_table' = RemoveLine(m_table, a)
        /\ m_freeAddresses' = Append(m_freeAddresses, a)
        /\ CheckNewAction(DoNothing, Off, m_ready, m_waiting)
    BY <1>1, <1>5, <1>10 DEF UpdateAddressLine, line
  <2>2. CheckNewActionResult(m_ready, m_waiting)
    BY <2>1, <1>5, <1>6, CheckNewActionLemma
  <2>3. a \in Dynamic
    BY <1>1, <1>3, <1>10 DEF RemoveDynamic, Inv, AddressesConserved
  <2>4. /\ DOMAIN m_table' = DOMAIN m_table \ {a}
        /\ \A b \in DOMAIN m_table' : m_table'[b] = m_table[b]
        /\ m_table' \in [DOMAIN m_table' -> Line]
    BY <2>1, <1>9 DEF RemoveLine
  <2>5. /\ m_freeAddresses' \in Seq(Dynamic)
        /\ Len(m_freeAddresses') = Len(m_freeAddresses) + 1
        /\ \A i \in 1 .. Len(m_freeAddresses) :
             m_freeAddresses'[i] = m_freeAddresses[i]
        /\ m_freeAddresses'[Len(m_freeAddresses) + 1] = a
        /\ Len(m_freeAddresses) \in Nat
    BY <2>1, <2>3, <1>9
  <2>6. AddressesConserved'
    <3>1. \A i \in 1 .. Len(m_freeAddresses) : m_freeAddresses[i] # a
      BY <1>1, <2>3 DEF Inv, AddressesConserved
    <3>2. \A i, j \in 1 .. Len(m_freeAddresses') :
            m_freeAddresses'[i] = m_freeAddresses'[j] => i = j
      BY <2>5, <3>1 DEF Inv, AddressesConserved
    <3>3. ASSUME NEW b \in Dynamic
          PROVE  b \in DOMAIN m_table' <=>
                   ~\E i \in 1 .. Len(m_freeAddresses') : m_freeAddresses'[i] = b
      <4>1. (\E i \in 1 .. Len(m_freeAddresses') : m_freeAddresses'[i] = b)
              <=> b = a \/ \E i \in 1 .. Len(m_freeAddresses) : m_freeAddresses[i] = b
        BY <2>5
      <4> QED
        BY <4>1, <2>4 DEF Inv, AddressesConserved
    <3>4. Static \subseteq DOMAIN m_table'
      BY <2>3, <2>4, AddressFacts DEF Inv, AddressesConserved
    <3>5. \A b \in DOMAIN m_table' : m_table'[b].dynamic <=> b \in Dynamic
      BY <2>4 DEF Inv, AddressesConserved
    <3> QED
      BY <3>2, <3>3, <3>4, <3>5 DEF AddressesConserved
  <2>7. OneAddressPerClient'
    BY <2>4 DEF Inv, OneAddressPerClient
  <2>8. \A b \in Address : b \in DOMAIN m_table' <=>
          InReady(m_ready, SendToken(b)) \/ InWaiting(m_waiting, SendToken(b))
    BY <2>4, <1>5, <1>6, ActionFacts DEF Inv, TokenForEveryLine
  <2>9. InReady(m_ready, QueryAddress) \/ InWaiting(m_waiting, QueryAddress)
          <=> queryTimer' = Off
    BY <1>5, <1>8, ActionFacts DEF Inv, QueryNeverLost
  <2>10. DOMAIN m_table' \subseteq Address
    BY <2>4, <1>9
  <2> QED
    BY <1>7, <1>8, <2>2, <2>4, <2>5, <2>6, <2>7, <2>8, <2>9, <2>10, ResumeLemma
<1>11. CASE ~RemoveDynamic(line)
  <2> DEFINE delay == NextDelay(line.state)
  <2>1. PICK k \in Positions(m_waiting, delay) :
          CheckNewAction(DoNothing, Off, m_ready,
                         AddAction(m_waiting, k, SendToken(a), delay))
    BY <1>1, <1>5, <1>11 DEF UpdateAddressLine, line
  <2>2. m_table' = [m_table EXCEPT ![a] = line]
        /\ m_freeAddresses' = m_freeAddresses
    BY <1>1, <1>11 DEF UpdateAddressLine, line
  <2> HIDE DEF delay
  <2> DEFINE w == AddAction(m_waiting, k, SendToken(a), delay)
  <2>3. k \in 0 .. Len(m_waiting) /\ delay \in Nat
    BY <1>3 DEF Positions, delay
  <2>4. w \in Seq(WaitingAction)
    BY <2>3, <1>4, <1>6, AddActionType
  <2>5. /\ Distinct(m_ready, w)
        /\ \A y : InWaiting(w, y) <=> InWaiting(m_waiting, y) \/ y = SendToken(a)
    BY <2>3, <1>4, <1>6, AddActionDistinct
  <2>6. Sorted(w)
    BY <2>1, <2>3, <1>4, <1>6, AddActionSorted
  <2> HIDE DEF w
  <2>7. CheckNewActionResult(m_ready, w)
    BY <2>1, <2>4, <2>5, <2>6, <1>5, <1>6, CheckNewActionLemma DEF w
  <2>8. /\ DOMAIN m_table' = DOMAIN m_table
        /\ m_table' \in [DOMAIN m_table' -> Line]
        /\ \A b \in DOMAIN m_table : /\ m_table'[b].dynamic = m_table[b].dynamic
                                      /\ m_table'[b].uid = m_table[b].uid
    BY <2>2, <1>1, <1>3, <1>9
  <2>9. AddressesConserved'
    BY <2>2, <2>8 DEF Inv, AddressesConserved
  <2>10. OneAddressPerClient'
    BY <2>8 DEF Inv, OneAddressPerClient
  <2>11. \A b \in Address : b \in DOMAIN m_table' <=>
           InReady(m_ready, SendToken(b)) \/ InWaiting(w, SendToken(b))
    BY <2>5, <2>8, <1>1, <1>5, ActionFacts DEF Inv, TokenForEveryLine
  <2>12. InReady(m_ready, QueryAddress) \/ InWaiting(w, QueryAddress)
           <=> queryTimer' = Off
    BY <2>5, <1>5, <1>8, ActionFacts DEF Inv, QueryNeverLost
  <2>13. DOMAIN m_table' \subseteq Address /\ m_freeAddresses' \in Seq(Dynamic)
    BY <2>2, <2>8, <1>9
  <2> QED
    BY <1>7, <1>8, <2>7, <2>8, <2>9, <2>10, <2>11, <2>12, <2>13, ResumeLemma
<1> QED
  BY <1>10, <1>11

-----------------------------------------------------------------------------
(* addressDiscoveryIsDone(), and the end of the start action. *)

LEMMA QueryDoneInv ==
  ASSUME Inv, status = "running", ahAction = QueryAddress,
         AddressDiscoveryIsDone,
         fsmState' = "idle", fsmTimer' = Off, sent' = NoPacket
  PROVE  Inv'
<1>1. ahAction # DoNothing
  BY ActionFacts
<1>2. /\ m_delayAction = Off
      /\ EventsLeft = <<>>
      /\ \A y : y # QueryAddress =>
           (Present(y) <=> InReady(m_ready, y) \/ InWaiting(m_waiting, y))
  BY <1>1, UnderWay
<1>3. /\ m_ready \in Seq(Action) /\ m_waiting \in Seq(WaitingAction)
      /\ Distinct(m_ready, m_waiting) /\ Sorted(m_waiting)
      /\ ~InReady(m_ready, QueryAddress) /\ ~InWaiting(m_waiting, QueryAddress)
  BY DEF Inv, TypeOK, QueueInv
<1>4. CheckNewActionResult(m_ready, m_waiting)
  BY <1>2, <1>3, CheckNewActionLemma DEF AddressDiscoveryIsDone
<1>5. m_table' = m_table /\ m_freeAddresses' = m_freeAddresses
      /\ queryTimer' \in TimerValue /\ queryTimer' # Off
  BY TimeAssumption DEF AddressDiscoveryIsDone, TimerValue, Off
<1>6. AddressesConserved' /\ OneAddressPerClient'
  BY <1>5 DEF Inv, AddressesConserved, OneAddressPerClient
<1>7. \A a \in Address : a \in DOMAIN m_table' <=>
        InReady(m_ready, SendToken(a)) \/ InWaiting(m_waiting, SendToken(a))
  BY <1>2, <1>5, ActionFacts DEF Inv, TokenForEveryLine
<1>8. /\ DOMAIN m_table' \subseteq Address
      /\ m_table' \in [DOMAIN m_table' -> Line]
      /\ m_freeAddresses' \in Seq(Dynamic)
      /\ sent' \in Packet
  BY <1>5 DEF Inv, TypeOK, Packet
<1> QED
  BY <1>3, <1>4, <1>5, <1>6, <1>7, <1>8, ResumeLemma

LEMMA StartDoneInv ==
  ASSUME Inv, status = "running", ahAction = MasterStart,
         CheckNewAction(DoNothing, m_delayAction, m_ready, m_waiting),
         UNCHANGED addressVars,
         fsmState' = "idle", fsmTimer' = Off, sent' = NoPacket
  PROVE  Inv'
<1>1. ahAction # DoNothing
  BY ActionFacts
<1>2. /\ m_delayAction = Off
      /\ EventsLeft = <<>>
      /\ \A y : y # MasterStart =>
           (Present(y) <=> InReady(m_ready, y) \/ InWaiting(m_waiting, y))
  BY <1>1, UnderWay
<1>3. /\ m_ready \in Seq(Action) /\ m_waiting \in Seq(WaitingAction)
      /\ Distinct(m_ready, m_waiting) /\ Sorted(m_waiting)
  BY DEF Inv, TypeOK, QueueInv
<1>4. CheckNewActionResult(m_ready, m_waiting)
  BY <1>2, <1>3, CheckNewActionLemma
<1>5. m_table' = m_table /\ m_freeAddresses' = m_freeAddresses
      /\ queryTimer' = queryTimer
  BY DEF addressVars
<1>6. AddressesConserved' /\ OneAddressPerClient'
  BY <1>5 DEF Inv, AddressesConserved, OneAddressPerClient
<1>7. \A a \in Address : a \in DOMAIN m_table' <=>
        InReady(m_ready, SendToken(a)) \/ InWaiting(m_waiting, SendToken(a))
  BY <1>2, <1>5, ActionFacts DEF Inv, TokenForEveryLine
<1>8. InReady(m_ready, QueryAddress) \/ InWaiting(m_waiting, QueryAddress)
        <=> queryTimer' = Off
  BY <1>2, <1>5, ActionFacts DEF Inv, QueryNeverLost
<1>9. /\ DOMAIN m_table' \subseteq Address
      /\ m_table' \in [DOMAIN m_table' -> Line]
      /\ m_freeAddresses' \in Seq(Dynamic)
      /\ sent' \in Packet
      /\ queryTimer' \in TimerValue
  BY <1>5 DEF Inv, TypeOK, Packet
<1> QED
  BY <1>4, <1>6, <1>7, <1>8, <1>9, ResumeLemma

-----------------------------------------------------------------------------
(* The steps. *)

(* A step that keeps the actions, the queues and the table keeps all that   *)
(* the invariant says about them.                                           *)
LEMMA QuietStep ==
  ASSUME Inv, status' \in {"running", "exited"},
         fsmAction' = fsmAction, ahAction' = ahAction,
         m_eventQueue' \in {m_eventQueue, <<>>},
         fsmState' = "idle" \/ m_eventQueue' = <<>>,
         UNCHANGED <<schedulerVars, addressVars>>,
         fsmState' \in State, fsmTimer' \in TimerValue, sent' \in Packet,
         status' = "running" => status = "running",
         fsmTimer' = Off <=> fsmState' = "idle",
         fsmState' = "startMaster" => fsmAction = MasterStart,
         fsmState' \in {"sendingToken", "waitClientPacketDone"} =>
           \E a \in Address : fsmAction = SendToken(a),
         fsmState' \in {"queryAddress", "waitAddressReply"} =>
           fsmAction = QueryAddress
  PROVE  Inv'
<1> USE DEF schedulerVars, addressVars
<1>1. TypeOK'
  <2>1. m_eventQueue' \in Seq({"check_new_command"})
    <3>1. m_eventQueue \in Seq({"check_new_command"})
      BY DEF Inv, TypeOK
    <3>2. <<>> \in Seq({"check_new_command"})
      OBVIOUS
    <3>3. m_eventQueue' = m_eventQueue \/ m_eventQueue' = <<>>
      OBVIOUS
    <3> QED
      BY <3>1, <3>2, <3>3
  <2>2. /\ m_table' = m_table /\ DOMAIN m_table \subseteq Address
        /\ m_table \in [DOMAIN m_table -> Line]
    BY DEF Inv, TypeOK
  <2> QED
    BY <2>1, <2>2 DEF Inv, TypeOK, Status
<1>2. AbortsOnlyAtStart' /\ TimerFollowsState'
  BY DEF AbortsOnlyAtStart, TimerFollowsState
<1>3. QueueInv'
  BY DEF Inv, QueueInv, Distinct, Sorted, InReady, InWaiting
<1>4. \A y : Present(y)' <=> Present(y)
  BY DEF Present, Queued, Delayed
<1>5. TokenForEveryLine' /\ QueryNeverLost'
  BY <1>4 DEF Inv, TokenForEveryLine, QueryNeverLost
<1>6. AddressesConserved' /\ OneAddressPerClient'
  BY DEF Inv, AddressesConserved, OneAddressPerClient
<1>7. ChartFollowsAction'
  BY DEF Inv, ChartFollowsAction
<1>8. WakesUpInTime'
  BY DEF Inv, WakesUpInTime
<1> QED
  BY <1>1, <1>2, <1>3, <1>5, <1>6, <1>7, <1>8 DEF Inv

LEMMA StateTimeoutType ==
  /\ StateTimeout("idle") = Off
  /\ \A s \in State \ {"idle"} : StateTimeout(s) \in Nat /\ StateTimeout(s) # Off
BY TimeAssumption DEF StateTimeout, State, Off

(* Idle takes up an action. *)
LEMMA DecodeInv ==
  ASSUME Inv, DecodeAction
  PROVE  Inv'
<1>1. ASSUME NEW x, Decode(x), NEW s \in State \ {"idle"}, NEW p \in Packet,
             Begin(s, p),
             s = "startMaster" => x = MasterStart,
             s \in {"sendingToken", "waitClientPacketDone"} =>
               \E a \in Address : x = SendToken(a),
             s \in {"queryAddress", "waitAddressReply"} => x = QueryAddress
      PROVE  Inv'
  <2>1. EventsLeft = <<>>
    BY NoEventsLeft DEF Inv
  <2>2. fsmState' = s /\ fsmTimer' \in TimerValue /\ fsmTimer' # Off
    BY <1>1, StateTimeoutType DEF Begin, Transition, TimerValue
  <2>3. fsmAction = x /\ status = "running"
    BY <1>1 DEF Decode
  <2>4. /\ fsmAction' = fsmAction /\ ahAction' = ahAction
        /\ m_eventQueue' = <<>>
        /\ UNCHANGED <<schedulerVars, addressVars>>
        /\ status' = status /\ sent' = p
    BY <1>1, <2>1 DEF Begin
  <2> QED
    BY <1>1, <2>2, <2>3, <2>4, QuietStep
<1>2. CASE DecodeMasterStart
  BY <1>1, <1>2 DEF DecodeMasterStart, State, Packet
<1>3. CASE DecodeQueryAddress
  BY <1>1, <1>3 DEF DecodeQueryAddress, State, Packet
<1>4. CASE DecodeSendToken
  <2>1. PICK a \in Address : Decode(SendToken(a))
                             /\ Begin("sendingToken", GrantToken(a))
    BY <1>4 DEF DecodeSendToken
  <2>2. GrantToken(a) \in Packet
    BY DEF Packet
  <2> QED
    BY <1>1, <2>1, <2>2 DEF State
<1>5. ASSUME Decode(SendToken(OwnAddr))
      PROVE  OwnAddr \in Address /\ ahAction = SendToken(OwnAddr)
  <2>1. SendToken(OwnAddr) \in Action /\ ahAction = SendToken(OwnAddr)
    BY <1>5 DEF Decode, Inv, ChartFollowsAction, TypeOK
  <2> QED
    BY <2>1, ActionFacts DEF Action
<1>6. CASE DecodeOwnTokenPacket
  BY <1>1, <1>5, <1>6 DEF DecodeOwnTokenPacket, State, Packet
<1>7. CASE DecodeOwnTokenEmpty
  <2>1. OwnAddr \in Address /\ ahAction = SendToken(OwnAddr)
        /\ fsmAction = SendToken(OwnAddr) /\ status = "running"
        /\ fsmState = "idle"
    BY <1>5, <1>7 DEF DecodeOwnTokenEmpty, Decode
  <2>2. UpdateAddressLine(ahAction.addr, "idle")
    BY <1>7, <2>1, ActionFacts
    DEF DecodeOwnTokenEmpty, ReportActionResult, NewLineState
  <2>3. ahAction.addr = OwnAddr
    BY <2>1, ActionFacts
  <2>4. fsmState' = "idle" /\ fsmTimer' = Off /\ sent' = NoPacket
    BY <1>7, <2>1 DEF DecodeOwnTokenEmpty, fsmVars, Inv, TimerFollowsState
  <2>5. "idle" \in LineState
    BY DEF LineState
  <2>6. UpdateAddressLine(OwnAddr, "idle")
    BY <2>2, <2>3
  <2> QED
    BY <2>1, <2>4, <2>5, <2>6, UpdateAddressLineInv
<1> QED
  BY <1>2, <1>3, <1>4, <1>6, <1>7 DEF DecodeAction

(* A packet or a timeout that finishes the action under way. *)
LEMMA FinishTokenInv ==
  ASSUME Inv, Waiting("waitClientPacketDone"),
         NEW result \in {"client_packet_started", "rx_token_no_packet",
                         "token_timeout"},
         Finish(result)
  PROVE  Inv'
<1>1. PICK a \in Address : fsmAction = SendToken(a) /\ ahAction = SendToken(a)
  BY DEF Waiting, Inv, ChartFollowsAction
<1>2. NewLineState(result) \in LineState
  BY DEF NewLineState, LineState
<1>3. fsmAction # DoNothing /\ ahAction.addr = a
  BY <1>1, ActionFacts
<1>4. UpdateAddressLine(a, NewLineState(result))
  BY <1>3 DEF Finish, ReportActionResult
<1>5. fsmState' = "idle" /\ fsmTimer' = Off /\ sent' = NoPacket
  BY StateTimeoutType DEF Finish, Transition
<1> QED
  BY <1>1, <1>2, <1>4, <1>5, UpdateAddressLineInv DEF Waiting

LEMMA FinishQueryInv ==
  ASSUME Inv, Waiting("queryAddress") \/ Waiting("waitAddressReply"),
         Finish("address_query_done")
  PROVE  Inv'
<1>1. fsmAction = QueryAddress /\ ahAction = QueryAddress
  BY DEF Waiting, Inv, ChartFollowsAction
<1>2. AddressDiscoveryIsDone
  BY <1>1, ActionFacts DEF Finish, ReportActionResult
<1>3. fsmState' = "idle" /\ fsmTimer' = Off /\ sent' = NoPacket
  BY StateTimeoutType DEF Finish, Transition
<1> QED
  BY <1>1, <1>2, <1>3, QueryDoneInv DEF Waiting

(* The start action, acknowledged or not. *)
LEMMA FinishStartInv ==
  ASSUME Inv, RxMasterStartStop \/ MasterStartTimeoutExpires
  PROVE  Inv'
<1>1. fsmAction = MasterStart /\ ahAction = MasterStart /\ status = "running"
      /\ m_eventQueue = <<>>
  BY DEF RxMasterStartStop, MasterStartTimeoutExpires, Waiting, Inv,
         ChartFollowsAction
<1>2. fsmState' = "idle" /\ fsmTimer' = Off /\ sent' = NoPacket
  BY StateTimeoutType
  DEF RxMasterStartStop, MasterStartTimeoutExpires, Finish, Transition
<1>3. CASE RxMasterStartStop
  <2>1. /\ CheckNewAction(DoNothing, m_delayAction, m_ready, m_waiting)
        /\ UNCHANGED addressVars
    BY <1>1, <1>3, ActionFacts
    DEF RxMasterStartStop, Finish, ReportActionResult
  <2> QED
    BY <1>1, <1>2, <2>1, StartDoneInv
<1>4. CASE MasterStartTimeoutExpires
  <2>1. Abort("assert_result") /\ "master_started" \in LostEchoes
    BY <1>1, <1>4, ActionFacts
    DEF MasterStartTimeoutExpires, Finish, ReportActionResult
  <2>2. /\ ahAction' = DoNothing /\ fsmAction' = DoNothing
        /\ m_eventQueue' = <<>> /\ status' = "assert_result"
        /\ m_ready' = m_ready /\ m_waiting' = m_waiting
        /\ m_delayAction' = m_delayAction /\ m_table' = m_table
        /\ m_freeAddresses' = m_freeAddresses /\ queryTimer' = queryTimer
    BY <1>1, <2>1 DEF Abort, EventsLeft, schedulerVars, addressVars
  <2>3. TypeOK'
    <3>1. DOMAIN m_table' \subseteq Address
          /\ m_table' \in [DOMAIN m_table' -> Line]
      BY <2>2 DEF Inv, TypeOK
    <3>2. m_eventQueue' \in Seq({"check_new_command"})
      BY <2>2
    <3> QED
      BY <1>2, <2>2, <3>1, <3>2, ActionFacts
      DEF Inv, TypeOK, State, TimerValue, Packet, Status
  <2>4. QueueInv'
    BY <2>2 DEF Inv, QueueInv, Distinct, Sorted, InReady, InWaiting
  <2>5. \A y : y # MasterStart /\ y # DoNothing => (Present(y)' <=> Present(y))
    BY <1>1, <2>2 DEF Present, Queued, Delayed
  <2>6. TokenForEveryLine' /\ QueryNeverLost'
    BY <2>2, <2>5, ActionFacts DEF Inv, TokenForEveryLine, QueryNeverLost
  <2>7. AddressesConserved' /\ OneAddressPerClient'
    BY <2>2 DEF Inv, AddressesConserved, OneAddressPerClient
  <2>8. ChartFollowsAction' /\ WakesUpInTime' /\ TimerFollowsState'
    BY <1>2, <2>2 DEF ChartFollowsAction, WakesUpInTime, TimerFollowsState
  <2>9. AbortsOnlyAtStart'
    BY <2>1, <2>2 DEF AbortsOnlyAtStart
  <2> QED
    BY <2>3, <2>4, <2>6, <2>7, <2>8, <2>9 DEF Inv
<1> QED
  BY <1>3, <1>4

(* A client asks for an address. *)
LEMMA AddressRequestInv ==
  ASSUME Inv, NEW uid \in UniqueIds, RxAddressRequest(uid)
  PROVE  Inv'
<1>1. /\ status = "running" /\ m_eventQueue = <<>>
      /\ fsmAction = QueryAddress /\ ahAction = QueryAddress
  BY DEF RxAddressRequest, Waiting, Inv, ChartFollowsAction
<1>2. /\ fsmState' = "waitAddressReply" /\ fsmTimer' # Off
      /\ fsmTimer' \in TimerValue
  BY StateTimeoutType DEF RxAddressRequest, Transition, State, TimerValue
<1>3. /\ UNCHANGED <<fsmAction, ahAction, m_eventQueue, m_waiting,
                     m_delayAction, queryTimer, status>>
  BY DEF RxAddressRequest, actionVars
<1>4. \A a \in Address : AddressReply(a, uid) \in Packet
  BY DEF Packet
<1>5. CASE UNCHANGED <<m_table, m_freeAddresses, m_ready>> /\ sent' \in Packet
  BY <1>1, <1>2, <1>3, <1>5, QuietStep
  DEF schedulerVars, addressVars, State
<1>6. CASE /\ LinesOf(uid) = {}
           /\ m_freeAddresses # <<>>
           /\ LET a == AllocAddress(m_freeAddresses)
              IN  /\ m_freeAddresses' =
                       SubSeq(m_freeAddresses, 1, Len(m_freeAddresses) - 1)
                  /\ m_table' = [b \in DOMAIN m_table \cup {a} |->
                                   IF b = a THEN DynamicLine(uid)
                                   ELSE m_table[b]]
                  /\ m_ready' = AddActionNow(m_ready, SendToken(a))
                  /\ sent' = AddressReply(a, uid)
  <2> DEFINE last == Len(m_freeAddresses)
             a == m_freeAddresses[last]
  <2>1. /\ m_freeAddresses' = SubSeq(m_freeAddresses, 1, last - 1)
        /\ m_table' = [b \in DOMAIN m_table \cup {a} |->
                         IF b = a THEN DynamicLine(uid) ELSE m_table[b]]
        /\ m_ready' = AddActionNow(m_ready, SendToken(a))
        /\ sent' = AddressReply(a, uid)
    BY <1>6 DEF AllocAddress
  <2>2. m_freeAddresses \in Seq(Dynamic) /\ m_freeAddresses # <<>>
    BY <1>6 DEF Inv, TypeOK
  <2>3. last \in Nat /\ last > 0 /\ last \in 1 .. last /\ a \in Dynamic
    BY <2>2, EmptySequence
  <2>4. /\ m_freeAddresses' \in Seq(Dynamic)
        /\ Len(m_freeAddresses') = last - 1
        /\ \A i \in 1 .. (last - 1) : m_freeAddresses'[i] = m_freeAddresses[i]
    BY <2>1, <2>2, <2>3, DropLast
  <2> HIDE DEF a
  <2>5. a \notin DOMAIN m_table /\ a \in Address
    BY <2>3, AddressFacts DEF Inv, AddressesConserved, a
  <2>6. DynamicLine(uid) \in Line /\ DynamicLine(uid).dynamic
        /\ DynamicLine(uid).uid = uid
    BY DEF DynamicLine, Line, LineState, BadCountCap, Uid
  <2>7. /\ DOMAIN m_table' = DOMAIN m_table \cup {a}
        /\ m_table'[a] = DynamicLine(uid)
        /\ \A b \in DOMAIN m_table : m_table'[b] = m_table[b]
        /\ m_table' \in [DOMAIN m_table' -> Line]
        /\ DOMAIN m_table' \subseteq Address
    <3>1. DOMAIN m_table \subseteq Address /\ m_table \in [DOMAIN m_table -> Line]
      BY DEF Inv, TypeOK
    <3> QED
      BY <2>1, <2>5, <2>6, <3>1
  <2>8. ~Present(SendToken(a)) /\ SendToken(a) \in Action
    BY <2>5, ActionFacts DEF Inv, TokenForEveryLine
  <2>9. ~InReady(m_ready, SendToken(a)) /\ ~InWaiting(m_waiting, SendToken(a))
    BY <2>8 DEF Present, Queued, Delayed, InReady, InWaiting
  <2>10. /\ m_ready \in Seq(Action) /\ m_waiting \in Seq(WaitingAction)
         /\ Distinct(m_ready, m_waiting) /\ Sorted(m_waiting)
         /\ ~InReady(m_ready, QueryAddress)
         /\ ~InWaiting(m_waiting, QueryAddress)
    BY <1>1 DEF Inv, TypeOK, QueueInv
  <2>11. /\ m_ready' \in Seq(Action)
         /\ Distinct(m_ready', m_waiting)
         /\ \A y : InReady(m_ready', y) <=> InReady(m_ready, y) \/ y = SendToken(a)
    BY <2>1, <2>8, <2>9, <2>10, ActionFacts, AddActionNowDistinct
  <2>12. TypeOK'
    <3>1. sent' \in Packet
      BY <2>1, <2>5, <1>4
    <3> QED
      BY <1>1, <1>2, <1>3, <2>4, <2>7, <2>11, <3>1 DEF Inv, TypeOK, State
  <2>13. QueueInv'
    <3>1. ~InReady(m_ready', QueryAddress)
      BY <2>10, <2>11, ActionFacts
    <3> QED
      BY <1>1, <1>3, <2>10, <2>11, <3>1
      DEF QueueInv, Distinct, Sorted, InReady, InWaiting
  <2>14. \A y : Present(y)' <=> Present(y) \/ y = SendToken(a)
    <3>1. \A y : Present(y)' <=> InReady(m_ready', y)
                                 \/ InWaiting(m_waiting, y) \/ ahAction = y
      BY <1>3 DEF Present, Queued, Delayed, InReady, InWaiting
    <3>2. \A y : Present(y) <=> InReady(m_ready, y)
                                \/ InWaiting(m_waiting, y) \/ ahAction = y
      BY DEF Present, Queued, Delayed, InReady, InWaiting
    <3> QED
      BY <2>11, <3>1, <3>2
  <2>15. TokenForEveryLine'
    BY <2>7, <2>14, ActionFacts DEF Inv, TokenForEveryLine
  <2>16. QueryNeverLost'
    BY <1>3, <2>14, ActionFacts DEF Inv, QueryNeverLost
  <2>17. AddressesConserved'
    <3>1. \A i, j \in 1 .. last : m_freeAddresses[i] = m_freeAddresses[j] => i = j
      BY DEF Inv, AddressesConserved
    <3>2. \A i \in 1 .. (last - 1) : i \in 1 .. last /\ m_freeAddresses[i] # a
      BY <2>3, <3>1 DEF a
    <3>3. ASSUME NEW b \in Dynamic
          PROVE  b \in DOMAIN m_table' <=>
                   ~\E i \in 1 .. Len(m_freeAddresses') : m_freeAddresses'[i] = b
      <4>1. (\E i \in 1 .. last : m_freeAddresses[i] = b) <=>
              b = a \/ \E i \in 1 .. (last - 1) : m_freeAddresses[i] = b
        BY <2>3, <3>2 DEF a
      <4>2. b \in DOMAIN m_table <=> ~\E i \in 1 .. last : m_freeAddresses[i] = b
        BY DEF Inv, AddressesConserved
      <4>3. (\E i \in 1 .. Len(m_freeAddresses') : m_freeAddresses'[i] = b) <=>
              \E i \in 1 .. (last - 1) : m_freeAddresses[i] = b
        BY <2>4
      <4>4. ~\E i \in 1 .. (last - 1) : m_freeAddresses[i] = a
        BY <3>2
      <4> QED
        BY <4>1, <4>2, <4>3, <4>4, <2>7
    <3>4. \A i, j \in 1 .. Len(m_freeAddresses') :
            m_freeAddresses'[i] = m_freeAddresses'[j] => i = j
      BY <2>4, <3>1, <3>2
    <3>5. Static \subseteq DOMAIN m_table'
      BY <2>7 DEF Inv, AddressesConserved
    <3>6. \A b \in DOMAIN m_table' : m_table'[b].dynamic <=> b \in Dynamic
      BY <2>3, <2>6, <2>7 DEF Inv, AddressesConserved
    <3> QED
      BY <3>3, <3>4, <3>5, <3>6 DEF AddressesConserved
  <2>18. OneAddressPerClient'
    <3>1. \A b \in DOMAIN m_table : m_table[b].uid # uid
      BY <1>6 DEF LinesOf
    <3> QED
      BY <2>6, <2>7, <3>1 DEF Inv, OneAddressPerClient
  <2>19. ChartFollowsAction' /\ TimerFollowsState' /\ AbortsOnlyAtStart'
    BY <1>1, <1>2, <1>3 DEF ChartFollowsAction, TimerFollowsState, AbortsOnlyAtStart
  <2>20. WakesUpInTime'
    BY <1>1, <1>3, ActionFacts DEF Inv, WakesUpInTime
  <2> QED
    BY <2>12, <2>13, <2>15, <2>16, <2>17, <2>18, <2>19, <2>20 DEF Inv
<1>7. NoPacket \in Packet
  BY DEF Packet
<1> QED
  BY <1>4, <1>5, <1>6, <1>7 DEF RxAddressRequest, ReceivedAddressRequest

-----------------------------------------------------------------------------
(* The steps that only move the chart. *)
LEMMA ChartStepInv ==
  ASSUME Inv, RxGrantToken \/ GrantTokenTimeoutExpires
              \/ TimeoutWhileReceiving \/ ExitMaster
  PROVE  Inv'
<1>1. TokenClientTimeout \in TimerValue /\ TokenClientTimeout # Off
  BY TimeAssumption DEF TimerValue, Off
<1>2. NoPacket \in Packet /\ [type |-> "master_ended"] \in Packet
  BY DEF Packet
<1>3. CASE RxGrantToken
  <2>1. /\ status = "running" /\ m_eventQueue = <<>>
        /\ \E a \in Address : fsmAction = SendToken(a)
    BY <1>3 DEF RxGrantToken, Waiting, Inv, ChartFollowsAction
  <2>2. /\ fsmState' = "waitClientPacketDone" /\ fsmTimer' \in TimerValue
        /\ fsmTimer' # Off
    BY <1>3, StateTimeoutType DEF RxGrantToken, Transition, State, TimerValue
  <2>3. /\ UNCHANGED <<fsmAction, ahAction, m_eventQueue, status>>
        /\ UNCHANGED <<schedulerVars, addressVars>>
        /\ sent' \in Packet
    BY <1>2, <1>3 DEF RxGrantToken, actionVars
  <2> QED
    BY <2>1, <2>2, <2>3, QuietStep DEF State
<1>4. CASE GrantTokenTimeoutExpires
  <2>1. status = "running" /\ m_eventQueue = <<>>
    BY <1>4 DEF GrantTokenTimeoutExpires, Waiting
  <2>2. fsmState' = "idle" /\ fsmTimer' = Off
    BY <1>4, StateTimeoutType DEF GrantTokenTimeoutExpires, Transition
  <2>3. /\ UNCHANGED <<fsmAction, ahAction, m_eventQueue, status>>
        /\ UNCHANGED <<schedulerVars, addressVars>>
        /\ sent' \in Packet
    BY <1>2, <1>4 DEF GrantTokenTimeoutExpires, actionVars
  <2> QED
    BY <2>1, <2>2, <2>3, QuietStep DEF State, TimerValue
<1>5. CASE TimeoutWhileReceiving
  <2>1. /\ status = "running" /\ m_eventQueue = <<>>
        /\ fsmState \in {"waitClientPacketDone", "queryAddress",
                         "waitAddressReply"}
    BY <1>5 DEF TimeoutWhileReceiving, Waiting
  <2>2. fsmState' = fsmState /\ fsmTimer' \in TimerValue /\ fsmTimer' # Off
    BY <1>1, <1>5 DEF TimeoutWhileReceiving
  <2>3. /\ UNCHANGED <<fsmAction, ahAction, m_eventQueue, status>>
        /\ UNCHANGED <<schedulerVars, addressVars>>
        /\ sent' \in Packet
    BY <1>2, <1>5 DEF TimeoutWhileReceiving, actionVars
  <2>4. /\ fsmState = "waitClientPacketDone" =>
             \E a \in Address : fsmAction = SendToken(a)
        /\ fsmState \in {"queryAddress", "waitAddressReply"} =>
             fsmAction = QueryAddress
    BY DEF Inv, ChartFollowsAction
  <2> QED
    BY <2>1, <2>2, <2>3, <2>4, QuietStep DEF State
<1>6. CASE ExitMaster
  <2>1. status = "running" /\ m_eventQueue = <<>> /\ status' = "exited"
    BY <1>6 DEF ExitMaster, EventLoop
  <2>2. /\ UNCHANGED <<fsmState, fsmTimer, fsmAction, ahAction, m_eventQueue>>
        /\ UNCHANGED <<schedulerVars, addressVars>>
        /\ sent' \in Packet
    BY <1>2, <1>6 DEF ExitMaster, actionVars, fsmVars
  <2>3. /\ fsmState \in State /\ fsmTimer \in TimerValue
        /\ fsmTimer = Off <=> fsmState = "idle"
    BY DEF Inv, TypeOK, TimerFollowsState
  <2>4. /\ fsmState = "startMaster" => fsmAction = MasterStart
        /\ fsmState \in {"sendingToken", "waitClientPacketDone"} =>
             \E a \in Address : fsmAction = SendToken(a)
        /\ fsmState \in {"queryAddress", "waitAddressReply"} =>
             fsmAction = QueryAddress
    BY DEF Inv, ChartFollowsAction
  <2> QED
    BY <2>1, <2>2, <2>3, <2>4, QuietStep
<1> QED
  BY <1>3, <1>4, <1>5, <1>6

(* The delay timer: it can only expire when nothing is under way. *)
LEMMA DelayActionInv ==
  ASSUME Inv, DelayActionExpires
  PROVE  Inv'
<1>1. /\ status = "running" /\ m_eventQueue = <<>> /\ m_delayAction # Off
      /\ sent' = NoPacket
      /\ UNCHANGED <<fsmState, fsmTimer, m_table, m_freeAddresses, queryTimer>>
  BY DEF DelayActionExpires, EventLoop, Off, fsmVars, addressVars
<1>2. ahAction = DoNothing /\ fsmAction = DoNothing
  BY <1>1 DEF Inv, WakesUpInTime, ChartFollowsAction
<1>3. fsmState = "idle" /\ fsmTimer = Off
  BY <1>2, ActionFacts
  DEF Inv, ChartFollowsAction, TypeOK, State, TimerFollowsState
<1>4. CheckNewAction(DoNothing, Off, m_ready, m_waiting)
  BY <1>2 DEF DelayActionExpires
<1>5. EventsLeft = <<>>
  BY <1>1 DEF EventsLeft
<1>6. /\ m_ready \in Seq(Action) /\ m_waiting \in Seq(WaitingAction)
      /\ Distinct(m_ready, m_waiting) /\ Sorted(m_waiting)
  BY DEF Inv, TypeOK, QueueInv
<1>7. CheckNewActionResult(m_ready, m_waiting)
  BY <1>4, <1>5, <1>6, CheckNewActionLemma
<1>8. \A y : y # DoNothing =>
        (Present(y) <=> InReady(m_ready, y) \/ InWaiting(m_waiting, y))
  BY <1>2 DEF Present, Queued, Delayed, InReady, InWaiting
<1>9. AddressesConserved' /\ OneAddressPerClient'
  BY <1>1 DEF Inv, AddressesConserved, OneAddressPerClient
<1>10. \A a \in Address : a \in DOMAIN m_table' <=>
         InReady(m_ready, SendToken(a)) \/ InWaiting(m_waiting, SendToken(a))
  BY <1>1, <1>8, ActionFacts DEF Inv, TokenForEveryLine
<1>11. InReady(m_ready, QueryAddress) \/ InWaiting(m_waiting, QueryAddress)
         <=> queryTimer' = Off
  BY <1>1, <1>8, ActionFacts DEF Inv, QueryNeverLost
<1>12. /\ DOMAIN m_table' \subseteq Address
       /\ m_table' \in [DOMAIN m_table' -> Line]
       /\ m_freeAddresses' \in Seq(Dynamic)
       /\ sent' \in Packet
       /\ queryTimer' \in TimerValue
  BY <1>1 DEF Inv, TypeOK, Packet
<1> QED
  BY <1>1, <1>3, <1>7, <1>9, <1>10, <1>11, <1>12, ResumeLemma

(* The query timer posts the next query. *)
LEMMA QueryTimerInv ==
  ASSUME Inv, QueryTimerExpires
  PROVE  Inv'
<1>1. /\ m_ready' = AddActionNow(m_ready, QueryAddress)
      /\ queryTimer # Off /\ queryTimer' = Off /\ sent' = NoPacket
      /\ UNCHANGED <<fsmState, fsmTimer, fsmAction, ahAction, m_eventQueue,
                     m_waiting, m_delayAction, m_table, m_freeAddresses,
                     status>>
  BY DEF QueryTimerExpires, Off, fsmVars, actionVars
<1>2. ~Present(QueryAddress)
  BY <1>1 DEF Inv, QueryNeverLost
<1>3. /\ ~InReady(m_ready, QueryAddress) /\ ~InWaiting(m_waiting, QueryAddress)
      /\ ahAction # QueryAddress
  BY <1>2 DEF Present, Queued, Delayed, InReady, InWaiting
<1>4. /\ m_ready \in Seq(Action) /\ m_waiting \in Seq(WaitingAction)
      /\ Distinct(m_ready, m_waiting) /\ Sorted(m_waiting)
      /\ ~InReady(m_ready, ahAction) /\ ~InWaiting(m_waiting, ahAction)
  BY DEF Inv, TypeOK, QueueInv
<1>5. /\ m_ready' \in Seq(Action)
      /\ Distinct(m_ready', m_waiting)
      /\ \A y : InReady(m_ready', y) <=> InReady(m_ready, y) \/ y = QueryAddress
  BY <1>1, <1>3, <1>4, ActionFacts, AddActionNowDistinct
<1>6. TypeOK'
  <2>1. /\ DOMAIN m_table' \subseteq Address
        /\ m_table' \in [DOMAIN m_table' -> Line]
    BY <1>1 DEF Inv, TypeOK
  <2>2. m_eventQueue' \in Seq({"check_new_command"})
    BY <1>1 DEF Inv, TypeOK
  <2> QED
    BY <1>1, <1>5, <2>1, <2>2 DEF Inv, TypeOK, TimerValue, Packet
<1>7. QueueInv'
  <2>1. ~InReady(m_ready', ahAction)
    BY <1>3, <1>4, <1>5
  <2> QED
    BY <1>1, <1>4, <1>5, <2>1
    DEF QueueInv, Distinct, Sorted, InReady, InWaiting
<1>8. \A y : Present(y)' <=> Present(y) \/ y = QueryAddress
  <2>1. \A y : Present(y)' <=> InReady(m_ready', y)
                               \/ InWaiting(m_waiting, y) \/ ahAction = y
    BY <1>1 DEF Present, Queued, Delayed, InReady, InWaiting
  <2>2. \A y : Present(y) <=> InReady(m_ready, y)
                              \/ InWaiting(m_waiting, y) \/ ahAction = y
    BY DEF Present, Queued, Delayed, InReady, InWaiting
  <2> QED
    BY <1>5, <2>1, <2>2
<1>9. TokenForEveryLine' /\ QueryNeverLost'
  BY <1>1, <1>8, ActionFacts DEF Inv, TokenForEveryLine, QueryNeverLost
<1>10. AddressesConserved' /\ OneAddressPerClient'
  BY <1>1 DEF Inv, AddressesConserved, OneAddressPerClient
<1>11. ChartFollowsAction' /\ TimerFollowsState' /\ AbortsOnlyAtStart'
  BY <1>1 DEF Inv, ChartFollowsAction, TimerFollowsState, AbortsOnlyAtStart
<1>12. WakesUpInTime'
  BY <1>1 DEF Inv, WakesUpInTime
<1> QED
  BY <1>6, <1>7, <1>9, <1>10, <1>11, <1>12 DEF Inv

(* One tick: every timer and every due time runs down alike, so the order   *)
(* of the waiting queue and the head start of the delay timer are kept.     *)
LEMMA AgedFacts ==
  /\ \A t \in TimerValue : Aged(t) \in TimerValue /\ (Aged(t) = Off <=> t = Off)
  /\ \A t \in Nat : Aged(t) \in Nat
  /\ \A s, t \in Nat : s <= t => Aged(s) <= Aged(t)
BY DEF Aged, TimerValue, Off

LEMMA TickInv ==
  ASSUME Inv, Tick
  PROVE  Inv'
<1> DEFINE w == AgedWaiting(m_waiting)
<1>1. /\ m_waiting' = w /\ fsmTimer' = Aged(fsmTimer)
      /\ m_delayAction' = Aged(m_delayAction) /\ queryTimer' = Aged(queryTimer)
      /\ sent' = NoPacket
      /\ UNCHANGED <<fsmState, fsmAction, ahAction, m_eventQueue, m_ready,
                     m_table, m_freeAddresses, status>>
  BY DEF Tick, actionVars
<1>2. m_waiting \in Seq(WaitingAction) /\ Len(m_waiting) \in Nat
  BY DEF Inv, TypeOK
<1>3. \A i \in 1 .. Len(m_waiting) :
        m_waiting[i].action \in Action /\ m_waiting[i].left \in Nat
  BY <1>2, WaitingElement
<1>4. /\ w \in Seq(WaitingAction) /\ Len(w) = Len(m_waiting)
      /\ \A i \in 1 .. Len(m_waiting) :
           /\ w[i].action = m_waiting[i].action
           /\ w[i].left = Aged(m_waiting[i].left)
  <2>1. w \in [1 .. Len(m_waiting) -> WaitingAction]
    BY <1>3, AgedFacts DEF AgedWaiting, WaitingAction
  <2>2. w \in Seq(WaitingAction) /\ Len(w) = Len(m_waiting)
    BY <2>1, <1>2, FunctionIsSequence
  <2> QED
    BY <2>2 DEF AgedWaiting
<1> HIDE DEF w
<1>5. \A y : InWaiting(w, y) <=> InWaiting(m_waiting, y)
  BY <1>4 DEF InWaiting
<1>6. Distinct(m_ready, w)
  BY <1>4, <1>5 DEF Inv, QueueInv, Distinct
<1>7. Sorted(w)
  <2> SUFFICES ASSUME NEW i \in 1 .. Len(m_waiting),
                      NEW j \in 1 .. Len(m_waiting), i <= j
               PROVE  w[i].left <= w[j].left
    BY <1>4 DEF Sorted
  <2>1. m_waiting[i].left <= m_waiting[j].left
    BY DEF Inv, QueueInv, Sorted
  <2>2. Aged(m_waiting[i].left) <= Aged(m_waiting[j].left)
    BY <2>1, <1>3, AgedFacts
  <2> QED
    BY <2>2, <1>4
<1>8. TypeOK'
  <2>1. /\ DOMAIN m_table' \subseteq Address
        /\ m_table' \in [DOMAIN m_table' -> Line]
    BY <1>1 DEF Inv, TypeOK
  <2>2. m_eventQueue' \in Seq({"check_new_command"})
    BY <1>1 DEF Inv, TypeOK
  <2>3. /\ fsmTimer' \in TimerValue /\ m_delayAction' \in TimerValue
        /\ queryTimer' \in TimerValue
    BY <1>1, AgedFacts DEF Inv, TypeOK
  <2> QED
    BY <1>1, <1>4, <2>1, <2>2, <2>3 DEF Inv, TypeOK, Packet
<1>9. QueueInv'
  BY <1>1, <1>5, <1>6, <1>7
  DEF Inv, QueueInv, Distinct, Sorted, InReady, InWaiting
<1>10. \A y : Present(y)' <=> Present(y)
  BY <1>1, <1>5 DEF Present, Queued, Delayed, InWaiting
<1>11. queryTimer' = Off <=> queryTimer = Off
  BY <1>1, AgedFacts DEF Inv, TypeOK
<1>12. TokenForEveryLine' /\ QueryNeverLost'
  BY <1>1, <1>10, <1>11 DEF Inv, TokenForEveryLine, QueryNeverLost
<1>13. AddressesConserved' /\ OneAddressPerClient'
  BY <1>1 DEF Inv, AddressesConserved, OneAddressPerClient
<1>14. ChartFollowsAction' /\ AbortsOnlyAtStart'
  BY <1>1 DEF Inv, ChartFollowsAction, AbortsOnlyAtStart
<1>15. TimerFollowsState'
  BY <1>1, AgedFacts DEF Inv, TypeOK, TimerFollowsState
<1>16. WakesUpInTime'
  <2>1. m_delayAction' # Off <=> m_delayAction # Off
    BY <1>1, AgedFacts DEF Inv, TypeOK
  <2>2. ASSUME m_delayAction # Off,
               NEW i \in 1 .. Len(m_waiting), m_delayAction <= m_waiting[i].left
        PROVE  m_delayAction' <= w[i].left
    <3>1. m_delayAction \in Nat
      BY <2>2 DEF Inv, TypeOK, TimerValue
    <3> QED
      BY <1>1, <1>3, <1>4, <2>2, <3>1, AgedFacts
  <2> QED
    BY <1>1, <1>4, <2>1, <2>2 DEF Inv, WakesUpInTime
<1> QED
  BY <1>8, <1>9, <1>12, <1>13, <1>14, <1>15, <1>16 DEF Inv

-----------------------------------------------------------------------------
(* Every step of the master, and every step that is not one of it. *)
LEMMA NextInv == Inv /\ [Next]_vars => Inv'
<1> SUFFICES ASSUME Inv, [Next]_vars PROVE Inv'
  OBVIOUS
<1>1. CASE DecodeAction
  BY <1>1, DecodeInv
<1>2. CASE RxMasterStartStop \/ MasterStartTimeoutExpires
  BY <1>2, FinishStartInv
<1>3. CASE RxClientPacket \/ RxReturnToken \/ TokenTimeoutExpires
  BY <1>3, FinishTokenInv DEF RxClientPacket, RxReturnToken, TokenTimeoutExpires
<1>4. CASE QueryTimeoutExpires \/ AddressReplyTimeoutExpires
  BY <1>4, FinishQueryInv DEF QueryTimeoutExpires, AddressReplyTimeoutExpires
<1>5. CASE \E uid \in UniqueIds : RxAddressRequest(uid)
  BY <1>5, AddressRequestInv
<1>6. CASE RxGrantToken \/ GrantTokenTimeoutExpires
           \/ TimeoutWhileReceiving \/ ExitMaster
  BY <1>6, ChartStepInv
<1>7. CASE DelayActionExpires
  BY <1>7, DelayActionInv
<1>8. CASE QueryTimerExpires
  BY <1>8, QueryTimerInv
<1>9. CASE Tick
  BY <1>9, TickInv
<1>10. CASE UNCHANGED vars
  BY <1>10
  DEF vars, fsmVars, actionVars, schedulerVars, addressVars, Inv, TypeOK,
      AbortsOnlyAtStart, QueueInv, Distinct, Sorted, InReady, InWaiting,
      TokenForEveryLine, QueryNeverLost, Present, Queued, Delayed,
      AddressesConserved, OneAddressPerClient, ChartFollowsAction,
      WakesUpInTime, TimerFollowsState
<1> QED
  BY <1>1, <1>2, <1>3, <1>4, <1>5, <1>6, <1>7, <1>8, <1>9, <1>10
  DEF Next, Receive, TimerExpires

(* The invariant holds throughout, for every instance of the master. *)
THEOREM Invariance == Spec => []Inv
<1>1. Init => Inv
  BY InitInv
<1>2. Inv /\ [Next]_vars => Inv'
  BY NextInv
<1> QED
  BY <1>1, <1>2, PTL DEF Spec

(* Every variable of the master keeps its type: the queues hold actions,    *)
(* the table holds rows of known addresses, the free stack holds dynamic    *)
(* addresses (MasterScheduler.h, AddressLine.h, DynamicHandler.h).          *)
THEOREM TypeCorrect == Spec => []TypeOK
<1>1. Inv => TypeOK
  BY DEF Inv
<1> QED
  BY <1>1, Invariance, PTL

(* No action is ever queued or under way twice, whatever the addresses, the *)
(* delays and the packets (ActionHandler.cpp:73-97, MasterScheduler.h).     *)
THEOREM ActionsAreUnique == Spec => []ActionOnce
<1>1. Inv => ActionOnce
  BY DEF Inv, QueueInv, ActionOnce, Distinct, Queued, Delayed, InReady,
         InWaiting
<1> QED
  BY <1>1, Invariance, PTL

(* Rows and tokens match one to one: updateAddressLine() and                *)
(* receivedAddressRequest() never lose an address from the polling, and     *)
(* never leave a token for an address without a row.                        *)
THEOREM PollingIsComplete == Spec => []TokenForEveryLine
<1>1. Inv => TokenForEveryLine
  BY DEF Inv
<1> QED
  BY <1>1, Invariance, PTL

(* The address query is scheduled or its timer runs (DynamicHandler.cpp:    *)
(* 117-125), however a query ends.                                          *)
THEOREM QuerySurvives == Spec => []QueryNeverLost
<1>1. Inv => QueryNeverLost
  BY DEF Inv
<1> QED
  BY <1>1, Invariance, PTL

(* The free stack and the table share out the dynamic addresses             *)
(* (allocAddress and updateAddressLine, DynamicHandler.cpp:88-143).         *)
THEOREM AddressSafety == Spec => []AddressesConserved
<1>1. Inv => AddressesConserved
  BY DEF Inv
<1> QED
  BY <1>1, Invariance, PTL

(* A unique id has at most one dynamic address, however often it asks       *)
(* (receivedAddressRequest, DynamicHandler.cpp:70-86).                      *)
THEOREM ClientSafety == Spec => []OneAddressPerClient
<1>1. Inv => OneAddressPerClient
  BY DEF Inv
<1> QED
  BY <1>1, Invariance, PTL

(* The state chart and the action handler never disagree about the action   *)
(* under way (MasterFSM.cpp, ActionHandler.cpp).                            *)
THEOREM ChartSafety == Spec => []ChartFollowsAction
<1>1. Inv => ChartFollowsAction
  BY DEF Inv
<1> QED
  BY <1>1, Invariance, PTL

(* An idle master always has its delay timer armed, no later than its first *)
(* due token (ActionHandler.cpp:86-95).                                     *)
THEOREM IdleMasterWakesUp == Spec => []WakesUpInTime
<1>1. Inv => WakesUpInTime
  BY DEF Inv
<1> QED
  BY <1>1, Invariance, PTL

(* The start packet that is not heard back is the only way to an assertion  *)
(* of src/master/ or to a missing row, for every instance.                  *)
THEOREM AbortSafety == Spec => []AbortsOnlyAtStart
<1>1. Inv => AbortsOnlyAtStart
  BY DEF Inv
<1> QED
  BY <1>1, Invariance, PTL

(* So a master that hears its own master_started packet never dies.         *)
THEOREM MasterNeverAborts ==
  ASSUME "master_started" \notin LostEchoes
  PROVE  Spec => [](status \in {"running", "exited"})
<1>1. AbortsOnlyAtStart => status \in {"running", "exited"}
  BY DEF AbortsOnlyAtStart
<1> QED
  BY <1>1, AbortSafety, PTL

-----------------------------------------------------------------------------
(* Timers that run are not started again. *)

(* Reporting a result starts the query timer only when it does not run. *)
LEMMA ReportKeepsQueryTimer ==
  ASSUME Inv, NEW result, ReportActionResult(result),
         result = "address_query_done" => ahAction = QueryAddress,
         queryTimer > 0
  PROVE  UNCHANGED queryTimer
<1>1. CASE fsmAction = DoNothing
  BY <1>1 DEF ReportActionResult, addressVars
<1>2. CASE fsmAction # DoNothing /\ result = "address_query_done"
  BY <1>2 DEF Inv, QueryNeverLost, Present, Off
<1>3. CASE fsmAction # DoNothing /\ result = "ok"
  BY <1>3 DEF ReportActionResult, addressVars
<1>4. CASE fsmAction # DoNothing /\ result = "timeout"
  BY <1>4 DEF ReportActionResult, Abort, addressVars
<1>5. CASE fsmAction # DoNothing
           /\ result \notin {"address_query_done", "ok", "timeout"}
  <2>1. UpdateAddressLine(ahAction.addr, NewLineState(result))
    BY <1>5 DEF ReportActionResult
  <2> QED
    BY <2>1 DEF UpdateAddressLine, Abort, addressVars
<1> QED
  BY <1>1, <1>2, <1>3, <1>4, <1>5

(* An action is under way while an event waits or the chart is not in Idle. *)
LEMMA NoDelayUnderWay ==
  ASSUME Inv, m_eventQueue # <<>> \/ fsmState # "idle"
  PROVE  m_delayAction = Off
<1>1. ahAction # DoNothing
  BY ActionFacts DEF Inv, ChartFollowsAction, TypeOK, State
<1> QED
  BY <1>1, UnderWay

LEMMA TimerStep ==
  ASSUME Inv, Next, ~Tick
  PROVE  /\ m_delayAction > 0 => UNCHANGED m_delayAction
         /\ queryTimer > 0 => UNCHANGED queryTimer
<1>1. CASE DecodeAction
  <2>1. m_eventQueue # <<>>
    BY <1>1 DEF DecodeAction, DecodeMasterStart, DecodeQueryAddress,
                DecodeSendToken, DecodeOwnTokenPacket, DecodeOwnTokenEmpty,
                Decode
  <2>2. ~(m_delayAction > 0)
    BY <2>1, NoDelayUnderWay DEF Off
  <2>3. CASE DecodeOwnTokenEmpty
    BY <2>2, <2>3, ReportKeepsQueryTimer DEF DecodeOwnTokenEmpty
  <2>4. CASE ~DecodeOwnTokenEmpty
    BY <1>1, <2>2, <2>4
    DEF DecodeAction, DecodeMasterStart, DecodeQueryAddress, DecodeSendToken,
        DecodeOwnTokenPacket, Begin, addressVars
  <2> QED
    BY <2>3, <2>4
<1>2. ASSUME NEW state \in State \ {"idle"}, Waiting(state),
             NEW result, Finish(result),
             result = "address_query_done"
               => state \in {"queryAddress", "waitAddressReply"}
      PROVE  /\ ~(m_delayAction > 0)
             /\ queryTimer > 0 => UNCHANGED queryTimer
  <2>1. ~(m_delayAction > 0)
    BY <1>2, NoDelayUnderWay DEF Off, Waiting
  <2>2. result = "address_query_done" => ahAction = QueryAddress
    BY <1>2 DEF Inv, ChartFollowsAction, Waiting
  <2> QED
    BY <1>2, <2>1, <2>2, ReportKeepsQueryTimer DEF Finish
<1>3. CASE RxMasterStartStop \/ MasterStartTimeoutExpires
           \/ RxClientPacket \/ RxReturnToken \/ TokenTimeoutExpires
           \/ QueryTimeoutExpires \/ AddressReplyTimeoutExpires
  BY <1>2, <1>3
  DEF RxMasterStartStop, MasterStartTimeoutExpires, RxClientPacket,
      RxReturnToken, TokenTimeoutExpires, QueryTimeoutExpires,
      AddressReplyTimeoutExpires, State
<1>4. CASE RxGrantToken \/ GrantTokenTimeoutExpires \/ TimeoutWhileReceiving
           \/ ExitMaster
  BY <1>4 DEF RxGrantToken, GrantTokenTimeoutExpires, TimeoutWhileReceiving,
              ExitMaster, schedulerVars, addressVars
<1>5. CASE \E uid \in UniqueIds : RxAddressRequest(uid)
  BY <1>5 DEF RxAddressRequest
<1>6. CASE DelayActionExpires
  BY <1>6 DEF DelayActionExpires, addressVars
<1>7. CASE QueryTimerExpires
  BY <1>7 DEF QueryTimerExpires
<1> QED
  BY <1>1, <1>3, <1>4, <1>5, <1>6, <1>7 DEF Next, Receive, TimerExpires

(* No timer of the action handler or of the address handler is started      *)
(* while it runs, for every instance: the move assignment of                *)
(* TimeServiceIf::Timer, which forgets a timer without cancelling it        *)
(* (TimeServiceIf.h:58-63), never meets one that is armed.                  *)
THEOREM TimersSurvive == Spec => TimersAreNotReplaced
<1> DEFINE Kept == /\ m_delayAction > 0 => UNCHANGED m_delayAction
                   /\ queryTimer > 0 => UNCHANGED queryTimer
<1>1. Inv /\ [Next]_vars => [Tick \/ Kept]_vars
  BY TimerStep
<1> QED
  BY <1>1, Invariance, PTL DEF Spec, TimersAreNotReplaced
=============================================================================
