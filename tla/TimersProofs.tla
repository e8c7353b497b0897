---------------------------- MODULE TimersProofs ----------------------------
(***************************************************************************)
(* Proofs about the lifetime of watcher objects, for every number of       *)
(* watchers and handles.                                                   *)
(***************************************************************************)
EXTENDS Timers, TLAPS

Created == {w \in Watcher : kind[w] # "unused"}
Armed == heap.registered \cup heap.pending

(***************************************************************************)
(* The inductive invariant.                                                *)
(***************************************************************************)

(* Only objects that were created occur anywhere, and handles refer to     *)
(* timers of their own class.                                              *)
OnlyCreated ==
  /\ heap.live \cup called \cup disarmed \subseteq Created
  /\ running \in Created \cup {None}
  /\ \A h \in Handle : m_timer[h] # None => kind[m_timer[h]] = "service"
  /\ m_tokenTimeout # None => kind[m_tokenTimeout] = "timeout"

(* A shared pointer keeps its object, what libev knows keeps itself, and   *)
(* what nobody refers to is gone.                                          *)
References ==
  /\ heap.self \subseteq heap.live
  /\ Armed \subseteq heap.self
  /\ heap.live \subseteq heap.self \cup Held(m_timer, m_tokenTimeout)
  /\ heap.active = {w \in Armed : IsTimer(w)}

(* An object that keeps itself is armed or in its callback; the exception  *)
(* is a cancelled timer of TimeServiceEv.                                  *)
SelfInv ==
  /\ \A w \in heap.self :
       \/ w \in Armed \cup {running}
       \/ kind[w] = "service" /\ w \in disarmed
  /\ \A w \in heap.pending \cup {running} :
       w # None /\ ~IsTimer(w) => w \in heap.registered

(* The object whose callback runs. *)
CallbackInv ==
  /\ ~m_timeoutHelper => m_tokenTimeout = None
  /\ running # None =>
       /\ kind[running] # "service" => running \in heap.self
       /\ kind[running] = "service" =>
            (phase = "fkn" <=> running \in heap.self)
       /\ running # m_tokenTimeout
       /\ IsTimer(running) => running \notin Armed

(* A timer is called at most once, and not after it was cancelled. *)
SilenceInv ==
  \A w \in heap.active :
    /\ w \notin called
    /\ w \in disarmed => kind[w] = "timeout" /\ ~m_timeoutHelper

Inv ==
  /\ TypeOK
  /\ OnlyCreated
  /\ References
  /\ SelfInv
  /\ CallbackInv
  /\ SilenceInv

-----------------------------------------------------------------------------
(* What the operations do to the objects, member by member.                *)

LEMMA NewTimerFacts ==
  ASSUME NEW p \in Heap, NEW w \in Watcher
  PROVE  /\ NewTimer(p, w) \in Heap
         /\ NewTimer(p, w).live = p.live \cup {w}
         /\ NewTimer(p, w).self = p.self \cup {w}
         /\ NewTimer(p, w).active = p.active \cup {w}
         /\ NewTimer(p, w).registered = p.registered \cup {w}
         /\ NewTimer(p, w).pending = p.pending
BY DEF NewTimer, EvStart, Heap

LEMMA NewWatchFacts ==
  ASSUME NEW p \in Heap, NEW w \in Watcher
  PROVE  /\ NewWatch(p, w) \in Heap
         /\ NewWatch(p, w).live = p.live \cup {w}
         /\ NewWatch(p, w).self = p.self \cup {w}
         /\ NewWatch(p, w).active = p.active
         /\ NewWatch(p, w).registered = p.registered \cup {w}
         /\ NewWatch(p, w).pending = p.pending
BY DEF NewWatch, EvStart, Heap

LEMMA EvStopFacts ==
  ASSUME NEW p \in Heap, NEW w
  PROVE  /\ EvStop(p, w) \in Heap
         /\ EvStop(p, w).live = p.live
         /\ EvStop(p, w).self = p.self
         /\ EvStop(p, w).active = p.active
         /\ EvStop(p, w).registered = p.registered \ {w}
         /\ EvStop(p, w).pending = p.pending \ {w}
BY DEF EvStop, Heap

LEMMA CancelFacts ==
  ASSUME NEW p \in Heap, NEW w
  PROVE  /\ Cancel(p, w) \in Heap
         /\ Cancel(p, w).live = p.live
         /\ Cancel(p, w).self = p.self
         /\ Cancel(p, w).active = p.active \ {w}
         /\ Cancel(p, w).registered = p.registered \ {w}
         /\ Cancel(p, w).pending = p.pending \ {w}
BY EvStopFacts DEF Cancel, Heap

LEMMA DropSelfFacts ==
  ASSUME NEW p \in Heap, NEW w
  PROVE  /\ DropSelf(p, w) \in Heap
         /\ DropSelf(p, w).live = p.live
         /\ DropSelf(p, w).self = p.self \ {w}
         /\ DropSelf(p, w).active = p.active
         /\ DropSelf(p, w).registered = p.registered
         /\ DropSelf(p, w).pending = p.pending
BY DEF DropSelf, Heap

(* Freeing what nobody refers to never takes anything from libev, because  *)
(* what libev knows refers to itself.                                      *)
LEMMA ReleaseFacts ==
  ASSUME NEW p \in Heap, NEW held,
         p.active \subseteq p.registered \cup p.pending,
         p.registered \cup p.pending \subseteq p.self
  PROVE  /\ Release(p, held) \in Heap
         /\ Release(p, held).live = p.live \cap (p.self \cup held)
         /\ Release(p, held).self = p.self
         /\ Release(p, held).active = p.active
         /\ Release(p, held).registered = p.registered
         /\ Release(p, held).pending = p.pending
<1> DEFINE gone == {w \in p.live : w \notin p.self \cup held}
<1>1. /\ p.live \ gone = p.live \cap (p.self \cup held)
      /\ p.active \ gone = p.active
      /\ p.registered \ (gone \cap p.active) = p.registered
      /\ p.pending \ (gone \cap p.active) = p.pending
  OBVIOUS
<1>2. Release(p, held) = [p EXCEPT !.live = p.live \ gone,
                                   !.active = p.active \ gone,
                                   !.registered = p.registered \ (gone \cap p.active),
                                   !.pending = p.pending \ (gone \cap p.active)]
  BY DEF Release, Heap
<1> HIDE DEF gone
<1> QED
  BY <1>1, <1>2 DEF Heap

-----------------------------------------------------------------------------
(* Initially and in every step.                                            *)

LEMMA InvInit == Init => Inv
<1> SUFFICES ASSUME Init PROVE Inv
  OBVIOUS
<1>1. TypeOK
  BY DEF Init, TypeOK, Heap, Kind
<1>2. /\ heap.live = {} /\ heap.self = {} /\ heap.active = {}
      /\ heap.registered = {} /\ heap.pending = {}
  BY DEF Init
<1>3. OnlyCreated /\ References /\ SelfInv
  BY <1>2 DEF Init, OnlyCreated, References, SelfInv, Armed, Created, Held
<1>4. CallbackInv /\ SilenceInv
  BY <1>2 DEF Init, CallbackInv, SilenceInv, Armed
<1> QED
  BY <1>1, <1>3, <1>4 DEF Inv

(* A new timer of either class: the object that its handle referred to is  *)
(* not cancelled, but stays while it is armed.                             *)
LEMMA ServiceMakeTimeoutStep ==
  ASSUME Inv, NEW h \in Handle, NEW w \in Watcher, ServiceMakeTimeout(h, w)
  PROVE  Inv'
<1> DEFINE p == NewTimer(heap, w)
           held == Held(m_timer', m_tokenTimeout)
<1>1. /\ heap \in Heap /\ kind \in [Watcher -> Kind]
      /\ m_timer \in [Handle -> Watcher \cup {None}]
  BY DEF Inv, TypeOK
<1>2. /\ p \in Heap
      /\ p.live = heap.live \cup {w} /\ p.self = heap.self \cup {w}
      /\ p.active = heap.active \cup {w}
      /\ p.registered = heap.registered \cup {w}
      /\ p.pending = heap.pending
  BY <1>1, NewTimerFacts
<1> HIDE DEF p
<1>3. /\ heap' \in Heap
      /\ heap'.live = p.live \cap (p.self \cup held) /\ heap'.self = p.self
      /\ heap'.active = p.active /\ heap'.registered = p.registered
      /\ heap'.pending = p.pending
  BY <1>2, ReleaseFacts DEF Inv, References, Armed, ServiceMakeTimeout, p
<1>4. /\ kind[w] = "unused"
      /\ kind' = [kind EXCEPT ![w] = "service"]
      /\ m_timer' = [m_timer EXCEPT ![h] = w]
      /\ UNCHANGED <<m_tokenTimeout, m_timeoutHelper, running, phase, loop,
                     called, disarmed>>
  BY DEF ServiceMakeTimeout, MoveAssigned
<1>5. w \notin heap.live \cup heap.self \cup heap.active \cup called \cup disarmed
        \cup {m_tokenTimeout, running}
  BY <1>4, NoneAssumption DEF Inv, OnlyCreated, References, Created, Armed
<1>6. TypeOK'
  BY <1>1, <1>3, <1>4 DEF Inv, TypeOK, Kind
<1>7. OnlyCreated'
  BY <1>1, <1>2, <1>3, <1>4, <1>5, NoneAssumption
  DEF Inv, TypeOK, OnlyCreated, Created
<1>8. References'
  BY <1>1, <1>2, <1>3, <1>4, <1>5
  DEF Inv, References, Armed, IsTimer, Held, OnlyCreated, Created, Heap
<1>9. SelfInv'
  BY <1>1, <1>2, <1>3, <1>4, <1>5
  DEF Inv, SelfInv, References, Armed, IsTimer, OnlyCreated, Created, Heap
<1>10. CallbackInv' /\ SilenceInv'
  BY <1>1, <1>2, <1>3, <1>4, <1>5
  DEF Inv, CallbackInv, SilenceInv, References, Armed, IsTimer, OnlyCreated,
      Created, Heap
<1> QED
  BY <1>6, <1>7, <1>8, <1>9, <1>10 DEF Inv

(* A cancelled timer of TimeServiceEv still refers to itself.               *)
LEMMA CancelTimerStep ==
  ASSUME Inv, NEW h \in Handle, CancelTimer(h)
  PROVE  Inv'
<1> DEFINE p == Cancel(heap, m_timer[h])
           held == Held(m_timer', m_tokenTimeout)
<1>1. /\ heap \in Heap /\ kind \in [Watcher -> Kind]
      /\ m_timer \in [Handle -> Watcher \cup {None}]
      /\ m_tokenTimeout \in Watcher \cup {None}
      /\ running \in Watcher \cup {None}
  BY DEF Inv, TypeOK
<1>2. /\ p \in Heap
      /\ p.live = heap.live /\ p.self = heap.self
      /\ p.active = heap.active \ {m_timer[h]}
      /\ p.registered = heap.registered \ {m_timer[h]}
      /\ p.pending = heap.pending \ {m_timer[h]}
  BY <1>1, CancelFacts
<1> HIDE DEF p
<1>3. /\ heap' \in Heap
      /\ heap'.live = p.live \cap (p.self \cup held) /\ heap'.self = p.self
      /\ heap'.active = p.active /\ heap'.registered = p.registered
      /\ heap'.pending = p.pending
  BY <1>2, ReleaseFacts DEF Inv, References, Armed, CancelTimer, p
<1>4. /\ m_timer[h] # None
      /\ m_timer' = [m_timer EXCEPT ![h] = None]
      /\ disarmed' = disarmed \cup {m_timer[h]}
      /\ UNCHANGED <<kind, m_tokenTimeout, m_timeoutHelper, running, phase,
                     loop, called>>
  BY DEF CancelTimer
<1>6. TypeOK' /\ OnlyCreated'
  BY <1>1, <1>2, <1>3, <1>4, NoneAssumption
  DEF Inv, TypeOK, Kind, OnlyCreated, Created, References, Armed, Heap
<1>7. References' /\ SelfInv'
  BY <1>1, <1>2, <1>3, <1>4, NoneAssumption
  DEF Inv, References, SelfInv, CallbackInv, Armed, IsTimer, Held,
      OnlyCreated, Created, Heap
<1>8. CallbackInv' /\ SilenceInv'
  BY <1>1, <1>2, <1>3, <1>4, NoneAssumption
  DEF Inv, CallbackInv, SilenceInv, References, Armed, IsTimer, OnlyCreated,
      Created, Heap
<1> QED
  BY <1>6, <1>7, <1>8 DEF Inv

(* The copy of a handle cancels the timer that the target had, if any.      *)
LEMMA CopyTimerStep ==
  ASSUME Inv, NEW h \in Handle, NEW source \in Handle, 
         CopyTimer(h, source)
  PROVE  Inv'
<1>1. /\ heap \in Heap /\ kind \in [Watcher -> Kind]
      /\ m_timer \in [Handle -> Watcher \cup {None}]
      /\ m_tokenTimeout \in Watcher \cup {None}
      /\ running \in Watcher \cup {None}
  BY DEF Inv, TypeOK
<1>2. CASE /\ m_timer[h] # None
           /\ heap' = Release(Cancel(heap, m_timer[h]),
                              Held(m_timer', m_tokenTimeout))
           /\ disarmed' = disarmed \cup {m_timer[h]}
  <2> DEFINE p == Cancel(heap, m_timer[h])
             held == Held(m_timer', m_tokenTimeout)
  <2>2. /\ p \in Heap
        /\ p.live = heap.live /\ p.self = heap.self
        /\ p.active = heap.active \ {m_timer[h]}
        /\ p.registered = heap.registered \ {m_timer[h]}
        /\ p.pending = heap.pending \ {m_timer[h]}
    BY <1>1, CancelFacts
  <2>0. heap' = Release(p, held)
    BY <1>2
  <2> HIDE DEF p
  <2>3. /\ heap' \in Heap
        /\ heap'.live = p.live \cap (p.self \cup held) /\ heap'.self = p.self
        /\ heap'.active = p.active /\ heap'.registered = p.registered
        /\ heap'.pending = p.pending
    BY <2>0, <2>2, ReleaseFacts DEF Inv, References, Armed
  <2>4. /\ m_timer[h] # None
        /\ m_timer' = [m_timer EXCEPT ![h] = m_timer[source]]
        /\ disarmed' = disarmed \cup {m_timer[h]}
        /\ UNCHANGED <<kind, m_tokenTimeout, m_timeoutHelper, running, phase,
                       loop, called>>
    BY <1>2 DEF CopyTimer
  <2>6. TypeOK' /\ OnlyCreated'
    BY <1>1, <2>2, <2>3, <2>4, NoneAssumption
    DEF Inv, TypeOK, Kind, OnlyCreated, Created, References, Armed, Heap
  <2>7. References' /\ SelfInv'
    BY <1>1, <2>2, <2>3, <2>4, NoneAssumption
    DEF Inv, References, SelfInv, CallbackInv, Armed, IsTimer, Held,
        OnlyCreated, Created, Heap
  <2>8. CallbackInv' /\ SilenceInv'
    BY <1>1, <2>2, <2>3, <2>4, NoneAssumption
    DEF Inv, CallbackInv, SilenceInv, References, Armed, IsTimer, OnlyCreated,
        Created, Heap
  <2> QED
    BY <2>6, <2>7, <2>8 DEF Inv
<1>3. CASE m_timer[h] = None /\ UNCHANGED <<heap, disarmed>>
  <2>1. /\ m_timer' = [m_timer EXCEPT ![h] = m_timer[source]]
        /\ UNCHANGED <<kind, m_tokenTimeout, m_timeoutHelper, running, phase,
                       loop, called>>
    BY DEF CopyTimer
  <2>2. TypeOK' /\ OnlyCreated'
    BY <1>1, <1>3, <2>1 DEF Inv, TypeOK, OnlyCreated, Created
  <2>3. References' /\ SelfInv'
    <3>1. Held(m_timer, m_tokenTimeout) \ {None} \subseteq Held(m_timer', m_tokenTimeout)
      BY <1>1, <1>3, <2>1 DEF Held
    <3>2. heap.live \subseteq Watcher
      BY <1>1 DEF Heap
    <3>3. heap.live \subseteq heap.self \cup Held(m_timer', m_tokenTimeout)
      BY <3>1, <3>2, NoneAssumption DEF Inv, References
    <3> QED
      BY <1>3, <2>1, <3>3 DEF Inv, References, SelfInv, Armed, IsTimer
  <2>4. CallbackInv' /\ SilenceInv'
    BY <1>1, <1>3, <2>1
    DEF Inv, CallbackInv, SilenceInv, Armed, IsTimer, Created
  <2> QED
    BY <2>2, <2>3, <2>4 DEF Inv
<1> QED
  BY <1>2, <1>3 DEF CopyTimer

(* A new timeout of the utility class Timer.                               *)
LEMMA MakeTimeoutStep ==
  ASSUME Inv, NEW w \in Watcher, MakeTimeout(w)
  PROVE  Inv'
<1> DEFINE p == NewTimer(heap, w)
           held == Held(m_timer, m_tokenTimeout')
<1>1. /\ heap \in Heap /\ kind \in [Watcher -> Kind]
      /\ m_timer \in [Handle -> Watcher \cup {None}]
      /\ m_tokenTimeout \in Watcher \cup {None}
      /\ running \in Watcher \cup {None}
  BY DEF Inv, TypeOK
<1>2. /\ p \in Heap
      /\ p.live = heap.live \cup {w} /\ p.self = heap.self \cup {w}
      /\ p.active = heap.active \cup {w}
      /\ p.registered = heap.registered \cup {w}
      /\ p.pending = heap.pending
  BY <1>1, NewTimerFacts
<1> HIDE DEF p
<1>3. /\ heap' \in Heap
      /\ heap'.live = p.live \cap (p.self \cup held) /\ heap'.self = p.self
      /\ heap'.active = p.active /\ heap'.registered = p.registered
      /\ heap'.pending = p.pending
  BY <1>2, ReleaseFacts DEF Inv, References, Armed, MakeTimeout, p
<1>4. /\ kind[w] = "unused" /\ m_timeoutHelper
      /\ kind' = [kind EXCEPT ![w] = "timeout"]
      /\ m_tokenTimeout' = w
      /\ UNCHANGED <<m_timer, m_timeoutHelper, running, phase, loop, called,
                     disarmed>>
  BY DEF MakeTimeout
<1>6. TypeOK' /\ OnlyCreated'
  BY <1>1, <1>2, <1>3, <1>4, NoneAssumption
  DEF Inv, TypeOK, Kind, OnlyCreated, Created, References, Armed, Heap
<1>7. References' /\ SelfInv'
  BY <1>1, <1>2, <1>3, <1>4, NoneAssumption
  DEF Inv, References, SelfInv, CallbackInv, Armed, IsTimer, Held,
      OnlyCreated, Created, Heap
<1>8. CallbackInv' /\ SilenceInv'
  BY <1>1, <1>2, <1>3, <1>4, NoneAssumption
  DEF Inv, CallbackInv, SilenceInv, References, Armed, IsTimer, OnlyCreated,
      Created, Heap
<1> QED
  BY <1>6, <1>7, <1>8 DEF Inv

(* A new IoWatcher or SignalWatcher.                                       *)
LEMMA OnEventStep ==
  ASSUME Inv, NEW w \in Watcher, OnEvent(w)
  PROVE  Inv'
<1> DEFINE p == NewWatch(heap, w)
           held == Held(m_timer, m_tokenTimeout)
<1>1. /\ heap \in Heap /\ kind \in [Watcher -> Kind]
      /\ m_timer \in [Handle -> Watcher \cup {None}]
      /\ m_tokenTimeout \in Watcher \cup {None}
      /\ running \in Watcher \cup {None}
  BY DEF Inv, TypeOK
<1>2. /\ p \in Heap
      /\ p.live = heap.live \cup {w} /\ p.self = heap.self \cup {w}
      /\ p.active = heap.active
      /\ p.registered = heap.registered \cup {w}
      /\ p.pending = heap.pending
  BY <1>1, NewWatchFacts
<1> HIDE DEF p
<1>3. /\ heap' \in Heap
      /\ heap'.live = p.live \cap (p.self \cup held) /\ heap'.self = p.self
      /\ heap'.active = p.active /\ heap'.registered = p.registered
      /\ heap'.pending = p.pending
  BY <1>2, ReleaseFacts DEF Inv, References, Armed, OnEvent, p
<1>4. /\ kind[w] = "unused"
      /\ kind' = [kind EXCEPT ![w] = "watch"]
      /\ UNCHANGED <<m_timer, m_tokenTimeout, m_timeoutHelper, running, phase,
                     loop, called, disarmed>>
  BY DEF OnEvent
<1>6. TypeOK' /\ OnlyCreated'
  BY <1>1, <1>2, <1>3, <1>4, NoneAssumption
  DEF Inv, TypeOK, Kind, OnlyCreated, Created, References, Armed, Heap
<1>7. References' /\ SelfInv'
  BY <1>1, <1>2, <1>3, <1>4, NoneAssumption
  DEF Inv, References, SelfInv, CallbackInv, Armed, IsTimer, Held,
      OnlyCreated, Created, Heap
<1>8. CallbackInv' /\ SilenceInv'
  BY <1>1, <1>2, <1>3, <1>4, NoneAssumption
  DEF Inv, CallbackInv, SilenceInv, References, Armed, IsTimer, OnlyCreated,
      Created, Heap
<1> QED
  BY <1>6, <1>7, <1>8 DEF Inv

(* A cancelled timeout drops the reference to itself.                      *)
LEMMA CleanTimeoutStep ==
  ASSUME Inv, CleanTimeout
  PROVE  Inv'
<1> DEFINE p == DropSelf(Cancel(heap, m_tokenTimeout), m_tokenTimeout)
           held == Held(m_timer, None)
<1>1. /\ heap \in Heap /\ kind \in [Watcher -> Kind]
      /\ m_timer \in [Handle -> Watcher \cup {None}]
      /\ m_tokenTimeout \in Watcher \cup {None}
      /\ running \in Watcher \cup {None}
  BY DEF Inv, TypeOK
<1>2. /\ p \in Heap
      /\ p.live = heap.live /\ p.self = heap.self \ {m_tokenTimeout}
      /\ p.active = heap.active \ {m_tokenTimeout}
      /\ p.registered = heap.registered \ {m_tokenTimeout}
      /\ p.pending = heap.pending \ {m_tokenTimeout}
  BY <1>1, CancelFacts, DropSelfFacts
<1> HIDE DEF p
<1>3. /\ heap' \in Heap
      /\ heap'.live = p.live \cap (p.self \cup held) /\ heap'.self = p.self
      /\ heap'.active = p.active /\ heap'.registered = p.registered
      /\ heap'.pending = p.pending
  BY <1>2, ReleaseFacts DEF Inv, References, Armed, CleanTimeout, p
<1>4. /\ m_tokenTimeout # None
      /\ m_tokenTimeout' = None
      /\ disarmed' = disarmed \cup {m_tokenTimeout}
      /\ UNCHANGED <<kind, m_timer, m_timeoutHelper, running, phase, loop,
                     called>>
  BY DEF CleanTimeout
<1>6. TypeOK' /\ OnlyCreated'
  BY <1>1, <1>2, <1>3, <1>4, NoneAssumption
  DEF Inv, TypeOK, Kind, OnlyCreated, Created, References, Armed, Heap
<1>7. References' /\ SelfInv'
  BY <1>1, <1>2, <1>3, <1>4, NoneAssumption
  DEF Inv, References, SelfInv, CallbackInv, Armed, IsTimer, Held,
      OnlyCreated, Created, Heap
<1>8. CallbackInv' /\ SilenceInv'
  BY <1>1, <1>2, <1>3, <1>4, NoneAssumption
  DEF Inv, CallbackInv, SilenceInv, References, Armed, IsTimer, OnlyCreated,
      Created, Heap
<1> QED
  BY <1>6, <1>7, <1>8 DEF Inv

(* The timeouts of a destroyed Timer stay armed.                           *)
LEMMA DestroyTimerStep ==
  ASSUME Inv, DestroyTimer
  PROVE  Inv'
<1> DEFINE p == heap
           held == Held(m_timer, None)
<1>1. /\ heap \in Heap /\ kind \in [Watcher -> Kind]
      /\ m_timer \in [Handle -> Watcher \cup {None}]
      /\ m_tokenTimeout \in Watcher \cup {None}
      /\ running \in Watcher \cup {None}
  BY DEF Inv, TypeOK
<1>2. p \in Heap /\ p = heap
  BY <1>1, Zenon
<1> HIDE DEF p
<1>3. /\ heap' \in Heap
      /\ heap'.live = p.live \cap (p.self \cup held) /\ heap'.self = p.self
      /\ heap'.active = p.active /\ heap'.registered = p.registered
      /\ heap'.pending = p.pending
  BY <1>2, ReleaseFacts DEF Inv, References, Armed, DestroyTimer, p
<1>4. /\ m_timeoutHelper
      /\ m_timeoutHelper' = FALSE
      /\ m_tokenTimeout' = None
      /\ disarmed' = disarmed \cup {w \in heap.active : kind[w] = "timeout"}
      /\ UNCHANGED <<kind, m_timer, running, phase, loop, called>>
  BY DEF DestroyTimer
<1>6. TypeOK' /\ OnlyCreated'
  BY <1>1, <1>2, <1>3, <1>4, NoneAssumption
  DEF Inv, TypeOK, Kind, OnlyCreated, Created, References, Armed, Heap
<1>7. References' /\ SelfInv'
  BY <1>1, <1>2, <1>3, <1>4, NoneAssumption
  DEF Inv, References, SelfInv, CallbackInv, Armed, IsTimer, Held,
      OnlyCreated, Created, Heap
<1>8. CallbackInv' /\ SilenceInv'
  BY <1>1, <1>2, <1>3, <1>4, NoneAssumption
  DEF Inv, CallbackInv, SilenceInv, References, Armed, IsTimer, OnlyCreated,
      Created, Heap
<1> QED
  BY <1>6, <1>7, <1>8 DEF Inv

(* Some watchers become due.                                               *)
LEMMA DueStep ==
  ASSUME Inv, NEW due \in SUBSET heap.registered, Due(due)
  PROVE  Inv'
<1>1. /\ heap \in Heap /\ kind \in [Watcher -> Kind]
      /\ m_timer \in [Handle -> Watcher \cup {None}]
      /\ m_tokenTimeout \in Watcher \cup {None}
      /\ running \in Watcher \cup {None}
  BY DEF Inv, TypeOK
<1>2. /\ heap' \in Heap
      /\ heap'.live = heap.live /\ heap'.self = heap.self
      /\ heap'.active = heap.active
      /\ heap'.registered = heap.registered \ {w \in due : IsTimer(w)}
      /\ heap'.pending = due
  BY <1>1 DEF Due, Heap
<1>3. /\ heap.pending = {} /\ running = None
      /\ UNCHANGED <<kind, m_timer, m_tokenTimeout, m_timeoutHelper, running,
                     phase, loop, called, disarmed>>
  BY DEF Due
<1>6. TypeOK' /\ OnlyCreated'
  BY <1>1, <1>2, <1>3, NoneAssumption
  DEF Inv, TypeOK, Kind, OnlyCreated, Created, References, Armed, Heap
<1>7. References' /\ SelfInv'
  BY <1>1, <1>2, <1>3, NoneAssumption
  DEF Inv, References, SelfInv, CallbackInv, Armed, IsTimer, Held,
      OnlyCreated, Created, Heap
<1>8. CallbackInv' /\ SilenceInv'
  BY <1>1, <1>2, <1>3, NoneAssumption
  DEF Inv, CallbackInv, SilenceInv, References, Armed, IsTimer, OnlyCreated,
      Created, Heap
<1> QED
  BY <1>6, <1>7, <1>8 DEF Inv

(* The callback of a timeout starts: the Timer forgets it, but it refers   *)
(* to itself until the end.                                                *)
LEMMA TimeoutCbStep ==
  ASSUME Inv, NEW w \in Watcher, TimeoutCb(w)
  PROVE  Inv'
<1> DEFINE p == Cancel(heap, w)
           held == Held(m_timer, None)
<1>1. /\ heap \in Heap /\ kind \in [Watcher -> Kind]
      /\ m_timer \in [Handle -> Watcher \cup {None}]
      /\ m_tokenTimeout \in Watcher \cup {None}
      /\ running \in Watcher \cup {None}
  BY DEF Inv, TypeOK
<1>2. /\ p \in Heap
      /\ p.live = heap.live /\ p.self = heap.self
      /\ p.active = heap.active \ {w}
      /\ p.registered = heap.registered \ {w}
      /\ p.pending = heap.pending \ {w}
  BY <1>1, CancelFacts
<1> HIDE DEF p
<1>3. /\ heap' \in Heap
      /\ heap'.live = p.live \cap (p.self \cup held) /\ heap'.self = p.self
      /\ heap'.active = p.active /\ heap'.registered = p.registered
      /\ heap'.pending = p.pending
  <2>1. CASE m_timeoutHelper
    BY <1>2, <2>1, ReleaseFacts DEF Inv, References, Armed, TimeoutCb, p
  <2>2. CASE ~m_timeoutHelper
    <3>1. heap' = p /\ m_tokenTimeout = None
      BY <2>2 DEF Inv, CallbackInv, TimeoutCb, p
    <3> QED
      BY <1>2, <3>1 DEF Inv, References
  <2> QED
    BY <2>1, <2>2
<1>4. /\ running = None /\ running' = w
      /\ w \in heap.active /\ kind[w] = "timeout"
      /\ m_tokenTimeout' = None
      /\ phase' \in {"fkn", "back"}
      /\ called' \in {called, called \cup {w}}
      /\ UNCHANGED <<kind, m_timer, m_timeoutHelper, loop, disarmed>>
  BY DEF TimeoutCb, Inv, CallbackInv
<1>6. TypeOK' /\ OnlyCreated'
  BY <1>1, <1>2, <1>3, <1>4, NoneAssumption
  DEF Inv, TypeOK, Kind, OnlyCreated, Created, References, Armed, Heap
<1>7. References' /\ SelfInv'
  BY <1>1, <1>2, <1>3, <1>4, NoneAssumption
  DEF Inv, References, SelfInv, CallbackInv, Armed, IsTimer, Held,
      OnlyCreated, Created, Heap
<1>8. CallbackInv' /\ SilenceInv'
  BY <1>1, <1>2, <1>3, <1>4, NoneAssumption
  DEF Inv, CallbackInv, SilenceInv, References, Armed, IsTimer, OnlyCreated,
      Created, Heap
<1> QED
  BY <1>6, <1>7, <1>8 DEF Inv

(* The callback of a timer of TimeServiceEv starts.                        *)
LEMMA ServiceCbStep ==
  ASSUME Inv, NEW w \in Watcher, ServiceCb(w)
  PROVE  Inv'
<1>1. /\ heap \in Heap /\ kind \in [Watcher -> Kind]
      /\ m_timer \in [Handle -> Watcher \cup {None}]
      /\ m_tokenTimeout \in Watcher \cup {None}
      /\ running \in Watcher \cup {None}
  BY DEF Inv, TypeOK
<1>2. /\ heap' \in Heap
      /\ heap'.live = heap.live /\ heap'.self = heap.self
      /\ heap'.active = heap.active \ {w}
      /\ heap'.registered = heap.registered \ {w}
      /\ heap'.pending = heap.pending \ {w}
  BY <1>1, CancelFacts DEF ServiceCb
<1>3. /\ running = None /\ running' = w
      /\ w \in heap.active /\ kind[w] = "service"
      /\ phase' = "fkn"
      /\ called' = called \cup {w}
      /\ UNCHANGED <<kind, m_timer, m_tokenTimeout, m_timeoutHelper, loop,
                     disarmed>>
  BY DEF ServiceCb
<1>6. TypeOK' /\ OnlyCreated'
  BY <1>1, <1>2, <1>3, NoneAssumption
  DEF Inv, TypeOK, Kind, OnlyCreated, Created, References, Armed, Heap
<1>7. References' /\ SelfInv'
  BY <1>1, <1>2, <1>3, NoneAssumption
  DEF Inv, References, SelfInv, CallbackInv, Armed, IsTimer, Held,
      OnlyCreated, Created, Heap
<1>8. CallbackInv' /\ SilenceInv'
  BY <1>1, <1>2, <1>3, NoneAssumption
  DEF Inv, CallbackInv, SilenceInv, References, Armed, IsTimer, OnlyCreated,
      Created, Heap
<1> QED
  BY <1>6, <1>7, <1>8 DEF Inv

(* The callback of an IoWatcher or SignalWatcher starts.                   *)
LEMMA WatchCbStep ==
  ASSUME Inv, NEW w \in Watcher, WatchCb(w)
  PROVE  Inv'
<1>1. /\ heap \in Heap /\ kind \in [Watcher -> Kind]
      /\ m_timer \in [Handle -> Watcher \cup {None}]
      /\ m_tokenTimeout \in Watcher \cup {None}
      /\ running \in Watcher \cup {None}
  BY DEF Inv, TypeOK
<1>2. /\ heap' \in Heap
      /\ heap'.live = heap.live /\ heap'.self = heap.self
      /\ heap'.active = heap.active
      /\ heap'.registered = heap.registered
      /\ heap'.pending = heap.pending \ {w}
  BY <1>1 DEF WatchCb, Heap
<1>3. /\ running = None /\ running' = w
      /\ w \in heap.pending /\ kind[w] = "watch"
      /\ phase' = "fkn"
      /\ called' = called \cup {w}
      /\ UNCHANGED <<kind, m_timer, m_tokenTimeout, m_timeoutHelper, loop,
                     disarmed>>
  BY DEF WatchCb
<1>6. TypeOK' /\ OnlyCreated'
  BY <1>1, <1>2, <1>3, NoneAssumption
  DEF Inv, TypeOK, Kind, OnlyCreated, Created, References, Armed, Heap
<1>7. References' /\ SelfInv'
  BY <1>1, <1>2, <1>3, NoneAssumption
  DEF Inv, References, SelfInv, CallbackInv, Armed, IsTimer, Held,
      OnlyCreated, Created, Heap
<1>8. CallbackInv' /\ SilenceInv'
  BY <1>1, <1>2, <1>3, NoneAssumption
  DEF Inv, CallbackInv, SilenceInv, References, Armed, IsTimer, OnlyCreated,
      Created, Heap
<1> QED
  BY <1>6, <1>7, <1>8 DEF Inv

(* A TimeWatcher drops the reference to itself when its user returns.      *)
LEMMA ServiceFknReturns ==
  ASSUME Inv, FknReturns, kind[running] = "service"
  PROVE  Inv'
<1> DEFINE p == DropSelf(heap, running)
           held == Held(m_timer, m_tokenTimeout)
<1>1. /\ heap \in Heap /\ kind \in [Watcher -> Kind]
      /\ m_timer \in [Handle -> Watcher \cup {None}]
      /\ m_tokenTimeout \in Watcher \cup {None}
      /\ running \in Watcher \cup {None}
  BY DEF Inv, TypeOK
<1>2. /\ p \in Heap
      /\ p.live = heap.live /\ p.self = heap.self \ {running}
      /\ p.active = heap.active
      /\ p.registered = heap.registered
      /\ p.pending = heap.pending
  BY <1>1, DropSelfFacts
<1> HIDE DEF p
<1>3. /\ heap' \in Heap
      /\ heap'.live = p.live \cap (p.self \cup held) /\ heap'.self = p.self
      /\ heap'.active = p.active /\ heap'.registered = p.registered
      /\ heap'.pending = p.pending
  <2>1. p.registered \cup p.pending \subseteq p.self
    BY <1>1, <1>2 DEF Inv, References, CallbackInv, IsTimer, Armed, FknReturns
  <2>2. p.active \subseteq p.registered \cup p.pending
    BY <1>1, <1>2 DEF Inv, References, CallbackInv, IsTimer, Armed, FknReturns
  <2> QED
    BY <1>2, <2>1, <2>2, ReleaseFacts DEF FknReturns, p
<1>4. /\ running # None /\ phase = "fkn" /\ phase' = "back"
      /\ UNCHANGED <<kind, m_timer, m_tokenTimeout, m_timeoutHelper, running,
                     loop, called, disarmed>>
  BY DEF FknReturns, IsTimer
<1>6. TypeOK' /\ OnlyCreated'
  BY <1>1, <1>2, <1>3, <1>4, NoneAssumption
  DEF Inv, TypeOK, Kind, OnlyCreated, Created, References, Armed, Heap
<1>7. References' /\ SelfInv'
  BY <1>1, <1>2, <1>3, <1>4, NoneAssumption
  DEF Inv, References, SelfInv, CallbackInv, Armed, IsTimer, Held,
      OnlyCreated, Created, Heap
<1>8. CallbackInv' /\ SilenceInv'
  BY <1>1, <1>2, <1>3, <1>4, NoneAssumption
  DEF Inv, CallbackInv, SilenceInv, References, Armed, IsTimer, OnlyCreated,
      Created, Heap
<1> QED
  BY <1>6, <1>7, <1>8 DEF Inv

(* A TimeoutWatcher does so when its callback is over.                     *)
LEMMA TimeoutCbReturns ==
  ASSUME Inv, CbReturns, kind[running] = "timeout"
  PROVE  Inv'
<1> DEFINE p == DropSelf(heap, running)
           held == Held(m_timer, m_tokenTimeout)
<1>1. /\ heap \in Heap /\ kind \in [Watcher -> Kind]
      /\ m_timer \in [Handle -> Watcher \cup {None}]
      /\ m_tokenTimeout \in Watcher \cup {None}
      /\ running \in Watcher \cup {None}
  BY DEF Inv, TypeOK
<1>2. /\ p \in Heap
      /\ p.live = heap.live /\ p.self = heap.self \ {running}
      /\ p.active = heap.active
      /\ p.registered = heap.registered
      /\ p.pending = heap.pending
  BY <1>1, DropSelfFacts
<1> HIDE DEF p
<1>3. /\ heap' \in Heap
      /\ heap'.live = p.live \cap (p.self \cup held) /\ heap'.self = p.self
      /\ heap'.active = p.active /\ heap'.registered = p.registered
      /\ heap'.pending = p.pending
  <2>1. p.registered \cup p.pending \subseteq p.self
    BY <1>1, <1>2 DEF Inv, References, CallbackInv, IsTimer, Armed, CbReturns
  <2>2. p.active \subseteq p.registered \cup p.pending
    BY <1>1, <1>2 DEF Inv, References, CallbackInv, IsTimer, Armed, CbReturns
  <2> QED
    BY <1>2, <2>1, <2>2, ReleaseFacts DEF CbReturns, p
<1>4. /\ running # None /\ running' = None
      /\ UNCHANGED <<kind, m_timer, m_tokenTimeout, m_timeoutHelper, phase,
                     loop, called, disarmed>>
  BY DEF CbReturns, IsTimer
<1>6. TypeOK' /\ OnlyCreated'
  BY <1>1, <1>2, <1>3, <1>4, NoneAssumption
  DEF Inv, TypeOK, Kind, OnlyCreated, Created, References, Armed, Heap
<1>7. References' /\ SelfInv'
  BY <1>1, <1>2, <1>3, <1>4, NoneAssumption
  DEF Inv, References, SelfInv, CallbackInv, Armed, IsTimer, Held,
      OnlyCreated, Created, Heap
<1>8. CallbackInv' /\ SilenceInv'
  BY <1>1, <1>2, <1>3, <1>4, NoneAssumption
  DEF Inv, CallbackInv, SilenceInv, References, Armed, IsTimer, OnlyCreated,
      Created, Heap
<1> QED
  BY <1>6, <1>7, <1>8 DEF Inv

(* The user of an IoWatcher or SignalWatcher ends the watch.               *)
LEMMA WatchEnds ==
  ASSUME Inv, WatchCbReturns(FALSE)
  PROVE  Inv'
<1> DEFINE p == DropSelf(EvStop(heap, running), running)
           held == Held(m_timer, m_tokenTimeout)
<1>1. /\ heap \in Heap /\ kind \in [Watcher -> Kind]
      /\ m_timer \in [Handle -> Watcher \cup {None}]
      /\ m_tokenTimeout \in Watcher \cup {None}
      /\ running \in Watcher \cup {None}
  BY DEF Inv, TypeOK
<1>2. /\ p \in Heap
      /\ p.live = heap.live /\ p.self = heap.self \ {running}
      /\ p.active = heap.active
      /\ p.registered = heap.registered \ {running}
      /\ p.pending = heap.pending \ {running}
  BY <1>1, EvStopFacts, DropSelfFacts
<1> HIDE DEF p
<1>3. /\ heap' \in Heap
      /\ heap'.live = p.live \cap (p.self \cup held) /\ heap'.self = p.self
      /\ heap'.active = p.active /\ heap'.registered = p.registered
      /\ heap'.pending = p.pending
  <2>1. p.registered \cup p.pending \subseteq p.self
    BY <1>1, <1>2 DEF Inv, References, CallbackInv, IsTimer, Armed, WatchCbReturns
  <2>2. p.active \subseteq p.registered \cup p.pending
    BY <1>1, <1>2 DEF Inv, References, CallbackInv, IsTimer, Armed, WatchCbReturns
  <2> QED
    BY <1>2, <2>1, <2>2, ReleaseFacts DEF WatchCbReturns, p
<1>4. /\ running # None /\ running' = None /\ ~IsTimer(running)
      /\ UNCHANGED <<kind, m_timer, m_tokenTimeout, m_timeoutHelper, phase,
                     loop, called, disarmed>>
  BY DEF WatchCbReturns, IsTimer
<1>6. TypeOK' /\ OnlyCreated'
  BY <1>1, <1>2, <1>3, <1>4, NoneAssumption
  DEF Inv, TypeOK, Kind, OnlyCreated, Created, References, Armed, Heap
<1>7. References' /\ SelfInv'
  BY <1>1, <1>2, <1>3, <1>4, NoneAssumption
  DEF Inv, References, SelfInv, CallbackInv, Armed, IsTimer, Held,
      OnlyCreated, Created, Heap
<1>8. CallbackInv' /\ SilenceInv'
  BY <1>1, <1>2, <1>3, <1>4, NoneAssumption
  DEF Inv, CallbackInv, SilenceInv, References, Armed, IsTimer, OnlyCreated,
      Created, Heap
<1> QED
  BY <1>6, <1>7, <1>8 DEF Inv

(* A step that leaves the objects alone: the loop starts, stops or ends, a *)
(* user's function returns, or a callback is over.  A callback may be over *)
(* only for an object that need not be freed then.                         *)
LEMMA QuietStep ==
  ASSUME Inv, TypeOK',
         UNCHANGED <<kind, heap, m_timer, m_tokenTimeout, m_timeoutHelper,
                     called, disarmed>>,
         \/ UNCHANGED <<running, phase>>
         \/ /\ running # None /\ kind[running] # "service"
            /\ UNCHANGED running
         \/ /\ running' = None
            /\ running # None
            /\ \/ kind[running] = "service" /\ phase = "back"
               \/ ~IsTimer(running)
  PROVE  Inv'
<1>1. OnlyCreated' /\ References' /\ SilenceInv'
  BY DEF Inv, OnlyCreated, References, SilenceInv, Created, Armed, IsTimer, Held
<1>2. SelfInv'
  BY DEF Inv, SelfInv, CallbackInv, Armed, IsTimer
<1>3. CallbackInv'
  BY DEF Inv, CallbackInv, Armed, IsTimer
<1> QED
  BY <1>1, <1>2, <1>3 DEF Inv

LEMMA InvStep == Inv /\ [Next]_vars => Inv'
<1> SUFFICES ASSUME Inv, [Next]_vars PROVE Inv'
  OBVIOUS
<1>1. CASE UNCHANGED vars
  BY <1>1, QuietStep DEF vars, Inv, TypeOK
<1>2. CASE User
  <2>1. CASE Stop \/ Run
    BY <2>1, QuietStep DEF Stop, Run, Inv, TypeOK
  <2> QED
    BY <1>2, <2>1, ServiceMakeTimeoutStep, CancelTimerStep, CopyTimerStep,
       MakeTimeoutStep, CleanTimeoutStep, DestroyTimerStep, OnEventStep
    DEF User
<1>3. CASE FknReturns
  <2>1. CASE kind[running] # "service"
    BY <1>3, <2>1, QuietStep DEF FknReturns, Inv, TypeOK
  <2> QED
    BY <1>3, <2>1, ServiceFknReturns
<1>4. ASSUME NEW due \in SUBSET heap.registered, Due(due)
      PROVE  Inv'
  BY <1>4, DueStep
<1>5. CASE Invoke
  <2>1. CASE LoopEnds
    BY <2>1, QuietStep DEF LoopEnds, Inv, TypeOK
  <2>2. CASE CbReturns
    <3>1. CASE kind[running] = "service"
      BY <2>2, <3>1, QuietStep DEF CbReturns, Inv, TypeOK
    <3> QED
      BY <2>2, <3>1, TimeoutCbReturns DEF CbReturns, IsTimer
  <2>3. ASSUME NEW res \in BOOLEAN, WatchCbReturns(res)
        PROVE  Inv'
    <3>1. CASE res = TRUE
      BY <2>3, <3>1, QuietStep DEF WatchCbReturns, Inv, TypeOK
    <3>2. CASE res = FALSE
      BY <2>3, <3>2, WatchEnds
    <3> QED
      BY <3>1, <3>2
  <2> QED
    BY <1>5, <2>1, <2>2, <2>3, TimeoutCbStep, ServiceCbStep, WatchCbStep
    DEF Invoke
<1> QED
  BY <1>1, <1>2, <1>3, <1>4, <1>5 DEF Next

THEOREM Invariance == Spec => []Inv
  BY InvInit, InvStep, PTL DEF Spec
-----------------------------------------------------------------------------
(* The properties.                                                         *)

(* The state of the wrapper of libev and of both timer classes stays well  *)
(* typed.                                                                  *)
THEOREM TypeSafety == Spec => []TypeOK
<1>1. Inv => TypeOK
  BY DEF Inv
<1> QED
  BY <1>1, Invariance, PTL

(* libev never holds a pointer to a freed object, whatever users do in     *)
(* callbacks (TimeoutData, TimeoutWatcher, IoWatcher, SignalWatcher).      *)
THEOREM PointerSafety == Spec => []LibevPointersAreValid
<1>1. Inv => LibevPointersAreValid
  BY DEF Inv, References, CallbackInv, Armed, LibevPointersAreValid
<1> QED
  BY <1>1, Invariance, PTL

(* No watcher leaks but a TimeServiceEv timer that is cancelled before it  *)
(* expires.                                                                *)
THEOREM OnlyCancelledTimersLeak == Spec => []UnusedWatchersAreFreed
<1>1. Inv => UnusedWatchersAreFreed
  BY DEF Inv, References, SelfInv, Armed, UnusedWatchersAreFreed
<1> QED
  BY <1>1, Invariance, PTL

(* A step that enters the user function of a timer finds it armed.         *)
LEMMA SilentStep ==
  ASSUME Inv, [Next]_vars, NEW w \in Watcher, IsTimer(w), running # w,
         running' = w, phase' = "fkn"
  PROVE  w \notin disarmed \cup called
<1>0. w # None
  BY NoneAssumption
<1>1. ~ UNCHANGED running
  OBVIOUS
<1>2. ~ User
  BY <1>1 DEF User, ServiceMakeTimeout, CancelTimer, CopyTimer, MakeTimeout,
              CleanTimeout, DestroyTimer, OnEvent, Stop, Run
<1>3. PICK v \in Watcher : TimeoutCb(v) \/ ServiceCb(v) \/ WatchCb(v)
  BY <1>0, <1>1, <1>2 DEF Next, vars, Invoke, FknReturns, Due, CbReturns,
                          WatchCbReturns, LoopEnds
<1>4. v = w
  BY <1>3 DEF TimeoutCb, ServiceCb, WatchCb
<1>5. CASE TimeoutCb(w)
  BY <1>5 DEF TimeoutCb, Inv, SilenceInv
<1>6. CASE ServiceCb(w)
  BY <1>6 DEF ServiceCb, Inv, SilenceInv
<1> QED
  BY <1>3, <1>4, <1>5, <1>6 DEF WatchCb, IsTimer

(* A timer that was cancelled, or lost its Timer, never calls its user,    *)
(* and none calls its user twice, however cancellations, expiries and      *)
(* callbacks interleave (TimeoutData::cancel, TimeoutData::cb).            *)
THEOREM SilenceSafety == Spec => DisarmedTimersStaySilent
<1>1. Inv /\ [Next]_vars =>
        [\A w \in Watcher :
           IsTimer(w) /\ running # w /\ running' = w /\ phase' = "fkn" =>
             w \notin disarmed \cup called]_vars
  BY SilentStep
<1> QED
  BY <1>1, Invariance, PTL DEF Spec, DisarmedTimersStaySilent
=============================================================================
