------------------------------- MODULE Timers -------------------------------
(***************************************************************************)
(* The event loop wrapper of src/src/eventwrapper and the two timer        *)
(* classes on top of it: TimeServiceIf::Timer, the handles of the master,  *)
(* made by TimeServiceEv, and Timer of src/src/utility.                    *)
(*                                                                         *)
(* The subject is the lifetime of the watcher objects.  libev keeps plain  *)
(* pointers to them, users keep shared pointers, and most watchers also    *)
(* keep a shared pointer to themselves.  An object without a shared        *)
(* pointer is freed at once, also when its callback is running.            *)
(*                                                                         *)
(* Time is left out: a timer may expire at any moment after its start, and *)
(* any set of watchers may become due in one round of the loop.  What      *)
(* libev does is external.                                                 *)
(***************************************************************************)
EXTENDS Naturals, FiniteSets

CONSTANTS
  Watcher,     \* bound: the watcher objects that may be created
  None,        \* a null pointer
  Handle       \* the members of type TimeServiceIf::Timer

ASSUME NoneAssumption == None \notin Watcher

VARIABLES
  kind,        \* per watcher: its class, "unused" before its creation;
               \* "watch" is an IoWatcher or a SignalWatcher
  heap,        \* the objects and what libev knows of them, see Heap
  m_timer,     \* per handle: the TimeWatcher it refers to
  m_tokenTimeout,   \* Timer: its TimeoutWatcher
  m_timeoutHelper,  \* Timer: whether the Timer object exists
  running,     \* the watcher whose callback runs
  phase,       \* "fkn": its user function runs; "back": that has returned
  loop,        \* the event loop
  called,      \* watchers whose user function has been called
  disarmed     \* timers cancelled, or destroyed, by their user

vars == <<kind, heap, m_timer, m_tokenTimeout, m_timeoutHelper, running,
          phase, loop, called, disarmed>>

Kind == {"unused", "service", "timeout", "watch"}
IsTimer(w) == kind[w] \in {"service", "timeout"}

(* live: not freed.  self: m_tw or m_self is set.  active: m_active of     *)
(* TimeoutData.  registered, pending: libev will call it back when it      *)
(* becomes due, or in this round of the loop.                              *)
Heap == [live : SUBSET Watcher, self : SUBSET Watcher,
         active : SUBSET Watcher, registered : SUBSET Watcher,
         pending : SUBSET Watcher]

TypeOK ==
  /\ kind \in [Watcher -> Kind]
  /\ heap \in Heap
  /\ m_timer \in [Handle -> Watcher \cup {None}]
  /\ m_tokenTimeout \in Watcher \cup {None}
  /\ m_timeoutHelper \in BOOLEAN
  /\ running \in Watcher \cup {None}
  /\ phase \in {"fkn", "back"}
  /\ loop \in {"setup", "run", "break", "out"}
  /\ called \subseteq Watcher /\ disarmed \subseteq Watcher

Init ==
  /\ kind = [w \in Watcher |-> "unused"]
  /\ heap = [live |-> {}, self |-> {}, active |-> {}, registered |-> {},
             pending |-> {}]
  /\ m_timer = [h \in Handle |-> None]
  /\ m_tokenTimeout = None /\ m_timeoutHelper = TRUE
  /\ running = None /\ phase = "fkn"
  /\ loop = "setup"
  /\ called = {} /\ disarmed = {}
-----------------------------------------------------------------------------
(* Operations on the objects.                                              *)

EvStart(p, w) == [p EXCEPT !.registered = @ \cup {w}]

\* Stopping a watcher also takes back a callback that is due.
EvStop(p, w) == [p EXCEPT !.registered = @ \ {w}, !.pending = @ \ {w}]

\* A new timer object that refers to itself, started: TimeoutData::start.
NewTimer(p, w) ==
  EvStart([p EXCEPT !.live = @ \cup {w}, !.self = @ \cup {w},
                    !.active = @ \cup {w}], w)

\* A new IoWatcher or SignalWatcher, started.
NewWatch(p, w) ==
  EvStart([p EXCEPT !.live = @ \cup {w}, !.self = @ \cup {w}], w)

\* TimeoutData::cancel
Cancel(p, w) == [EvStop(p, w) EXCEPT !.active = @ \ {w}]

\* m_self.reset(), m_tw.reset()
DropSelf(p, w) == [p EXCEPT !.self = @ \ {w}]

(* Mutant: an object is freed with the last handle, as if it did not refer *)
(* to itself. *)
ReleaseUnheld(p, held) ==
  LET gone == {w \in p.live : w \notin held}
  IN  [p EXCEPT !.live = @ \ gone,
                !.self = @ \ gone,
                !.active = @ \ gone,
                !.registered = @ \ (gone \cap p.active),
                !.pending = @ \ (gone \cap p.active)]

(* The objects nobody refers to are freed; the destructor of TimeoutData   *)
(* cancels a timer that is active.                                         *)
Release(p, held) ==
  LET gone == {w \in p.live : w \notin p.self \cup held}
  IN  [p EXCEPT !.live = @ \ gone,
                !.active = @ \ gone,
                !.registered = @ \ (gone \cap p.active),
                !.pending = @ \ (gone \cap p.active)]

Held(handles, token) == {handles[h] : h \in Handle} \cup {token}
-----------------------------------------------------------------------------
(* What users do: before the loop runs, and in a callback.                 *)

UserCode == loop = "setup" \/ (running # None /\ phase = "fkn")

(* The move assignment of a new timer to a handle drops the reference to   *)
(* the former timer and does not cancel it.                                *)
MoveAssigned(h, w) == [m_timer EXCEPT ![h] = w]

(* TimeServiceEv::makeTimeout and makeTimeoutAbs, with the assignment of   *)
(* the result.                                                             *)
ServiceMakeTimeout(h, w) ==
  /\ UserCode
  /\ kind[w] = "unused"
  /\ kind' = [kind EXCEPT ![w] = "service"]
  /\ m_timer' = MoveAssigned(h, w)
  /\ heap' = Release(NewTimer(heap, w), Held(m_timer', m_tokenTimeout))
  /\ UNCHANGED <<m_tokenTimeout, m_timeoutHelper, running, phase, loop,
                 called, disarmed>>

(* Mutant: the reference is dropped and the timer is not cancelled. *)
CancelTimerForgets(h) ==
  /\ UserCode \/ loop = "out"
  /\ m_timer[h] # None
  /\ m_timer' = [m_timer EXCEPT ![h] = None]
  /\ heap' = Release(heap, Held(m_timer', m_tokenTimeout))
  /\ disarmed' = disarmed \cup {m_timer[h]}
  /\ UNCHANGED <<kind, m_tokenTimeout, m_timeoutHelper, running, phase, loop,
                 called>>

(* Mutant: a handle without a timer is not told apart. *)
CancelTimerOrNull(h) ==
  /\ UserCode \/ loop = "out"
  /\ m_timer' = [m_timer EXCEPT ![h] = None]
  /\ heap' = Release(Cancel(heap, m_timer[h]),
                     Held(m_timer', m_tokenTimeout))
  /\ disarmed' = disarmed \cup {m_timer[h]}
  /\ UNCHANGED <<kind, m_tokenTimeout, m_timeoutHelper, running, phase, loop,
                 called>>

(* Timer::cancel of TimeServiceIf, and its destructor.                     *)
CancelTimer(h) ==
  /\ UserCode \/ loop = "out"
  /\ m_timer[h] # None
  /\ m_timer' = [m_timer EXCEPT ![h] = None]
  /\ heap' = Release(Cancel(heap, m_timer[h]),
                     Held(m_timer', m_tokenTimeout))
  /\ disarmed' = disarmed \cup {m_timer[h]}
  /\ UNCHANGED <<kind, m_tokenTimeout, m_timeoutHelper, running, phase, loop,
                 called>>

(* Copy assignment between handles: the destructor of the temporary Timer  *)
(* cancels the timer the target had, even if it is the one being copied.   *)
CopyTimer(h, source) ==
  /\ UserCode
  /\ m_timer' = [m_timer EXCEPT ![h] = m_timer[source]]
  /\ \/ /\ m_timer[h] # None
        /\ heap' = Release(Cancel(heap, m_timer[h]),
                           Held(m_timer', m_tokenTimeout))
        /\ disarmed' = disarmed \cup {m_timer[h]}
     \/ /\ m_timer[h] = None
        /\ UNCHANGED <<heap, disarmed>>
  /\ UNCHANGED <<kind, m_tokenTimeout, m_timeoutHelper, running, phase, loop,
                 called>>

(* makeTimeout and makeTimeoutAbs of the utility class Timer, on top of    *)
(* EventLoop::onTimeout.                                                   *)
MakeTimeout(w) ==
  /\ UserCode
  /\ m_timeoutHelper
  /\ kind[w] = "unused"
  /\ kind' = [kind EXCEPT ![w] = "timeout"]
  /\ m_tokenTimeout' = w
  /\ heap' = Release(NewTimer(heap, w), Held(m_timer, m_tokenTimeout'))
  /\ UNCHANGED <<m_timer, m_timeoutHelper, running, phase, loop, called,
                 disarmed>>

(* cleanTimeout, with TimeoutWatcher::cancel.                              *)
CleanTimeout ==
  /\ UserCode
  /\ m_tokenTimeout # None
  /\ m_tokenTimeout' = None
  /\ heap' = Release(DropSelf(Cancel(heap, m_tokenTimeout), m_tokenTimeout),
                     Held(m_timer, None))
  /\ disarmed' = disarmed \cup {m_tokenTimeout}
  /\ UNCHANGED <<kind, m_timer, m_timeoutHelper, running, phase, loop,
                 called>>

(* The destructor of the utility class Timer: its timeouts stay armed and  *)
(* find the helper gone.                                                   *)
DestroyTimer ==
  /\ UserCode \/ loop = "out"
  /\ m_timeoutHelper
  /\ m_timeoutHelper' = FALSE
  /\ m_tokenTimeout' = None
  /\ heap' = Release(heap, Held(m_timer, None))
  /\ disarmed' = disarmed \cup {w \in heap.active : kind[w] = "timeout"}
  /\ UNCHANGED <<kind, m_timer, running, phase, loop, called>>

(* onReadable and onSignal; all callers ignore the pointer they return.    *)
OnEvent(w) ==
  /\ UserCode
  /\ kind[w] = "unused"
  /\ kind' = [kind EXCEPT ![w] = "watch"]
  /\ heap' = Release(NewWatch(heap, w), Held(m_timer, m_tokenTimeout))
  /\ UNCHANGED <<m_timer, m_tokenTimeout, m_timeoutHelper, running, phase,
                 loop, called, disarmed>>

(* EventLoop::stop: the loop is left after this round.                     *)
Stop ==
  /\ running # None /\ phase = "fkn"
  /\ loop' = "break"
  /\ UNCHANGED <<kind, heap, m_timer, m_tokenTimeout, m_timeoutHelper,
                 running, phase, called, disarmed>>
-----------------------------------------------------------------------------
(* The event loop.                                                         *)

Run ==
  /\ loop = "setup"
  /\ loop' = "run"
  /\ UNCHANGED <<kind, heap, m_timer, m_tokenTimeout, m_timeoutHelper,
                 running, phase, called, disarmed>>

(* libev waits: some watchers become due.  It forgets the timers among     *)
(* them, which do not repeat.                                              *)
Due(due) ==
  /\ loop = "run"
  /\ running = None
  /\ heap.pending = {}
  /\ heap' = [heap EXCEPT !.pending = due,
                           !.registered = @ \ {w \in due : IsTimer(w)}]
  /\ UNCHANGED <<kind, m_timer, m_tokenTimeout, m_timeoutHelper, running,
                 phase, loop, called, disarmed>>

(* Mutant: the pointer is kept. *)
TimeoutCbKeepsPointer(w) ==
  /\ running = None
  /\ w \in heap.pending \cap heap.active
  /\ kind[w] = "timeout"
  /\ running' = w
  /\ heap' = Cancel(heap, w)
  /\ IF m_timeoutHelper
     THEN phase' = "fkn" /\ called' = called \cup {w}
     ELSE phase' = "back" /\ UNCHANGED called
  /\ UNCHANGED <<kind, m_timer, m_tokenTimeout, m_timeoutHelper, loop,
                 disarmed>>

(* TimeoutData::cb up to the call of m_fkn, for a timeout of the utility   *)
(* class Timer: its function first drops the pointer to the watcher, and   *)
(* does nothing if the Timer is gone.                                      *)
TimeoutCb(w) ==
  /\ running = None
  /\ w \in heap.pending \cap heap.active
  /\ kind[w] = "timeout"
  /\ running' = w
  /\ IF m_timeoutHelper
     THEN /\ m_tokenTimeout' = None
          /\ heap' = Release(Cancel(heap, w), Held(m_timer, None))
          /\ phase' = "fkn"
          /\ called' = called \cup {w}
     ELSE /\ heap' = Cancel(heap, w)
          /\ phase' = "back"
          /\ UNCHANGED <<m_tokenTimeout, called>>
  /\ UNCHANGED <<kind, m_timer, m_timeoutHelper, loop, disarmed>>

(* TimeoutData::cb up to the call of m_fkn, for a handle of TimeServiceEv. *)
ServiceCb(w) ==
  /\ running = None
  /\ w \in heap.pending \cap heap.active
  /\ kind[w] = "service"
  /\ running' = w
  /\ heap' = Cancel(heap, w)
  /\ phase' = "fkn"
  /\ called' = called \cup {w}
  /\ UNCHANGED <<kind, m_timer, m_tokenTimeout, m_timeoutHelper, loop,
                 disarmed>>

(* IoWatcher::cb and SignalWatcher::cb up to the call of m_fkn.            *)
WatchCb(w) ==
  /\ running = None
  /\ w \in heap.pending
  /\ kind[w] = "watch"
  /\ running' = w
  /\ heap' = [heap EXCEPT !.pending = @ \ {w}]
  /\ phase' = "fkn"
  /\ called' = called \cup {w}
  /\ UNCHANGED <<kind, m_timer, m_tokenTimeout, m_timeoutHelper, loop,
                 disarmed>>

(* The user's function returns.  The function of a TimeWatcher then drops  *)
(* the reference of the watcher to itself.                                 *)
FknReturns ==
  /\ running # None /\ phase = "fkn"
  /\ phase' = "back"
  /\ heap' = IF kind[running] = "service"
             THEN Release(DropSelf(heap, running),
                          Held(m_timer, m_tokenTimeout))
             ELSE heap
  /\ UNCHANGED <<kind, m_timer, m_tokenTimeout, m_timeoutHelper, running,
                 loop, called, disarmed>>

(* Mutant: a TimeoutWatcher is not cleared after its callback. *)
CbReturnsUncleared ==
  /\ running # None /\ phase = "back"
  /\ IsTimer(running)
  /\ running' = None
  /\ heap' = heap
  /\ UNCHANGED <<kind, m_timer, m_tokenTimeout, m_timeoutHelper, phase, loop,
                 called, disarmed>>

(* The rest of TimeoutData::cb, with TimeoutWatcher::clear.                *)
CbReturns ==
  /\ running # None /\ phase = "back"
  /\ IsTimer(running)
  /\ running' = None
  /\ heap' = IF kind[running] = "timeout"
             THEN Release(DropSelf(heap, running),
                          Held(m_timer, m_tokenTimeout))
             ELSE heap
  /\ UNCHANGED <<kind, m_timer, m_tokenTimeout, m_timeoutHelper, phase, loop,
                 called, disarmed>>

(* The rest of IoWatcher::cb and SignalWatcher::cb: the watch ends when    *)
(* the user's function returned false.                                     *)
WatchCbReturns(res) ==
  /\ running # None /\ phase = "back"
  /\ ~IsTimer(running)
  /\ running' = None
  /\ heap' = IF res THEN heap
             ELSE Release(DropSelf(EvStop(heap, running), running),
                          Held(m_timer, m_tokenTimeout))
  /\ UNCHANGED <<kind, m_timer, m_tokenTimeout, m_timeoutHelper, phase, loop,
                 called, disarmed>>

(* ev_run returns: it was told to, or nothing is left to wait for.         *)
LoopEnds ==
  /\ loop = "break" \/ (loop = "run" /\ heap.registered = {})
  /\ running = None
  /\ heap.pending = {}
  /\ loop' = "out"
  /\ UNCHANGED <<kind, heap, m_timer, m_tokenTimeout, m_timeoutHelper,
                 running, phase, called, disarmed>>

User ==
  \/ \E h \in Handle, w \in Watcher : ServiceMakeTimeout(h, w)
  \/ \E h \in Handle : CancelTimer(h)
  \/ \E h, source \in Handle : CopyTimer(h, source)
  \/ \E w \in Watcher : MakeTimeout(w)
  \/ CleanTimeout \/ DestroyTimer
  \/ \E w \in Watcher : OnEvent(w)
  \/ Stop \/ Run

Invoke ==
  \/ \E w \in Watcher : TimeoutCb(w) \/ ServiceCb(w) \/ WatchCb(w)
  \/ CbReturns
  \/ \E res \in BOOLEAN : WatchCbReturns(res)
  \/ LoopEnds

Next ==
  \/ User
  \/ FknReturns
  \/ \E due \in SUBSET heap.registered : due # {} /\ Due(due)
  \/ Invoke

Spec == Init /\ [][Next]_vars

DueWith(w) == \E due \in SUBSET heap.registered : w \in due /\ Due(due)

(* User functions return, libev runs the callbacks that are due, and a     *)
(* timer becomes due in the first round of the loop after its time.        *)
FairSpec ==
  /\ Spec
  /\ WF_vars(FknReturns)
  /\ WF_vars(Invoke)
  /\ \A w \in Watcher : SF_vars(IsTimer(w) /\ DueWith(w))
-----------------------------------------------------------------------------
(* Properties.                                                             *)

(* Every pointer libev holds is to an object that exists, and while an     *)
(* object is armed it can be called back: "As long as we are registered    *)
(* with the event loop, keep a reference around to make sure we are not    *)
(* deleted" (IoWatcher, SignalWatcher, TimeoutWatcher), and the destructor *)
(* and cancel of TimeoutData.  Nor does libev call into an object that is  *)
(* freed while its callback runs, whatever the callback does to the Timer  *)
(* that owns it; timers of TimeServiceEv are the subject of                *)
(* TimersOutliveCallbacks.                                                 *)
LibevPointersAreValid ==
  /\ heap.registered \cup heap.pending \subseteq heap.live
  /\ heap.active = {w \in heap.registered \cup heap.pending : IsTimer(w)}
  /\ running # None /\ kind[running] # "service" => running \in heap.live

(* A timer that was cancelled, or whose Timer object was destroyed, never  *)
(* calls its user, not even when it had expired in the same round of the   *)
(* loop and its callback was next; and no timer calls its user twice.      *)
DisarmedTimersStaySilent ==
  [][\A w \in Watcher :
       IsTimer(w) /\ running # w /\ running' = w /\ phase' = "fkn" =>
         w \notin disarmed \cup called]_vars

(* "fkn() might replace the owner of this class. Get a copy of the ptr to  *)
(* ensure it's still alive when we get back" (TimeWatcher::makeTimeout):   *)
(* the object of a TimeServiceEv timer exists until TimeoutData::cb, whose *)
(* last lines read it, returns.                                            *)
TimersOutliveCallbacks ==
  running # None /\ kind[running] = "service" => running \in heap.live

(* An object that nobody can use any more is freed, with one exception: a  *)
(* TimeServiceEv timer that is cancelled before it expires keeps itself    *)
(* alive for ever, because only its callback drops m_tw.                   *)
UnusedWatchersAreFreed ==
  \A w \in heap.live :
    \/ w \in heap.registered \cup heap.pending \cup {running}
    \/ w \in Held(m_timer, m_tokenTimeout)
    \/ kind[w] = "service" /\ w \in disarmed

(* A timer that is started calls its user, unless it is disarmed or the    *)
(* loop is left; also a timer whose handle was given another timer.        *)
ArmedTimersFire ==
  \A w \in Watcher :
    w \in heap.active /\ loop = "run"
      ~> w \in called \cup disarmed \/ loop \in {"break", "out"}
=============================================================================
