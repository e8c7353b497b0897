----------------------------- MODULE StateChart -----------------------------
(***************************************************************************)
(* The hierarchical state machine library of src/src/statechart, with the  *)
(* event queue it is built on.                                             *)
(*                                                                         *)
(* The states of a chart are objects: the constructor of a state is its    *)
(* entry function and the destructor its exit function.  A chart is set up *)
(* by addState, started, and then driven by postEvent.  What the states of *)
(* a chart do is up to its user: here every event handler, constructor and *)
(* destructor may request a transition and post an event.  Events are      *)
(* numbered in the order in which they are posted.                         *)
(*                                                                         *)
(* One action is one call into user code, or one decision of the library   *)
(* between two of them.                                                    *)
(***************************************************************************)
EXTENDS VecQueue, FiniteSets

CONSTANTS
  State,          \* the state ids a chart may use
  NoState,        \* a null pointer
  PostLimit,      \* bound: events posted in a behaviour
  RequestLimit    \* bound: transitions requested by user code

ASSUME StateAssumption == NoState \notin State /\ IsFiniteSet(State)
ASSUME LimitAssumption == PostLimit \in Nat /\ RequestLimit \in Nat

VARIABLES
  m_states,        \* FsmSetupBase::m_states: state |-> parent and level
  m_currentInfos,  \* the active states, outermost first
  m_activeState,   \* per level the constructed state object, if any
  m_nextInfos,     \* the path to the target of the transition under way
  m_stateUpdate,   \* a transition is requested
  m_nextState,     \* its target
  m_eventQueue,
  pc,              \* where the library is
  level,           \* dispatch: level of the state asked; exit: bottomLevel
  posted,          \* number of events posted
  handled,         \* number of events taken from the queue
  requests         \* number of transitions requested, for the bound

chartVars == <<m_states, m_currentInfos, m_activeState, m_nextInfos>>
vars == <<m_states, m_currentInfos, m_activeState, m_nextInfos,
          m_stateUpdate, m_nextState, m_eventQueue, pc, level, posted,
          handled, requests>>

Levels == 1 .. Cardinality(State)
Added == DOMAIN m_states
IsRoot(s) == m_states[s].parent = s

Phase == {"setup", "idle", "dispatch", "settle", "exit", "enter", "cleanup",
          "gone"}

TypeOK ==
  /\ Added \subseteq State
  /\ m_states \in [Added -> [parent : State, level : Levels]]
  /\ m_currentInfos \in Seq(State) /\ m_nextInfos \in Seq(State)
  /\ m_activeState \in [Levels -> State \cup {NoState}]
  /\ m_stateUpdate \in BOOLEAN
  /\ m_nextState \in State \cup {NoState}
  /\ Sound(m_eventQueue, 1 .. PostLimit)
  /\ pc \in Phase
  /\ level \in Nat
  /\ posted \in 0 .. PostLimit
  /\ handled \in 0 .. posted
  /\ requests \in 0 .. RequestLimit

Init ==
  /\ m_states = <<>>
  /\ m_currentInfos = <<>> /\ m_nextInfos = <<>>
  /\ m_activeState = [l \in Levels |-> NoState]
  /\ m_stateUpdate = FALSE /\ m_nextState = NoState
  /\ m_eventQueue = EmptyQueue
  /\ pc = "setup" /\ level = 0
  /\ posted = 0 /\ handled = 0 /\ requests = 0
-----------------------------------------------------------------------------
(* Setting up the chart.                                                   *)

Extended(f, s, v) == [x \in DOMAIN f \cup {s} |-> IF x = s THEN v ELSE f[x]]

LevelUnder(s, parent) == IF s = parent THEN 1 ELSE m_states[parent].level + 1

(* addState: a state whose parent is itself is a root state.               *)
AddState(s, parent) ==
  /\ pc = "setup"
  /\ s \notin Added
  /\ parent \in Added \cup {s}
  /\ m_states' = Extended(m_states, s,
                   [parent |-> parent, level |-> LevelUnder(s, parent)])
  /\ UNCHANGED <<m_currentInfos, m_activeState, m_nextInfos, m_stateUpdate,
                 m_nextState, m_eventQueue, pc, level, posted, handled,
                 requests>>

(* setStartState, up to its call of prepareTransition.                     *)
SetStartState(s) ==
  /\ pc = "setup"
  /\ s \in Added
  /\ m_nextState' = s
  /\ m_stateUpdate' = TRUE
  /\ pc' = "settle"
  /\ UNCHANGED <<chartVars, m_eventQueue, level, posted, handled, requests>>
-----------------------------------------------------------------------------
(* User code.                                                              *)

RequestNothing == UNCHANGED <<m_nextState, m_stateUpdate, requests>>

(* transition: only the last request before the next prepareTransition     *)
(* counts.  Every state of a chart must have been added.                   *)
Request(s) ==
  /\ requests < RequestLimit
  /\ m_nextState' = s
  /\ m_stateUpdate' = TRUE
  /\ requests' = requests + 1

PostNothing == UNCHANGED <<m_eventQueue, posted>>

(* postEvent while another event is being processed.  Events may be sent   *)
(* only after the start of the chart (the comment on setStartState).       *)
PostInside ==
  /\ posted > handled
  /\ posted < PostLimit
  /\ m_eventQueue' = Push(m_eventQueue, posted + 1)
  /\ posted' = posted + 1

UserCode ==
  /\ RequestNothing \/ \E s \in Added : Request(s)
  /\ PostNothing \/ PostInside
-----------------------------------------------------------------------------
(* Events.                                                                 *)

(* postEvent while nobody processes events: the event is asked of the      *)
(* innermost state first.                                                  *)
PostEvent ==
  /\ pc = "idle"
  /\ posted < PostLimit
  /\ m_eventQueue' = Push(m_eventQueue, posted + 1)
  /\ posted' = posted + 1
  /\ pc' = "dispatch"
  /\ level' = Len(m_currentInfos)
  /\ UNCHANGED <<chartVars, m_stateUpdate, m_nextState, handled, requests>>

(* One round of the loop in processEvent: the state at this level gets the *)
(* event, and the one around it if it was not handled.                     *)
ProcessEvent ==
  /\ pc = "dispatch"
  /\ UserCode
  /\ \/ pc' = "settle" /\ level' = level
     \/ level > 1 /\ pc' = pc /\ level' = level - 1
  /\ UNCHANGED <<chartVars, handled>>

(* populateNextInfos: the states from the root down to the target.         *)
PathTo[s \in Added] ==
  IF IsRoot(s) THEN <<s>> ELSE Append(PathTo[m_states[s].parent], s)

CommonLevels(path) ==
  {l \in 0 .. Len(path) : /\ l <= Len(m_currentInfos)
                          /\ \A i \in 1 .. l : m_currentInfos[i] = path[i]}

(* Mutant: only the number of levels is compared. *)
FindFirstDeeper(path) == IF Len(path) < Len(m_currentInfos) THEN Len(path)
                         ELSE Len(m_currentInfos)

(* Mutant: a target that is active at any level is left and entered again. *)
FindFirstOrActive(path) ==
  IF \E i \in DOMAIN m_currentInfos : m_currentInfos[i] = path[Len(path)]
  THEN Len(path) - 1
  ELSE CHOOSE l \in CommonLevels(path) : \A k \in CommonLevels(path) : k <= l

(* findFirstThatDiffer: the number of outer states that stay.  A           *)
(* transition of the innermost state to itself leaves and enters it.       *)
FindFirstThatDiffer(path) ==
  IF m_currentInfos[Len(m_currentInfos)] = path[Len(path)]
  THEN Len(path) - 1
  ELSE CHOOSE l \in CommonLevels(path) : \A k \in CommonLevels(path) : k <= l

(* Mutant: the request is not marked as served. *)
PrepareTransitionAgain ==
  /\ pc = "settle"
  /\ m_stateUpdate
  /\ m_nextInfos' = PathTo[m_nextState]
  /\ level' = IF m_currentInfos = <<>> THEN 0
              ELSE FindFirstThatDiffer(PathTo[m_nextState])
  /\ pc' = "exit"
  /\ UNCHANGED <<m_states, m_currentInfos, m_activeState, m_stateUpdate,
                 m_nextState, m_eventQueue, posted, handled, requests>>

(* prepareTransition finds a request and doTransition starts.              *)
PrepareTransition ==
  /\ pc = "settle"
  /\ m_stateUpdate
  /\ m_stateUpdate' = FALSE
  /\ m_nextInfos' = PathTo[m_nextState]
  /\ level' = IF m_currentInfos = <<>> THEN 0
              ELSE FindFirstThatDiffer(PathTo[m_nextState])
  /\ pc' = "exit"
  /\ UNCHANGED <<m_states, m_currentInfos, m_activeState, m_nextState,
                 m_eventQueue, posted, handled, requests>>

(* No request is left: the event is done.                                  *)
PopEvent ==
  /\ pc = "settle"
  /\ ~m_stateUpdate
  /\ handled < posted
  /\ m_eventQueue' = Pop(m_eventQueue)
  /\ handled' = handled + 1
  /\ level' = Len(m_currentInfos)
  /\ pc' = IF IsEmpty(m_eventQueue') THEN "idle" ELSE "dispatch"
  /\ UNCHANGED <<chartVars, m_stateUpdate, m_nextState, posted, requests>>

(* The chart has been started.                                             *)
Started ==
  /\ pc = "settle"
  /\ ~m_stateUpdate
  /\ handled = posted
  /\ pc' = "idle"
  /\ UNCHANGED <<chartVars, m_stateUpdate, m_nextState, m_eventQueue, level,
                 posted, handled, requests>>
-----------------------------------------------------------------------------
(* Leaving and entering states.                                            *)

Depth == Len(m_currentInfos)

(* Mutant: the state object is not destroyed. *)
LeaveInnermostAlive ==
  /\ UNCHANGED m_activeState
  /\ m_currentInfos' = SubSeq(m_currentInfos, 1, Depth - 1)

LeaveInnermost ==
  /\ m_activeState' = [m_activeState EXCEPT ![Depth] = NoState]
  /\ m_currentInfos' = SubSeq(m_currentInfos, 1, Depth - 1)

(* One round of the loop in doExit: the destructor of the innermost state  *)
(* runs, then its info is dropped.                                         *)
DoExit ==
  /\ pc = "exit"
  /\ Depth > level
  /\ LeaveInnermost
  /\ UserCode
  /\ UNCHANGED <<m_states, m_nextInfos, pc, level, handled>>

ExitDone ==
  /\ pc = "exit"
  /\ Depth <= level
  /\ pc' = "enter"
  /\ UNCHANGED <<chartVars, m_stateUpdate, m_nextState, m_eventQueue, level,
                 posted, handled, requests>>

(* One round of the loop in doEntry: the info is pushed, then the          *)
(* constructor of the state runs in the storage of its level.              *)
DoEntry ==
  /\ pc = "enter"
  /\ Depth # Len(m_nextInfos)
  /\ LET s == m_nextInfos[Depth + 1]
     IN  /\ m_currentInfos' = Append(m_currentInfos, s)
         /\ m_activeState' = [m_activeState EXCEPT ![Depth + 1] = s]
  /\ UserCode
  /\ UNCHANGED <<m_states, m_nextInfos, pc, level, handled>>

(* Mutant: the request is marked as served after the transition. *)
EntryDoneServed ==
  /\ pc = "enter"
  /\ Depth = Len(m_nextInfos)
  /\ pc' = "settle"
  /\ m_stateUpdate' = FALSE
  /\ UNCHANGED <<chartVars, m_nextState, m_eventQueue, level, posted,
                 handled, requests>>

EntryDone ==
  /\ pc = "enter"
  /\ Depth = Len(m_nextInfos)
  /\ pc' = "settle"
  /\ UNCHANGED <<chartVars, m_stateUpdate, m_nextState, m_eventQueue, level,
                 posted, handled, requests>>

(* One round of the loop in cleanup, called by the destructor of the chart *)
(* between events: the states are left, innermost first.                   *)
Cleanup ==
  /\ pc \in {"idle", "cleanup"}
  /\ Depth > 0
  /\ LeaveInnermost
  /\ RequestNothing \/ \E s \in Added : Request(s)
  /\ pc' = "cleanup"
  /\ UNCHANGED <<m_states, m_nextInfos, m_eventQueue, level, posted, handled>>

(* The destructor of the chart returns: requests made by the destructors   *)
(* of states are not served.                                               *)
Destroyed ==
  /\ pc = "cleanup"
  /\ Depth = 0
  /\ pc' = "gone"
  /\ UNCHANGED <<chartVars, m_stateUpdate, m_nextState, m_eventQueue, level,
                 posted, handled, requests>>

Library ==
  \/ ProcessEvent \/ PrepareTransition \/ PopEvent \/ Started
  \/ DoExit \/ ExitDone \/ DoEntry \/ EntryDone

Next ==
  \/ \E s, parent \in State : AddState(s, parent)
  \/ \E s \in State : SetStartState(s)
  \/ PostEvent
  \/ Library
  \/ Cleanup \/ Destroyed

Spec == Init /\ [][Next]_vars

(* The library runs in the thread of its caller and never waits.           *)
FairSpec == Spec /\ WF_vars(Library)
-----------------------------------------------------------------------------
(* Properties.                                                             *)

(* Posted events are handled once each and in the order in which they were *)
(* posted, also those posted by a handler while the queue is being read:   *)
(* postEvent, and the moving head and renormalization of VecQueue.         *)
DeliveredInOrder ==
  Contents(m_eventQueue) = [i \in 1 .. posted - handled |-> handled + i]

(* Whenever the chart may be asked, its active states are the constructed  *)
(* objects on the path from a root state to the innermost one: no event    *)
(* goes to a state that is not constructed (processEvent), and none is     *)
(* left over at a deeper level (doExit, doEntry).                          *)
ActivePathIsConstructed ==
  pc \in {"idle", "dispatch"} =>
    /\ m_currentInfos # <<>>
    /\ m_currentInfos = PathTo[m_currentInfos[Depth]]
    /\ \A l \in Levels :
         m_activeState[l] = IF l <= Depth THEN m_currentInfos[l] ELSE NoState
    /\ pc = "dispatch" => level \in 1 .. Depth

(* "The base state have a much larger lifetime than the sub state": at any *)
(* moment, in the middle of a transition too, a constructed state is at    *)
(* its own level and all states around it are constructed.                 *)
ParentsOutliveChildren ==
  \A l \in Levels :
    m_activeState[l] # NoState =>
      /\ m_states[m_activeState[l]].level = l
      /\ l > 1 => m_activeState[l - 1] = m_states[m_activeState[l]].parent

(* When all events are handled the chart is in the state requested last,   *)
(* also when the request came from a constructor or destructor that ran in *)
(* a transition to somewhere else (prepareTransition, transition).         *)
LastRequestWins ==
  pc = "idle" => m_currentInfos[Depth] = m_nextState

(* A transition leaves no state that contains its target, except the       *)
(* target itself when it is the innermost state: then it is left and       *)
(* entered again (findFirstThatDiffer).                                    *)
TargetPathIsKept ==
  [][pc = "settle" /\ pc' = "exit" =>
       \A i \in level' + 1 .. Depth, k \in DOMAIN m_nextInfos' :
         m_currentInfos[i] = m_nextInfos'[k] =>
           i = Depth /\ k = Len(m_nextInfos')]_vars

(* Starting the chart and processing an event end if the states stop       *)
(* posting events and requesting transitions.                              *)
RunsToCompletion == pc \in {"dispatch", "settle"} ~> pc = "idle"
=============================================================================
