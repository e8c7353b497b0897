----------------------------- MODULE ChartProofs -----------------------------
(***************************************************************************)
(* Proofs about the transitions of a state chart, for every set of states, *)
(* every hierarchy of them and every number of events and requests: which  *)
(* state objects are alive, that the chart ends where it was last told to  *)
(* go, and that a transition leaves no state around its target.            *)
(***************************************************************************)
EXTENDS StateChartProofs, FiniteSetTheorems, WellFoundedInduction

(***************************************************************************)
(* The inductive invariant.                                                *)
(***************************************************************************)

(* Every state lies one level below its parent, root states on level 1,    *)
(* and there are no more levels than states.                               *)
Hierarchy ==
  /\ Added \subseteq State
  /\ m_states \in [Added -> [parent : Added, level : 1 .. Cardinality(Added)]]
  /\ \A s \in Added :
       m_states[s].level = IF IsRoot(s) THEN 1
                           ELSE m_states[m_states[s].parent].level + 1

(* The walk from a state to its root ends: PathTo is what it says.         *)
PathsEnd ==
  \E f : f = [s \in Added |-> IF IsRoot(s) THEN <<s>>
                              ELSE Append(f[m_states[s].parent], s)]

(* States each at its level and below its parent. *)
Chain(p) ==
  /\ p \in Seq(Added)
  /\ \A i \in 1 .. Len(p) :
       /\ m_states[p[i]].level = i
       /\ i > 1 => m_states[p[i]].parent = p[i - 1]

(* The constructed objects are those of the active states.                 *)
ActiveInv ==
  /\ Chain(m_currentInfos)
  /\ m_activeState =
       [l \in Levels |-> IF l <= Depth THEN m_currentInfos[l] ELSE NoState]
  /\ pc = "setup" => m_currentInfos = <<>>

(* Only added states are asked for.                                        *)
RequestInv ==
  /\ pc # "setup" => m_nextState \in Added
  /\ pc = "idle" => ~m_stateUpdate

(* Between transitions the chart is in one state with all those around it, *)
(* the one asked for last unless another transition is to follow.          *)
RestInv ==
  pc \in {"settle", "dispatch", "idle"} =>
    \/ /\ m_currentInfos # <<>>
       /\ m_currentInfos = PathTo[m_currentInfos[Depth]]
       /\ ~m_stateUpdate => m_currentInfos[Depth] = m_nextState
       /\ pc = "dispatch" => level \in 1 .. Depth
    \/ pc = "settle" /\ m_stateUpdate /\ m_currentInfos = <<>>

(* In a transition the states that stay are those the two paths share.     *)
MoveInv ==
  pc \in {"exit", "enter"} =>
    /\ \E s \in Added : /\ m_nextInfos = PathTo[s]
                        /\ ~m_stateUpdate => s = m_nextState
    /\ level <= Len(m_nextInfos)
    /\ IF pc = "exit" THEN level <= Depth ELSE Depth <= Len(m_nextInfos)
    /\ \A i \in 1 .. Depth : i <= level \/ pc = "enter" =>
                               m_currentInfos[i] = m_nextInfos[i]

Inv ==
  /\ TypeOK
  /\ QueueInv
  /\ Hierarchy
  /\ PathsEnd
  /\ ActiveInv
  /\ RequestInv
  /\ RestInv
  /\ MoveInv
-----------------------------------------------------------------------------
(* Induction, by a least counterexample.                                   *)

LEMMA LeastElement ==
  ASSUME NEW T, T \subseteq Nat, T # {}
  PROVE  \E x \in T : \A y \in T : x <= y
<1> DEFINE R == OpToRel(<, Nat)
<1>1. IsWellFoundedOn(R, Nat)
  BY NatLessThanWellFounded
<1>2. \A x, y \in Nat : x < y => <<x, y>> \in R
  BY DEF OpToRel
<1> HIDE DEF R
<1>3. PICK x \in T : \A y \in T : ~ (<<y, x>> \in R)
  BY <1>1, WFMin
<1>4. ASSUME NEW y \in T PROVE x <= y
  <2>1. x \in Nat /\ y \in Nat
    OBVIOUS
  <2>2. ~ (y < x)
    BY <2>1, <1>2, <1>3
  <2> QED
    BY <2>1, <2>2
<1> QED
  BY <1>4

LEMMA GreatestElement ==
  ASSUME NEW n \in Nat, NEW T, T \subseteq 0 .. n, T # {}
  PROVE  \E x \in T : \A y \in T : y <= x
<1> DEFINE D == {d \in Nat : n - d \in T}
<1>1. PICK t \in T : TRUE
  OBVIOUS
<1>2. n - t \in D
  <2>1. t \in 0 .. n
    OBVIOUS
  <2>2. n - t \in Nat /\ n - (n - t) = t
    BY <2>1
  <2> QED
    BY <2>2
<1>3. PICK d \in D : \A e \in D : d <= e
  <2>1. D \subseteq Nat /\ D # {}
    BY <1>2
  <2> HIDE DEF D
  <2> QED
    BY <2>1, LeastElement
<1>4. ASSUME NEW y \in T PROVE y <= n - d
  <2>1. y \in 0 .. n
    OBVIOUS
  <2>2. n - y \in D
    <3>1. n - y \in Nat /\ n - (n - y) = y
      BY <2>1
    <3> QED
      BY <3>1
  <2>3. d <= n - y /\ d \in Nat
    BY <1>3, <2>2
  <2> QED
    BY <2>1, <2>3
<1> QED
  BY <1>3, <1>4

-----------------------------------------------------------------------------
(* The path to a state (populateNextInfos).                                *)

PathOK(s) ==
  /\ Chain(PathTo[s])
  /\ Len(PathTo[s]) = m_states[s].level
  /\ PathTo[s][m_states[s].level] = s

LEMMA PathEquation ==
  ASSUME Hierarchy, PathsEnd, NEW s \in Added
  PROVE  PathTo[s] = IF IsRoot(s) THEN <<s>>
                     ELSE Append(PathTo[m_states[s].parent], s)
<1>1. PathTo = [t \in Added |-> IF IsRoot(t) THEN <<t>>
                                ELSE Append(PathTo[m_states[t].parent], t)]
  BY Zenon DEF PathsEnd, PathTo
<1> QED
  BY <1>1

LEMMA StateFacts ==
  ASSUME Hierarchy, NEW s \in Added
  PROVE  /\ m_states[s].parent \in Added
         /\ m_states[s].level \in Nat /\ m_states[s].level >= 1
         /\ IsRoot(s) => m_states[s].level = 1
         /\ ~IsRoot(s) =>
              m_states[s].level = m_states[m_states[s].parent].level + 1
BY DEF Hierarchy

(* The path to a state goes down from a root, one level at a time.         *)
LEMMA PathFacts ==
  ASSUME Hierarchy, PathsEnd, NEW s \in Added
  PROVE  PathOK(s)
<1>1. ASSUME NEW t \in Added, IsRoot(t)
      PROVE  PathOK(t)
  <2>1. PathTo[t] = <<t>> /\ m_states[t].level = 1
    BY <1>1, PathEquation, StateFacts
  <2>2. Len(<<t>>) = 1 /\ <<t>>[1] = t /\ <<t>> \in Seq(Added)
    OBVIOUS
  <2> QED
    BY <2>1, <2>2 DEF PathOK, Chain
<1>2. ASSUME NEW t \in Added, ~IsRoot(t), PathOK(m_states[t].parent)
      PROVE  PathOK(t)
  <2> DEFINE q == PathTo[m_states[t].parent]
             n == m_states[m_states[t].parent].level
             p == Append(q, t)
  <2>1. /\ m_states[t].parent \in Added
        /\ PathTo[t] = p /\ m_states[t].level = n + 1
        /\ n \in Nat /\ n >= 1
    BY <1>2, PathEquation, StateFacts
  <2>2. /\ q \in Seq(Added) /\ Len(q) = n /\ q[n] = m_states[t].parent
        /\ \A i \in 1 .. n : /\ m_states[q[i]].level = i
                             /\ i > 1 => m_states[q[i]].parent = q[i - 1]
    BY <1>2 DEF PathOK, Chain
  <2> HIDE DEF q, n
  <2>3. /\ p \in Seq(Added) /\ Len(p) = n + 1
        /\ \A i \in 1 .. n : p[i] = q[i]
        /\ p[n + 1] = t
    BY <2>2, AppendProperties
  <2> HIDE DEF p
  <2>4. ASSUME NEW i \in 1 .. n + 1
        PROVE  /\ m_states[p[i]].level = i
               /\ i > 1 => m_states[p[i]].parent = p[i - 1]
    <3>1. CASE i = n + 1
      BY <2>1, <2>2, <2>3, <3>1
    <3>2. CASE i # n + 1
      <4>1. i \in 1 .. n /\ (i > 1 => i - 1 \in 1 .. n)
        BY <2>1, <3>2
      <4> QED
        BY <2>2, <2>3, <4>1
    <3> QED
      BY <3>1, <3>2
  <2> QED
    BY <2>1, <2>3, <2>4 DEF PathOK, Chain
<1> DEFINE Bad == {n \in Nat : \E t \in Added :
                                 m_states[t].level = n /\ ~PathOK(t)}
<1>3. Bad = {}
  <2> SUFFICES ASSUME Bad # {} PROVE FALSE
    OBVIOUS
  <2>1. PICK n \in Bad : \A k \in Bad : n <= k
    <3>1. Bad \subseteq Nat
      OBVIOUS
    <3> HIDE DEF Bad
    <3> QED
      BY <3>1, LeastElement
  <2>2. PICK t \in Added : m_states[t].level = n /\ ~PathOK(t)
    OBVIOUS
  <2>3. ~IsRoot(t)
    BY <1>1, <2>2
  <2>4. ~PathOK(m_states[t].parent)
    BY <1>2, <2>2, <2>3
  <2> DEFINE l == m_states[m_states[t].parent].level
  <2>5. m_states[t].parent \in Added /\ n = l + 1 /\ l \in Nat
    BY <2>2, <2>3, StateFacts
  <2>6. l \in Bad
    BY <2>4, <2>5
  <2> HIDE DEF l, Bad
  <2>7. n <= l
    BY <2>1, <2>6
  <2> QED
    BY <2>5, <2>7
<1>4. m_states[s].level \in Nat
  BY StateFacts
<1> QED
  BY <1>3, <1>4

(* Chains that meet share all that is above.                               *)
LEMMA ChainsAgree ==
  ASSUME NEW p, NEW q, Chain(p), Chain(q),
         NEW i \in 1 .. Len(p), i <= Len(q), p[i] = q[i]
  PROVE  \A j \in 1 .. i : p[j] = q[j]
<1> DEFINE T == {j \in 0 .. i : j >= 1 /\ p[j] # q[j]}
<1>0. Len(p) \in Nat /\ Len(q) \in Nat
  BY LenProperties DEF Chain
<1>1. T = {}
  <2> SUFFICES ASSUME T # {} PROVE FALSE
    OBVIOUS
  <2>1. PICK j \in T : \A k \in T : k <= j
    <3>1. T \subseteq 0 .. i /\ i \in Nat
      BY <1>0
    <3> HIDE DEF T
    <3> QED
      BY <3>1, GreatestElement
  <2>2. j \in 1 .. i /\ j # i /\ p[j] # q[j]
    OBVIOUS
  <2>3. j + 1 \in 1 .. i /\ j + 1 > 1 /\ (j + 1) - 1 = j
    BY <1>0, <2>2
  <2>4. p[j + 1] = q[j + 1]
    <3>1. j + 1 \notin T
      <4> HIDE DEF T
      <4>1. j \in Int
        BY <2>2
      <4> QED
        BY <2>1, <4>1
    <3> QED
      BY <2>3, <3>1
  <2>5. j + 1 \in 1 .. Len(p) /\ j + 1 \in 1 .. Len(q)
    BY <1>0, <2>3
  <2>6. /\ m_states[p[j + 1]].parent = p[(j + 1) - 1]
        /\ m_states[q[j + 1]].parent = q[(j + 1) - 1]
    BY <2>3, <2>5 DEF Chain
  <2> QED
    BY <2>2, <2>3, <2>4, <2>6
<1> QED
  BY <1>0, <1>1
(* What findFirstThatDiffer finds, for a chart that is at rest.            *)
LEMMA FirstThatDiffers ==
  ASSUME Hierarchy, PathsEnd, Chain(m_currentInfos), m_currentInfos # <<>>,
         m_currentInfos = PathTo[m_currentInfos[Depth]],
         NEW s \in Added, NEW path, path = PathTo[s],
         NEW l, l = FindFirstThatDiffer(path)
  PROVE  /\ l \in Nat /\ l <= Len(path) /\ l <= Depth
         /\ \A i \in 1 .. l : m_currentInfos[i] = path[i]
         /\ \A i \in l + 1 .. Depth, k \in 1 .. Len(path) :
              m_currentInfos[i] = path[k] => i = Depth /\ k = Len(path)
<1> DEFINE cur == m_currentInfos
<1>1. /\ Chain(path) /\ Len(path) \in Nat /\ Len(path) >= 1
      /\ path[Len(path)] = s
  BY PathFacts, StateFacts DEF PathOK
<1>2. /\ path \in Seq(Added) /\ cur \in Seq(Added) /\ Depth = Len(cur)
      /\ Depth \in Nat /\ Depth >= 1
  BY <1>1, LenProperties, EmptySeq DEF Chain, Depth
<1>3. ASSUME NEW i \in 1 .. Depth, NEW k \in 1 .. Len(path), cur[i] = path[k]
      PROVE  i = k
  BY <1>1, <1>2, <1>3 DEF Chain
<1>4. CASE cur[Len(cur)] = path[Len(path)]
  <2>1. cur = path
    BY <1>1, <1>2, <1>4
  <2>2. l = Len(path) - 1
    BY <1>4 DEF FindFirstThatDiffer
  <2>3. Depth = Len(path)
    BY <1>2, <2>1
  <2>4. \A i \in l + 1 .. Depth : i = Depth
    BY <1>1, <2>2, <2>3
  <2>5. ASSUME NEW i \in l + 1 .. Depth, NEW k \in 1 .. Len(path), cur[i] = path[k]
        PROVE  i = Depth /\ k = Len(path)
    <3>1. i = Depth /\ i \in 1 .. Depth
      BY <1>2, <2>4
    <3> QED
      BY <1>3, <2>3, <2>5, <3>1
  <2>6. \A i \in 1 .. l : cur[i] = path[i]
    BY <2>1
  <2> QED
    BY <1>1, <2>2, <2>3, <2>5, <2>6
<1>5. CASE cur[Len(cur)] # path[Len(path)]
  <2> DEFINE C == CommonLevels(path)
  <2>1. C \subseteq 0 .. Len(path) /\ C # {}
    <3>1. 0 \in C
      BY <1>1, <1>2 DEF CommonLevels, Depth
    <3> QED
      BY <3>1 DEF CommonLevels
  <2> HIDE DEF C
  <2>2. \E x \in C : \A y \in C : y <= x
    BY <1>1, <2>1, GreatestElement
  <2>3. l = CHOOSE x \in C : \A y \in C : y <= x
    BY <1>5 DEF FindFirstThatDiffer, C
  <2>4. l \in C /\ \A y \in C : y <= l
    BY <2>2, <2>3
  <2>5. l \in Nat /\ l <= Len(path) /\ l <= Depth
        /\ \A i \in 1 .. l : cur[i] = path[i]
    BY <1>1, <1>2, <2>4 DEF C, CommonLevels
  <2>6. ASSUME NEW i \in l + 1 .. Depth, NEW k \in 1 .. Len(path), cur[i] = path[k]
        PROVE  FALSE
    <3>1. i \in 1 .. Depth /\ i > l
      BY <1>2, <2>5
    <3>2. i = k
      BY <1>3, <2>6, <3>1
    <3>3. \A j \in 1 .. i : cur[j] = path[j]
      BY <1>1, <1>2, <2>6, <3>1, <3>2, ChainsAgree
    <3>4. i \in C
      BY <1>1, <1>2, <3>1, <3>2, <3>3 DEF C, CommonLevels
    <3>5. i <= l
      BY <2>4, <3>4
    <3> QED
      BY <2>5, <3>1, <3>5
  <2> QED
    BY <2>5, <2>6
<1> QED
  BY <1>4, <1>5

-----------------------------------------------------------------------------
(* Facts the steps share.                                                  *)

Core == Hierarchy /\ PathsEnd /\ ActiveInv /\ RequestInv /\ RestInv /\ MoveInv

LEMMA SameStates ==
  ASSUME Hierarchy, PathsEnd, UNCHANGED m_states
  PROVE  Hierarchy' /\ PathsEnd' /\ Added' = Added /\ PathTo' = PathTo
<1>1. Added' = Added /\ PathTo' = PathTo
  BY DEF Added, PathTo, IsRoot
<1> QED
  BY <1>1 DEF Hierarchy, PathsEnd, IsRoot

LEMMA LevelsFacts ==
  ASSUME Hierarchy
  PROVE  /\ Cardinality(Added) \in Nat /\ Cardinality(State) \in Nat
         /\ Cardinality(Added) <= Cardinality(State)
         /\ IsFiniteSet(Added)
BY StateAssumption, FS_Subset, FS_CardinalityType DEF Hierarchy

LEMMA DepthFacts ==
  ASSUME Hierarchy, ActiveInv
  PROVE  /\ Depth \in Nat
         /\ m_currentInfos \in Seq(Added)
         /\ Depth > 0 => Depth \in Levels
         /\ \A i \in 1 .. Depth : m_currentInfos[i] \in Added
         /\ Depth = 0 <=> m_currentInfos = <<>>
<1>1. m_currentInfos \in Seq(Added) /\ Depth \in Nat
  BY LenProperties DEF ActiveInv, Chain, Depth
<1>2. \A i \in 1 .. Depth : m_currentInfos[i] \in Added
  BY <1>1, ElementOfSeq DEF Depth
<1>3. Depth > 0 => Depth \in Levels
  <2> SUFFICES ASSUME Depth > 0 PROVE Depth \in Levels
    OBVIOUS
  <2>1. Depth \in 1 .. Depth
    BY <1>1
  <2>2. m_states[m_currentInfos[Depth]].level = Depth
    BY <2>1 DEF ActiveInv, Chain, Depth
  <2>3. m_states[m_currentInfos[Depth]].level \in 1 .. Cardinality(Added)
    BY <1>2, <2>1 DEF Hierarchy
  <2> QED
    BY <2>2, <2>3, LevelsFacts DEF Levels
<1>4. Depth = 0 <=> m_currentInfos = <<>>
  BY <1>1, EmptySeq DEF Depth
<1> QED
  BY <1>1, <1>2, <1>3, <1>4

LEMMA SameActive ==
  ASSUME Hierarchy, ActiveInv, UNCHANGED <<m_states, m_currentInfos, m_activeState>>,
         pc' = "setup" => pc = "setup"
  PROVE  ActiveInv' /\ Depth' = Depth
<1>1. Added' = Added /\ Depth' = Depth
  BY DEF Added, Depth
<1> QED
  BY <1>1 DEF ActiveInv, Chain

(* User code changes the request only to one for an added state.           *)
Asks ==
  \/ UNCHANGED <<m_nextState, m_stateUpdate>>
  \/ m_stateUpdate' = TRUE /\ m_nextState' \in Added

LEMMA UserAsks ==
  ASSUME UserCode \/ RequestNothing \/ \E s \in Added : Request(s)
  PROVE  Asks
BY DEF UserCode, RequestNothing, Request, Asks

LEMMA LeaveStep ==
  ASSUME Hierarchy, ActiveInv, UNCHANGED m_states, Depth > 0, LeaveInnermost,
         pc' # "setup"
  PROVE  /\ ActiveInv' /\ Depth' = Depth - 1
         /\ \A i \in 1 .. Depth - 1 : m_currentInfos'[i] = m_currentInfos[i]
<1> DEFINE cur == m_currentInfos
           new == SubSeq(cur, 1, Depth - 1)
<1>1. cur \in Seq(Added) /\ Depth \in Nat /\ Depth \in Levels /\ Depth = Len(cur)
  BY DepthFacts DEF Depth
<1>2. /\ m_currentInfos' = new
      /\ m_activeState' = [m_activeState EXCEPT ![Depth] = NoState]
      /\ Added' = Added
  BY DEF LeaveInnermost, Added
<1> HIDE DEF cur
<1>3. /\ new \in Seq(Added) /\ Len(new) = Depth - 1
      /\ \A i \in 1 .. Depth - 1 : new[i] = cur[i]
  <2>1. \A i \in 1 .. Depth - 1 : cur[i] \in Added
    BY <1>1, ElementOfSeq
  <2>2. Depth - 1 \in Int /\ Depth >= 1
    BY <1>1
  <2> QED
    BY <1>1, <2>1, <2>2, SubSeqProperties
<1> HIDE DEF new
<1>4. Depth' = Depth - 1
  BY <1>2, <1>3 DEF Depth
<1>5. Chain(m_currentInfos)'
  <2>1. \A i \in 1 .. Depth - 1 :
          /\ i \in 1 .. Len(cur) /\ (i > 1 => i - 1 \in 1 .. Depth - 1)
          /\ m_states[cur[i]].level = i
          /\ i > 1 => m_states[cur[i]].parent = cur[i - 1]
    BY <1>1 DEF ActiveInv, Chain, cur
  <2> QED
    BY <1>2, <1>3, <2>1 DEF Chain
<1>6. m_activeState' =
        [l \in Levels |-> IF l <= Depth - 1 THEN new[l] ELSE NoState]
  <2>1. m_activeState = [l \in Levels |-> IF l <= Depth THEN cur[l] ELSE NoState]
    BY DEF ActiveInv, cur
  <2>2. m_activeState' = [l \in Levels |-> IF l = Depth THEN NoState
                                           ELSE m_activeState[l]]
    BY <1>2, <2>1
  <2>3. \A l \in Levels : l \in Nat /\ l >= 1
    BY LevelsFacts DEF Levels
  <2>4. ASSUME NEW l \in Levels
        PROVE  (IF l = Depth THEN NoState ELSE m_activeState[l])
                 = IF l <= Depth - 1 THEN new[l] ELSE NoState
    BY <1>1, <1>3, <2>1, <2>3
  <2> QED
    BY <2>2, <2>4
<1> QED
  BY <1>2, <1>3, <1>4, <1>5, <1>6 DEF ActiveInv, cur
-----------------------------------------------------------------------------
(* The steps.                                                              *)

LEMMA AddStateStep ==
  ASSUME Core, NEW s \in State, NEW parent \in State, AddState(s, parent)
  PROVE  Core'
<1> DEFINE row == [parent |-> parent, level |-> LevelUnder(s, parent)]
<1>1. /\ pc = "setup" /\ s \notin Added /\ parent \in Added \cup {s}
      /\ m_states' = Extended(m_states, s, row)
      /\ UNCHANGED <<m_currentInfos, m_activeState, pc, m_nextState, m_stateUpdate>>
  BY DEF AddState
<1>2. /\ Added \subseteq State
      /\ m_states \in [Added -> [parent : Added, level : 1 .. Cardinality(Added)]]
      /\ \A t \in Added :
           m_states[t].level = IF IsRoot(t) THEN 1
                               ELSE m_states[m_states[t].parent].level + 1
  BY DEF Core, Hierarchy
<1>3. /\ Added' = Added \cup {s}
      /\ \A t \in Added : m_states'[t] = m_states[t]
      /\ m_states'[s] = row
      /\ m_states' = [t \in Added' |-> m_states'[t]]
  BY <1>1 DEF Extended, Added
<1>4. row.parent = parent /\ row.level = LevelUnder(s, parent)
  OBVIOUS
<1>5. /\ Cardinality(Added') = Cardinality(Added) + 1
      /\ Cardinality(Added) \in Nat
  BY <1>1, <1>3, LevelsFacts, FS_AddElement DEF Core
<1>6. /\ row.parent \in Added' /\ row.level \in 1 .. Cardinality(Added')
      /\ row.level = IF parent = s THEN 1 ELSE m_states[parent].level + 1
  <2>1. CASE parent = s
    BY <1>3, <1>4, <1>5, <2>1 DEF LevelUnder
  <2>2. CASE parent \in Added
    <3>1. parent # s /\ m_states[parent].level \in 1 .. Cardinality(Added)
      BY <1>1, <1>2, <2>2
    <3> QED
      BY <1>3, <1>4, <1>5, <2>2, <3>1 DEF LevelUnder
  <2> QED
    BY <1>1, <2>1, <2>2
<1> HIDE DEF row
<1>7. Hierarchy'
  <2>1. Added' \subseteq State
    BY <1>2, <1>3
  <2>2. row \in [parent : Added', level : 1 .. Cardinality(Added')]
    BY <1>6 DEF row
  <2>3. \A t \in Added :
          m_states[t] \in [parent : Added', level : 1 .. Cardinality(Added')]
    <3>1. 1 .. Cardinality(Added) \subseteq 1 .. Cardinality(Added')
      BY <1>5
    <3> QED
      BY <1>2, <1>3, <3>1
  <2>4. m_states' \in [Added' -> [parent : Added', level : 1 .. Cardinality(Added')]]
    BY <1>3, <2>2, <2>3
  <2>5. ASSUME NEW t \in Added'
        PROVE  m_states'[t].level =
                 IF m_states'[t].parent = t THEN 1
                 ELSE m_states'[m_states'[t].parent].level + 1
    <3>1. CASE t = s
      BY <1>1, <1>3, <1>4, <1>6, <3>1
    <3>2. CASE t \in Added
      <4>1. m_states[t].parent \in Added
        BY <1>2, <3>2
      <4> QED
        BY <1>2, <1>3, <3>2, <4>1 DEF IsRoot
    <3> QED
      BY <1>3, <3>1, <3>2
  <2> QED
    BY <2>1, <2>4, <2>5 DEF Hierarchy, IsRoot
<1>8. PathsEnd'
  <2>1. PICK f : f = [t \in Added |-> IF IsRoot(t) THEN <<t>>
                                      ELSE Append(f[m_states[t].parent], t)]
    BY DEF Core, PathsEnd
  <2> DEFINE g == [t \in Added' |->
                     IF t # s THEN f[t]
                     ELSE IF parent = s THEN <<s>> ELSE Append(f[parent], s)]
  <2>2. ASSUME NEW t \in Added'
        PROVE  g[t] = IF m_states'[t].parent = t THEN <<t>>
                      ELSE Append(g[m_states'[t].parent], t)
    <3>1. CASE t = s
      <4>1. m_states'[t].parent = parent
        BY <1>3, <1>4, <3>1
      <4>2. parent # s => parent \in Added' /\ g[parent] = f[parent]
        BY <1>1, <1>3
      <4> QED
        BY <1>3, <3>1, <4>1, <4>2
    <3>2. CASE t \in Added
      <4>1. t # s /\ m_states[t].parent \in Added /\ m_states[t].parent # s
        BY <1>1, <1>2, <3>2
      <4>2. /\ g[t] = f[t] /\ g[m_states[t].parent] = f[m_states[t].parent]
        BY <1>3, <4>1
      <4>3. f[t] = IF m_states[t].parent = t THEN <<t>>
                   ELSE Append(f[m_states[t].parent], t)
        BY <2>1, <3>2 DEF IsRoot
      <4> QED
        BY <1>3, <3>2, <4>2, <4>3
    <3> QED
      BY <1>3, <3>1, <3>2
  <2>3. g = [t \in Added' |-> IF m_states'[t].parent = t THEN <<t>>
                              ELSE Append(g[m_states'[t].parent], t)]
    <3>1. g = [t \in Added' |-> g[t]]
      OBVIOUS
    <3> HIDE DEF g
    <3> QED
      BY <2>2, <3>1
  <2> QED
    BY <2>3 DEF PathsEnd, IsRoot
<1>9. ActiveInv'
  <2>1. m_currentInfos' = <<>> /\ m_currentInfos = <<>> /\ Depth' = Depth
    BY <1>1 DEF Core, ActiveInv, Depth
  <2>2. Len(m_currentInfos') = 0 /\ m_currentInfos' \in Seq(Added')
    BY <2>1
  <2>3. Chain(m_currentInfos)'
    BY <2>2 DEF Chain
  <2>4. m_activeState' =
          [l \in Levels |-> IF l <= Depth' THEN m_currentInfos'[l] ELSE NoState]
    BY <1>1, <2>1 DEF Core, ActiveInv
  <2> QED
    BY <2>1, <2>3, <2>4 DEF ActiveInv
<1>10. RequestInv' /\ RestInv' /\ MoveInv'
  BY <1>1 DEF RequestInv, RestInv, MoveInv
<1> QED
  BY <1>7, <1>8, <1>9, <1>10 DEF Core

LEMMA SetStartStep ==
  ASSUME Core, NEW s \in State, SetStartState(s)
  PROVE  Core'
<1>1. /\ pc = "setup" /\ s \in Added /\ m_nextState' = s /\ m_stateUpdate' = TRUE
      /\ pc' = "settle" /\ UNCHANGED <<m_states, m_currentInfos, m_activeState>>
  BY DEF SetStartState, chartVars
<1>2. Hierarchy' /\ PathsEnd' /\ Added' = Added
  BY <1>1, SameStates DEF Core
<1>3. ActiveInv'
  BY <1>1, SameActive DEF Core
<1>4. m_currentInfos' = <<>>
  BY <1>1 DEF Core, ActiveInv
<1>5. RequestInv' /\ MoveInv'
  BY <1>1, <1>2 DEF RequestInv, MoveInv
<1>6. RestInv'
  BY <1>1, <1>4 DEF RestInv
<1> QED
  BY <1>2, <1>3, <1>5, <1>6 DEF Core

(* Between transitions: events come, are asked of states, and are done.    *)
LEMMA RestStep ==
  ASSUME Core, TypeOK, PostEvent \/ ProcessEvent \/ PopEvent \/ Started
  PROVE  Core'
<1>1. /\ UNCHANGED <<m_states, m_currentInfos, m_activeState>>
      /\ pc \in {"idle", "dispatch", "settle"}
      /\ pc' \in {"idle", "dispatch", "settle"}
  BY DEF PostEvent, ProcessEvent, PopEvent, Started, chartVars
<1>2. Hierarchy' /\ PathsEnd' /\ Added' = Added /\ PathTo' = PathTo
  BY <1>1, SameStates DEF Core
<1>3. ActiveInv' /\ Depth' = Depth
  BY <1>1, SameActive DEF Core
<1>4. MoveInv'
  BY <1>1 DEF MoveInv
<1>5. Asks
  BY UserAsks DEF PostEvent, ProcessEvent, PopEvent, Started, Asks
<1>6. pc' = "idle" => ~m_stateUpdate'
  BY DEF PostEvent, ProcessEvent, PopEvent, Started
<1>7. RequestInv'
  BY <1>1, <1>2, <1>5, <1>6 DEF Core, RequestInv, Asks
<1>8. Depth \in Nat /\ (m_currentInfos # <<>> => Depth >= 1)
  BY DepthFacts DEF Core
<1>9. m_currentInfos # <<>>
      => /\ m_currentInfos = PathTo[m_currentInfos[Depth]]
         /\ ~m_stateUpdate => m_currentInfos[Depth] = m_nextState
         /\ pc = "dispatch" => level \in 1 .. Depth
  BY <1>1 DEF Core, RestInv
<1>10. m_currentInfos # <<>>
  BY <1>1 DEF Core, RestInv, PostEvent, ProcessEvent, PopEvent, Started
<1>11. ~m_stateUpdate' => m_currentInfos[Depth] = m_nextState'
  BY <1>5, <1>9, <1>10 DEF Asks
<1>12. pc' = "dispatch" => level' \in 1 .. Depth
  <2>1. CASE PostEvent \/ PopEvent
    BY <1>8, <1>10, <2>1 DEF PostEvent, PopEvent, Depth
  <2>2. CASE ProcessEvent
    BY <1>8, <1>9, <1>10, <2>2 DEF ProcessEvent
  <2>3. CASE Started
    BY <2>3 DEF Started
  <2> QED
    BY <2>1, <2>2, <2>3
<1>13. RestInv'
  BY <1>1, <1>2, <1>3, <1>9, <1>10, <1>11, <1>12 DEF RestInv
<1> QED
  BY <1>2, <1>3, <1>4, <1>7, <1>13 DEF Core

LEMMA PrepareStep ==
  ASSUME Core, TypeOK, PrepareTransition
  PROVE  Core'
<1>1. /\ pc = "settle" /\ pc' = "exit" /\ m_nextInfos' = PathTo[m_nextState]
      /\ UNCHANGED <<m_states, m_currentInfos, m_activeState, m_nextState>>
      /\ level' = IF m_currentInfos = <<>> THEN 0
                  ELSE FindFirstThatDiffer(PathTo[m_nextState])
  BY DEF PrepareTransition
<1>2. Hierarchy' /\ PathsEnd' /\ Added' = Added /\ PathTo' = PathTo
  BY <1>1, SameStates DEF Core
<1>3. ActiveInv' /\ Depth' = Depth
  BY <1>1, SameActive DEF Core
<1>4. m_nextState \in Added
  BY <1>1 DEF Core, RequestInv
<1>5. RequestInv' /\ RestInv'
  BY <1>1, <1>2, <1>4 DEF RequestInv, RestInv
<1>6. Depth \in Nat /\ (m_currentInfos = <<>> => Depth = 0)
  BY DepthFacts DEF Core
<1>7. Len(PathTo[m_nextState]) \in Nat
  BY <1>4, PathFacts, StateFacts DEF Core, PathOK
<1>8. /\ level' \in Nat
      /\ level' <= Len(m_nextInfos') /\ level' <= Depth
      /\ \A i \in 1 .. level' : m_currentInfos[i] = m_nextInfos'[i]
  <2>1. CASE m_currentInfos = <<>>
    BY <1>1, <1>6, <1>7, <2>1
  <2>2. CASE m_currentInfos # <<>>
    <3>1. m_currentInfos = PathTo[m_currentInfos[Depth]] /\ Chain(m_currentInfos)
      BY <1>1, <2>2 DEF Core, RestInv, ActiveInv
    <3> QED
      BY <1>1, <1>4, <2>2, <3>1, FirstThatDiffers DEF Core
  <2> QED
    BY <2>1, <2>2
<1>9. MoveInv'
  <2>1. \E s \in Added' : /\ m_nextInfos' = PathTo'[s]
                          /\ ~m_stateUpdate' => s = m_nextState'
    BY <1>1, <1>2, <1>4
  <2>2. \A i \in 1 .. Depth' : i <= level' => m_currentInfos'[i] = m_nextInfos'[i]
    BY <1>1, <1>3, <1>6, <1>8
  <2> QED
    BY <1>1, <1>3, <1>8, <2>1, <2>2 DEF MoveInv
<1> QED
  BY <1>2, <1>3, <1>5, <1>9 DEF Core
(* The target of a transition under way, as it stays while user code asks  *)
(* for another.                                                            *)
LEMMA TargetKept ==
  ASSUME Core, pc \in {"exit", "enter"}, UNCHANGED <<m_states, m_nextInfos>>, Asks
  PROVE  \E s \in Added' : /\ m_nextInfos' = PathTo'[s]
                           /\ ~m_stateUpdate' => s = m_nextState'
<1>1. PICK s \in Added : /\ m_nextInfos = PathTo[s]
                         /\ ~m_stateUpdate => s = m_nextState
  BY DEF Core, MoveInv
<1>2. Added' = Added /\ PathTo' = PathTo
  BY SameStates DEF Core
<1>3. ~m_stateUpdate' => s = m_nextState'
  BY <1>1 DEF Asks
<1> QED
  BY <1>1, <1>2, <1>3

LEMMA ExitStep ==
  ASSUME Core, TypeOK, DoExit
  PROVE  Core'
<1>1. /\ pc = "exit" /\ pc' = "exit" /\ Depth > level /\ LeaveInnermost /\ Asks
      /\ UNCHANGED <<m_states, m_nextInfos, level>> /\ level \in Nat
  BY UserAsks DEF DoExit, TypeOK
<1>2. Hierarchy' /\ PathsEnd' /\ Added' = Added
  BY <1>1, SameStates DEF Core
<1>3. Depth \in Nat /\ Depth > 0
  BY <1>1, DepthFacts DEF Core
<1>4. /\ ActiveInv' /\ Depth' = Depth - 1
      /\ \A i \in 1 .. Depth - 1 : m_currentInfos'[i] = m_currentInfos[i]
  BY <1>1, <1>3, LeaveStep DEF Core
<1>5. RequestInv' /\ RestInv'
  BY <1>1, <1>2 DEF Core, RequestInv, RestInv, Asks
<1>6. MoveInv'
  <2>1. \A i \in 1 .. Depth' : i <= level => m_currentInfos'[i] = m_nextInfos[i]
    BY <1>1, <1>3, <1>4 DEF Core, MoveInv
  <2>2. level <= Depth' /\ level <= Len(m_nextInfos)
    BY <1>1, <1>3, <1>4 DEF Core, MoveInv
  <2> QED
    BY <1>1, <2>1, <2>2, TargetKept DEF MoveInv
<1> QED
  BY <1>2, <1>4, <1>5, <1>6 DEF Core

LEMMA ExitDoneStep ==
  ASSUME Core, TypeOK, ExitDone
  PROVE  Core'
<1>1. /\ pc = "exit" /\ pc' = "enter" /\ Depth <= level /\ Asks
      /\ UNCHANGED <<m_states, m_currentInfos, m_activeState, m_nextInfos, level>>
      /\ level \in Nat
  BY DEF ExitDone, Asks, chartVars, TypeOK
<1>2. Hierarchy' /\ PathsEnd' /\ Added' = Added
  BY <1>1, SameStates DEF Core
<1>3. ActiveInv' /\ Depth' = Depth /\ Depth \in Nat
  BY <1>1, SameActive, DepthFacts DEF Core
<1>4. RequestInv' /\ RestInv'
  BY <1>1, <1>2 DEF Core, RequestInv, RestInv, Asks
<1>5. /\ level = Depth /\ level <= Len(m_nextInfos)
      /\ \A i \in 1 .. Depth : m_currentInfos[i] = m_nextInfos[i]
  BY <1>1, <1>3 DEF Core, MoveInv
<1>6. MoveInv'
  BY <1>1, <1>3, <1>5, TargetKept DEF MoveInv
<1> QED
  BY <1>2, <1>3, <1>4, <1>6 DEF Core

LEMMA EntryStep ==
  ASSUME Core, TypeOK, DoEntry
  PROVE  Core'
<1> DEFINE s == m_nextInfos[Depth + 1]
           cur == m_currentInfos
           new == Append(cur, s)
<1>1. /\ pc = "enter" /\ pc' = "enter" /\ Depth # Len(m_nextInfos) /\ Asks
      /\ m_currentInfos' = new
      /\ m_activeState' = [m_activeState EXCEPT ![Depth + 1] = s]
      /\ UNCHANGED <<m_states, m_nextInfos, level>>
  BY UserAsks DEF DoEntry
<1>2. Hierarchy' /\ PathsEnd' /\ Added' = Added
  BY <1>1, SameStates DEF Core
<1>3. /\ cur \in Seq(Added) /\ Depth \in Nat /\ Depth = Len(cur)
  BY DepthFacts DEF Core, Depth
<1>4. PICK t \in Added : m_nextInfos = PathTo[t]
  BY <1>1 DEF Core, MoveInv
<1>5. /\ Chain(m_nextInfos) /\ m_nextInfos \in Seq(Added)
      /\ Len(m_nextInfos) \in Nat
  BY <1>4, PathFacts, LenProperties DEF Core, PathOK, Chain
<1>6. /\ Depth <= Len(m_nextInfos) /\ level <= Len(m_nextInfos)
      /\ \A i \in 1 .. Depth : cur[i] = m_nextInfos[i]
  BY <1>1 DEF Core, MoveInv
<1>7. Depth + 1 \in 1 .. Len(m_nextInfos)
  BY <1>1, <1>3, <1>5, <1>6
<1>8. /\ s \in Added /\ m_states[s].level = Depth + 1
      /\ Depth + 1 > 1 => m_states[s].parent = m_nextInfos[(Depth + 1) - 1]
  BY <1>5, <1>7, ElementOfSeq DEF Chain
<1>9. Depth + 1 \in Levels
  <2>1. m_states[s].level \in 1 .. Cardinality(Added)
    BY <1>8 DEF Core, Hierarchy
  <2> QED
    BY <1>8, <2>1, LevelsFacts DEF Core, Levels
<1> HIDE DEF s, cur
<1>10. /\ new \in Seq(Added) /\ Len(new) = Depth + 1
       /\ \A i \in 1 .. Depth : new[i] = cur[i]
       /\ new[Depth + 1] = s
  BY <1>3, <1>8, AppendProperties
<1> HIDE DEF new
<1>11. Depth' = Depth + 1
  BY <1>1, <1>10 DEF Depth
<1>12. ASSUME NEW i \in 1 .. Depth + 1
       PROVE  /\ new[i] = m_nextInfos[i]
              /\ m_states[new[i]].level = i
              /\ i > 1 => m_states[new[i]].parent = new[i - 1]
  <2>1. CASE i = Depth + 1
    <3>1. (Depth + 1) - 1 = Depth /\ (Depth + 1 > 1 => Depth \in 1 .. Depth)
      BY <1>3
    <3> QED
      BY <1>6, <1>8, <1>10, <2>1, <3>1 DEF s
  <2>2. CASE i # Depth + 1
    <3>1. i \in 1 .. Depth /\ (i > 1 => i - 1 \in 1 .. Depth)
      BY <1>3, <2>2
    <3>2. /\ m_states[cur[i]].level = i
          /\ i > 1 => m_states[cur[i]].parent = cur[i - 1]
      BY <1>3, <3>1 DEF Core, ActiveInv, Chain, cur
    <3> QED
      BY <1>6, <1>10, <3>1, <3>2
  <2> QED
    BY <2>1, <2>2
<1>13. Chain(m_currentInfos)'
  BY <1>1, <1>2, <1>10, <1>12 DEF Chain
<1>14. m_activeState' =
         [l \in Levels |-> IF l <= Depth + 1 THEN new[l] ELSE NoState]
  <2>1. m_activeState = [l \in Levels |-> IF l <= Depth THEN cur[l] ELSE NoState]
    BY DEF Core, ActiveInv, cur
  <2>2. m_activeState' = [l \in Levels |-> IF l = Depth + 1 THEN s
                                           ELSE m_activeState[l]]
    BY <1>1, <2>1
  <2>3. \A l \in Levels : l \in Nat /\ l >= 1
    BY LevelsFacts DEF Core, Levels
  <2>4. ASSUME NEW l \in Levels
        PROVE  (IF l = Depth + 1 THEN s ELSE m_activeState[l])
                 = IF l <= Depth + 1 THEN new[l] ELSE NoState
    <3>1. CASE l = Depth + 1
      BY <1>3, <1>10, <3>1
    <3>2. CASE l <= Depth
      BY <1>3, <1>10, <2>1, <2>3, <3>2
    <3>3. CASE l > Depth + 1
      BY <1>3, <2>1, <2>3, <3>3
    <3> QED
      BY <1>3, <2>3, <3>1, <3>2, <3>3
  <2> QED
    BY <2>2, <2>4
<1>15. ActiveInv'
  BY <1>1, <1>11, <1>13, <1>14 DEF ActiveInv
<1>16. RequestInv' /\ RestInv'
  BY <1>1, <1>2 DEF Core, RequestInv, RestInv, Asks
<1>17. MoveInv'
  <2>1. Depth' <= Len(m_nextInfos)
    BY <1>7, <1>11
  <2>2. \A i \in 1 .. Depth' : m_currentInfos'[i] = m_nextInfos[i]
    BY <1>1, <1>11, <1>12
  <2> QED
    BY <1>1, <1>6, <2>1, <2>2, TargetKept DEF MoveInv
<1> QED
  BY <1>2, <1>15, <1>16, <1>17 DEF Core

LEMMA EntryDoneStep ==
  ASSUME Core, TypeOK, EntryDone
  PROVE  Core'
<1>1. /\ pc = "enter" /\ pc' = "settle" /\ Depth = Len(m_nextInfos)
      /\ UNCHANGED <<m_states, m_currentInfos, m_activeState, m_nextInfos,
                     m_stateUpdate, m_nextState>>
  BY DEF EntryDone, chartVars
<1>2. Hierarchy' /\ PathsEnd' /\ Added' = Added /\ PathTo' = PathTo
  BY <1>1, SameStates DEF Core
<1>3. ActiveInv' /\ Depth' = Depth
  BY <1>1, SameActive DEF Core
<1>4. PICK s \in Added : /\ m_nextInfos = PathTo[s]
                         /\ ~m_stateUpdate => s = m_nextState
  BY <1>1 DEF Core, MoveInv
<1>5. /\ m_nextInfos \in Seq(Added) /\ Depth \in Nat /\ Depth >= 1
      /\ m_nextInfos[Depth] = s
  BY <1>1, <1>4, PathFacts, StateFacts DEF Core, PathOK, Chain
<1>6. m_currentInfos = m_nextInfos
  <2>1. m_currentInfos \in Seq(Added) /\ Len(m_currentInfos) = Len(m_nextInfos)
    BY <1>1, DepthFacts DEF Core, Depth
  <2>2. \A i \in 1 .. Len(m_nextInfos) : m_currentInfos[i] = m_nextInfos[i]
    BY <1>1 DEF Core, MoveInv
  <2> QED
    BY <1>5, <2>1, <2>2, SeqEqual
<1>7. m_currentInfos # <<>>
  BY <1>5, DepthFacts DEF Core
<1>8. RequestInv' /\ MoveInv'
  BY <1>1, <1>2 DEF Core, RequestInv, MoveInv
<1>9. RestInv'
  BY <1>1, <1>2, <1>3, <1>4, <1>5, <1>6, <1>7 DEF RestInv
<1> QED
  BY <1>2, <1>3, <1>8, <1>9 DEF Core

LEMMA CleanupStep ==
  ASSUME Core, TypeOK, Cleanup \/ Destroyed
  PROVE  Core'
<1>1. /\ pc # "setup" /\ pc' \in {"cleanup", "gone"} /\ Asks /\ UNCHANGED m_states
  BY UserAsks DEF Cleanup, Destroyed, Asks, chartVars
<1>2. Hierarchy' /\ PathsEnd' /\ Added' = Added
  BY <1>1, SameStates DEF Core
<1>3. ActiveInv'
  <2>1. CASE Cleanup
    BY <1>1, <2>1, LeaveStep DEF Core, Cleanup
  <2>2. CASE Destroyed
    BY <1>1, <2>2, SameActive DEF Core, Destroyed, chartVars
  <2> QED
    BY <2>1, <2>2
<1>4. RequestInv' /\ RestInv' /\ MoveInv'
  BY <1>1, <1>2 DEF Core, RequestInv, RestInv, MoveInv, Asks
<1> QED
  BY <1>2, <1>3, <1>4 DEF Core

LEMMA CoreStep == Core /\ TypeOK /\ [Next]_vars => Core'
<1> SUFFICES ASSUME Core, TypeOK, [Next]_vars PROVE Core'
  OBVIOUS
<1>1. CASE UNCHANGED vars
  <2>1. UNCHANGED <<m_states, m_currentInfos, m_activeState, m_nextInfos, pc,
                    level, m_stateUpdate, m_nextState>>
    BY <1>1 DEF vars
  <2>2. Hierarchy' /\ PathsEnd' /\ Added' = Added /\ PathTo' = PathTo
    BY <2>1, SameStates DEF Core
  <2>3. ActiveInv' /\ Depth' = Depth
    BY <2>1, SameActive DEF Core
  <2>4. RequestInv' /\ RestInv' /\ MoveInv'
    BY <2>1, <2>2, <2>3 DEF Core, RequestInv, RestInv, MoveInv
  <2> QED
    BY <2>2, <2>3, <2>4 DEF Core
<1>2. CASE Next
  BY <1>2, AddStateStep, SetStartStep, RestStep, PrepareStep, ExitStep,
     ExitDoneStep, EntryStep, EntryDoneStep, CleanupStep
  DEF Next, Library
<1> QED
  BY <1>1, <1>2
-----------------------------------------------------------------------------
(* Types.                                                                  *)

(* What the invariant says of the type of the chart itself. *)
ChartOK ==
  /\ Added \subseteq State
  /\ m_states \in [Added -> [parent : State, level : Levels]]
  /\ m_currentInfos \in Seq(State)
  /\ m_activeState \in [Levels -> State \cup {NoState}]

LEMMA ChartType == Core => ChartOK
<1> SUFFICES ASSUME Hierarchy, ActiveInv PROVE ChartOK
  BY DEF Core
<1>1. Added \subseteq State
  BY DEF Hierarchy
<1>2. m_states \in [Added -> [parent : State, level : Levels]]
  <2>1. 1 .. Cardinality(Added) \subseteq Levels
    BY LevelsFacts DEF Levels
  <2> QED
    BY <1>1, <2>1 DEF Hierarchy
<1>3. m_currentInfos \in Seq(State)
  BY <1>1, DepthFacts
<1>4. \A l \in Levels : l \in Nat /\ l >= 1
  BY LevelsFacts DEF Levels
<1>5. \A l \in Levels : l <= Depth => m_currentInfos[l] \in State
  BY <1>1, <1>4, DepthFacts
<1>6. m_activeState \in [Levels -> State \cup {NoState}]
  BY <1>5 DEF ActiveInv
<1> QED
  BY <1>1, <1>2, <1>3, <1>6 DEF ChartOK

(* The event queue and the counters. *)
QueueOK ==
  /\ Sound(m_eventQueue, 1 .. PostLimit)
  /\ posted \in 0 .. PostLimit
  /\ handled \in 0 .. posted

LEMMA QueueType ==
  ASSUME QueueOK, QueueInv, [Next]_vars
  PROVE  QueueOK'
<1>1. posted \in 0 .. PostLimit /\ handled \in 0 .. posted /\ PostLimit \in Nat
  BY LimitAssumption DEF QueueOK
<1>2. CASE UNCHANGED <<m_eventQueue, posted, handled>>
  BY <1>2 DEF QueueOK, Sound, EmptyQueue
<1>3. ASSUME m_eventQueue' = Push(m_eventQueue, posted + 1),
             posted < PostLimit, posted' = posted + 1, UNCHANGED handled
      PROVE  QueueOK'
  <2>1. posted + 1 \in 1 .. PostLimit
    BY <1>1, <1>3
  <2>2. Sound(m_eventQueue', 1 .. PostLimit)
    <3>1. Sound(Push(m_eventQueue, posted + 1), 1 .. PostLimit)
      BY <2>1, PushAppends DEF QueueOK
    <3> QED
      BY <1>3, <3>1
  <2>3. posted' \in 0 .. PostLimit /\ handled' \in 0 .. posted'
    BY <1>1, <1>3
  <2> QED
    BY <2>2, <2>3 DEF QueueOK
<1>4. CASE PopEvent
  <2>1. /\ m_eventQueue' = Pop(m_eventQueue) /\ handled < posted
        /\ handled' = handled + 1 /\ UNCHANGED posted
    BY <1>4 DEF PopEvent
  <2>2. Len(Contents(m_eventQueue)) > 0
    <3>1. /\ Contents(m_eventQueue) = [i \in 1 .. posted - handled |-> handled + i]
          /\ Contents(m_eventQueue) \in Seq(Nat)
      BY ContentsElements DEF QueueInv, DeliveredInOrder
    <3>2. DOMAIN Contents(m_eventQueue) = 1 .. posted - handled
      BY <3>1
    <3>3. /\ DOMAIN Contents(m_eventQueue) = 1 .. Len(Contents(m_eventQueue))
          /\ Len(Contents(m_eventQueue)) \in Nat
      BY <3>1, LenProperties
    <3>4. 1 \in 1 .. posted - handled
      BY <1>1, <2>1
    <3>5. 1 \in 1 .. Len(Contents(m_eventQueue))
      BY <3>2, <3>3, <3>4
    <3> QED
      BY <3>3, <3>5
  <2>3. Sound(Pop(m_eventQueue), 1 .. PostLimit)
    BY <2>2, PopDropsFirst DEF QueueOK
  <2>4. posted' \in 0 .. PostLimit /\ handled' \in 0 .. posted'
    BY <1>1, <2>1
  <2> QED
    BY <2>1, <2>3, <2>4 DEF QueueOK
<1>5. CASE UserCode /\ UNCHANGED handled
  BY <1>2, <1>3, <1>5 DEF UserCode, PostNothing, PostInside
<1>6. CASE PostEvent
  BY <1>3, <1>6 DEF PostEvent
<1>7. ASSUME NEW s \in State, NEW parent \in State, AddState(s, parent)
      PROVE  QueueOK'
  BY <1>2, <1>7 DEF AddState
<1>8. ASSUME NEW s \in State, SetStartState(s)
      PROVE  QueueOK'
  BY <1>2, <1>8 DEF SetStartState
<1>9. CASE ProcessEvent \/ DoExit \/ DoEntry
  BY <1>5, <1>9 DEF ProcessEvent, DoExit, DoEntry
<1>10. CASE PrepareTransition \/ Started \/ ExitDone \/ EntryDone \/ Cleanup \/ Destroyed
  BY <1>2, <1>10
  DEF PrepareTransition, Started, ExitDone, EntryDone, Cleanup, Destroyed
<1>11. CASE UNCHANGED vars
  BY <1>2, <1>11 DEF vars
<1> QED
  BY <1>4, <1>6, <1>7, <1>8, <1>9, <1>10, <1>11 DEF Next, Library

(* The other variables. *)
ControlOK ==
  /\ m_nextInfos \in Seq(State)
  /\ m_nextState \in State \cup {NoState}
  /\ pc \in Phase
  /\ level \in Nat
  /\ requests \in 0 .. RequestLimit

LEMMA UserType ==
  ASSUME Added \subseteq State, m_nextState \in State \cup {NoState},
         m_stateUpdate \in BOOLEAN, requests \in 0 .. RequestLimit,
         UserCode \/ RequestNothing \/ \E s \in Added : Request(s)
  PROVE  /\ m_nextState' \in State \cup {NoState}
         /\ m_stateUpdate' \in BOOLEAN
         /\ requests' \in 0 .. RequestLimit
<1>1. RequestNothing \/ \E s \in Added : Request(s)
  BY DEF UserCode
<1>2. CASE RequestNothing
  BY <1>2 DEF RequestNothing
<1>3. ASSUME NEW s \in Added, Request(s)
      PROVE  /\ m_nextState' \in State \cup {NoState}
             /\ m_stateUpdate' \in BOOLEAN
             /\ requests' \in 0 .. RequestLimit
  <2>1. m_stateUpdate' \in BOOLEAN
    BY <1>3 DEF Request
  <2>2. requests' \in 0 .. RequestLimit
    BY <1>3, LimitAssumption DEF Request
  <2>3. m_nextState' \in State
    BY <1>3 DEF Request
  <2> QED
    BY <2>1, <2>2, <2>3
<1> QED
  BY <1>1, <1>2, <1>3

LEMMA ControlType ==
  ASSUME TypeOK, Core, [Next]_vars
  PROVE  ControlOK' /\ m_stateUpdate' \in BOOLEAN
<1>1. /\ ControlOK /\ m_stateUpdate \in BOOLEAN /\ Added \subseteq State
      /\ m_nextState \in State \cup {NoState} /\ requests \in 0 .. RequestLimit
  BY DEF TypeOK, ControlOK
<1>2. Depth \in Nat
  BY DepthFacts DEF Core
<1>3. CASE UNCHANGED vars
  BY <1>1, <1>3 DEF vars, ControlOK
<1>4. ASSUME NEW s \in State, NEW parent \in State, AddState(s, parent)
      PROVE  ControlOK' /\ m_stateUpdate' \in BOOLEAN
  BY <1>1, <1>4 DEF AddState, ControlOK
<1>5. ASSUME NEW s \in State, SetStartState(s)
      PROVE  ControlOK' /\ m_stateUpdate' \in BOOLEAN
  <2>1. m_stateUpdate' \in BOOLEAN
    BY <1>5 DEF SetStartState
  <2> QED
    BY <1>1, <1>5, <2>1 DEF SetStartState, ControlOK, Phase, chartVars
<1>6. CASE PostEvent \/ PopEvent
  <2>1. /\ level' = Depth /\ pc' \in Phase
        /\ UNCHANGED <<m_nextInfos, m_nextState, m_stateUpdate, requests>>
    BY <1>6 DEF PostEvent, PopEvent, Depth, Phase, chartVars
  <2> QED
    BY <1>1, <1>2, <2>1 DEF ControlOK
<1>7. CASE Started \/ ExitDone \/ EntryDone \/ Destroyed
  <2>1. /\ pc' \in Phase
        /\ UNCHANGED <<m_nextInfos, m_nextState, m_stateUpdate, requests, level>>
    BY <1>7 DEF Started, ExitDone, EntryDone, Destroyed, Phase, chartVars
  <2> QED
    BY <1>1, <2>1 DEF ControlOK
<1>8. CASE ProcessEvent \/ DoExit \/ DoEntry \/ Cleanup
  <2>1. /\ m_nextState' \in State \cup {NoState} /\ m_stateUpdate' \in BOOLEAN
        /\ requests' \in 0 .. RequestLimit
    BY <1>1, <1>8, UserType DEF ProcessEvent, DoExit, DoEntry, Cleanup
  <2>2. level' \in Nat
    BY <1>1, <1>8 DEF ProcessEvent, DoExit, DoEntry, Cleanup, ControlOK
  <2>3. pc' \in Phase /\ UNCHANGED m_nextInfos
    BY <1>1, <1>8
    DEF ProcessEvent, DoExit, DoEntry, Cleanup, ControlOK, Phase, chartVars
  <2> QED
    BY <1>1, <2>1, <2>2, <2>3 DEF ControlOK
<1>9. CASE PrepareTransition
  <2>1. /\ pc = "settle" /\ m_nextInfos' = PathTo[m_nextState] /\ pc' = "exit"
        /\ level' = IF m_currentInfos = <<>> THEN 0
                    ELSE FindFirstThatDiffer(PathTo[m_nextState])
        /\ UNCHANGED <<m_nextState, requests>>
    BY <1>9 DEF PrepareTransition
  <2>2. m_stateUpdate' \in BOOLEAN
    BY <1>9 DEF PrepareTransition
  <2>3. m_nextState \in Added
    BY <2>1 DEF Core, RequestInv
  <2>4. m_nextInfos' \in Seq(State)
    BY <1>1, <2>1, <2>3, PathFacts DEF Core, PathOK, Chain
  <2>5. level' \in Nat
    <3>1. CASE m_currentInfos # <<>>
      <4>1. m_currentInfos = PathTo[m_currentInfos[Depth]] /\ Chain(m_currentInfos)
        BY <2>1, <3>1 DEF Core, RestInv, ActiveInv
      <4> QED
        BY <2>1, <2>3, <3>1, <4>1, FirstThatDiffers DEF Core
    <3> QED
      BY <2>1, <3>1
  <2> QED
    BY <1>1, <2>1, <2>2, <2>4, <2>5 DEF ControlOK, Phase
<1> QED
  BY <1>3, <1>4, <1>5, <1>6, <1>7, <1>8, <1>9 DEF Next, Library

-----------------------------------------------------------------------------
(* The theorems.                                                           *)

LEMMA InitInv == Init => Inv
<1> SUFFICES ASSUME Init PROVE Inv
  OBVIOUS
<1>1. /\ m_states = <<>> /\ m_currentInfos = <<>> /\ m_nextInfos = <<>>
      /\ m_activeState = [l \in Levels |-> NoState]
      /\ m_nextState = NoState /\ m_eventQueue = EmptyQueue /\ pc = "setup"
      /\ level = 0 /\ posted = 0 /\ handled = 0 /\ requests = 0
  BY DEF Init
<1>2. m_stateUpdate \in BOOLEAN
  BY DEF Init
<1>3. Added = {}
  BY <1>1 DEF Added
<1>4. QueueInv
  BY OrderInit
<1>5. m_states \in [Added -> [parent : Added, level : 1 .. Cardinality(Added)]]
  BY <1>1, <1>3
<1>6. Hierarchy
  BY <1>3, <1>5 DEF Hierarchy
<1>7. PathsEnd
  <2>1. <<>> = [s \in Added |-> IF IsRoot(s) THEN <<s>>
                                ELSE Append(<<>>[m_states[s].parent], s)]
    BY <1>3
  <2> QED
    BY <2>1 DEF PathsEnd
<1>8. ActiveInv
  <2>1. m_currentInfos \in Seq(Added) /\ Len(m_currentInfos) = 0 /\ Depth = 0
    BY <1>1 DEF Depth
  <2>2. Chain(m_currentInfos)
    BY <2>1 DEF Chain
  <2>3. \A l \in Levels : ~ (l <= 0)
    BY LevelsFacts, <1>6 DEF Levels
  <2> QED
    BY <1>1, <2>1, <2>2, <2>3 DEF ActiveInv
<1>9. RequestInv /\ RestInv /\ MoveInv
  BY <1>1 DEF RequestInv, RestInv, MoveInv
<1>10. QueueOK
  <2>1. m_eventQueue.store = <<>> /\ m_eventQueue.head = 0
    BY <1>1 DEF EmptyQueue
  <2> QED
    BY <1>1, <2>1, LimitAssumption DEF QueueOK, Sound
<1>11. TypeOK
  <2>1. requests \in 0 .. RequestLimit /\ m_nextInfos \in Seq(State)
        /\ pc \in Phase /\ level \in Nat
    BY <1>1, LimitAssumption DEF Phase
  <2> QED
    BY <1>1, <1>2, <1>6, <1>7, <1>8, <1>9, <1>10, <2>1, ChartType
    DEF TypeOK, QueueOK, ChartOK, Core
<1> QED
  BY <1>4, <1>6, <1>7, <1>8, <1>9, <1>11 DEF Inv

LEMMA StepInv == Inv /\ [Next]_vars => Inv'
<1> SUFFICES ASSUME Inv, [Next]_vars PROVE Inv'
  OBVIOUS
<1>1. TypeOK /\ QueueInv /\ Core
  BY DEF Inv, Core
<1>2. QueueInv'
  BY <1>1, OrderStep
<1>3. Core'
  BY <1>1, CoreStep
<1>4. QueueOK'
  BY <1>1, QueueType DEF TypeOK, QueueOK
<1>5. ControlOK' /\ m_stateUpdate' \in BOOLEAN
  BY <1>1, ControlType
<1>6. ChartOK'
  BY <1>3, ChartType, PTL
<1>7. TypeOK'
  BY <1>4, <1>5, <1>6 DEF TypeOK, QueueOK, ControlOK, ChartOK
<1> QED
  BY <1>2, <1>3, <1>7 DEF Inv, Core

(* The invariant holds throughout.                                         *)
THEOREM ChartInvariance == Spec => []Inv
  BY InitInv, StepInv, PTL DEF Spec

(* The members of the chart stay well typed.                               *)
THEOREM ChartTypeSafety == Spec => []TypeOK
<1>1. Inv => TypeOK
  BY DEF Inv
<1> QED
  BY ChartInvariance, <1>1, PTL

(* A chart at rest is in one state with all the states around it, and just *)
(* these are constructed (doExit, doEntry): no event goes to a state that  *)
(* is not.                                                                 *)
THEOREM ActivePath == Spec => []ActivePathIsConstructed
<1>1. Inv => ActivePathIsConstructed
  BY DEF Inv, ActiveInv, RestInv, ActivePathIsConstructed
<1> QED
  BY ChartInvariance, <1>1, PTL

(* The states around a constructed state are constructed, in the middle of *)
(* a transition too.                                                       *)
THEOREM Lifetimes == Spec => []ParentsOutliveChildren
<1>1. Inv => ParentsOutliveChildren
  <2> SUFFICES ASSUME Inv, NEW l \in Levels, m_activeState[l] # NoState
               PROVE  /\ m_states[m_activeState[l]].level = l
                      /\ l > 1 => m_activeState[l - 1] =
                                    m_states[m_activeState[l]].parent
    BY DEF ParentsOutliveChildren
  <2>1. Hierarchy /\ ActiveInv
    BY DEF Inv
  <2>2. m_activeState =
          [k \in Levels |-> IF k <= Depth THEN m_currentInfos[k] ELSE NoState]
    BY <2>1 DEF ActiveInv
  <2>3. l <= Depth /\ m_activeState[l] = m_currentInfos[l]
    BY <2>2
  <2>4. l \in 1 .. Depth /\ Depth \in Nat /\ (l > 1 => l - 1 \in Levels)
    BY <2>1, <2>3, LevelsFacts, DepthFacts DEF Levels
  <2>5. /\ m_states[m_currentInfos[l]].level = l
        /\ l > 1 => m_states[m_currentInfos[l]].parent = m_currentInfos[l - 1]
    BY <2>1, <2>4 DEF ActiveInv, Chain, Depth
  <2>6. l > 1 => m_activeState[l - 1] = m_currentInfos[l - 1]
    BY <2>2, <2>4
  <2> QED
    BY <2>3, <2>5, <2>6
<1> QED
  BY ChartInvariance, <1>1, PTL

(* A chart with no event left is in the state that was asked for last.     *)
THEOREM LastRequest == Spec => []LastRequestWins
<1>1. Inv => LastRequestWins
  BY DEF Inv, RestInv, RequestInv, LastRequestWins
<1> QED
  BY ChartInvariance, <1>1, PTL

(* A transition leaves no state around its target (findFirstThatDiffer).   *)
THEOREM TargetPath == Spec => TargetPathIsKept
<1> DEFINE Kept ==
      pc = "settle" /\ pc' = "exit" =>
        \A i \in level' + 1 .. Depth, k \in DOMAIN m_nextInfos' :
          m_currentInfos[i] = m_nextInfos'[k] =>
            i = Depth /\ k = Len(m_nextInfos')
<1>1. ASSUME Inv, [Next]_vars
      PROVE  [Kept]_vars
  <2> SUFFICES ASSUME Next, pc = "settle", pc' = "exit"
               PROVE  \A i \in level' + 1 .. Depth, k \in DOMAIN m_nextInfos' :
                        m_currentInfos[i] = m_nextInfos'[k] =>
                          i = Depth /\ k = Len(m_nextInfos')
    BY <1>1 DEF vars
  <2>1. PrepareTransition
    BY DEF Next, Library, AddState, SetStartState, PostEvent, ProcessEvent,
           PopEvent, Started, DoExit, ExitDone, DoEntry, EntryDone, Cleanup, Destroyed
  <2>2. /\ m_nextInfos' = PathTo[m_nextState]
        /\ level' = IF m_currentInfos = <<>> THEN 0
                    ELSE FindFirstThatDiffer(PathTo[m_nextState])
    BY <2>1 DEF PrepareTransition
  <2>3. Core /\ m_nextState \in Added
    BY <1>1 DEF Inv, Core, RequestInv
  <2>4. m_nextInfos' \in Seq(Added) /\ DOMAIN m_nextInfos' = 1 .. Len(m_nextInfos')
    BY <2>2, <2>3, PathFacts, LenProperties DEF Core, PathOK, Chain
  <2>5. CASE m_currentInfos = <<>>
    <3>1. Depth = 0 /\ level' = 0
      BY <2>2, <2>3, <2>5, DepthFacts DEF Core
    <3> QED
      BY <3>1
  <2>6. CASE m_currentInfos # <<>>
    <3>1. m_currentInfos = PathTo[m_currentInfos[Depth]] /\ Chain(m_currentInfos)
      BY <2>3, <2>6 DEF Core, RestInv, ActiveInv
    <3> QED
      BY <2>2, <2>3, <2>4, <2>6, <3>1, FirstThatDiffers DEF Core
  <2> QED
    BY <2>5, <2>6
<1> QED
  BY <1>1, ChartInvariance, PTL DEF Spec, TargetPathIsKept
=============================================================================
