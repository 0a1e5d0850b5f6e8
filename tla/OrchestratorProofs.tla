--------------------------- MODULE OrchestratorProofs ---------------------------
(***************************************************************************)
(* What holds of `agm run --group` for every plan, every grouping of its   *)
(* nodes and every width of the groups, whatever other commands run in     *)
(* between and wherever a run is killed.                                   *)
(***************************************************************************)
EXTENDS Orchestrator, ListTheorems

Waiting == {"pending", "ready"}

-------------------------------------------------------------------------------
(***************************************************************************)
(* Lists of nodes                                                          *)
(***************************************************************************)
\* A chunk and the rest are the list, in its order.
LEMMA ChunkAndRest ==
    ASSUME NEW S, todo \in Seq(S), todo # <<>>, grouping.width[Group] \in Nat \ {0}
    PROVE  /\ Chunk \in Seq(S) /\ Rest \in Seq(S)
           /\ ToSet(todo) = ToSet(Chunk) \cup ToSet(Rest)
           /\ Serial => ToSet(Chunk) = {Head(todo)} /\ Rest = Tail(todo)
           /\ Chunk # <<>>
  <1> DEFINE w == IF Len(todo) < grouping.width[Group] THEN Len(todo) ELSE grouping.width[Group]
             n == Len(todo)
  <1>1. n \in Nat \ {0} /\ w \in 1 .. n /\ \A i \in 1 .. n : todo[i] \in S
    BY EmptySeq, ElementOfSeq
  <1>2. /\ Chunk = SubSeq(todo, 1, w) /\ Chunk \in Seq(S) /\ Len(Chunk) = w
        /\ \A i \in 1 .. w : Chunk[i] = todo[i]
    <2>1. Chunk = SubSeq(todo, 1, w)
      BY DEF Chunk
    <2>2. \A i \in 1 .. w : todo[i] \in S
      BY <1>1
    <2> HIDE DEF w
    <2>3. SubSeq(todo, 1, w) \in Seq(S) /\ Len(SubSeq(todo, 1, w)) = (IF 1 <= w THEN w - 1 + 1 ELSE 0)
          /\ \A i \in 1 .. w - 1 + 1 : SubSeq(todo, 1, w)[i] = todo[1 + i - 1]
      BY <1>1, <2>2, SubSeqProperties
    <2> QED
      BY <1>1, <2>1, <2>3
  <1>3. /\ Rest = SubSeq(todo, w + 1, n) /\ Rest \in Seq(S) /\ Len(Rest) = n - w
        /\ \A i \in 1 .. n - w : Rest[i] = todo[w + i]
    <2>1. Rest = SubSeq(todo, w + 1, n)
      BY <1>2 DEF Rest
    <2> HIDE DEF w
    <2>2. \A i \in w + 1 .. n : todo[i] \in S
      BY <1>1
    <2>3. SubSeq(todo, w + 1, n) \in Seq(S)
          /\ Len(SubSeq(todo, w + 1, n)) = (IF w + 1 <= n THEN n - (w + 1) + 1 ELSE 0)
          /\ \A i \in 1 .. n - (w + 1) + 1 : SubSeq(todo, w + 1, n)[i] = todo[(w + 1) + i - 1]
      BY <1>1, <2>2, SubSeqProperties
    <2> QED
      BY <1>1, <2>1, <2>3
  <1>4. ASSUME Serial
        PROVE  w = 1 /\ Rest = Tail(todo) /\ Head(todo) = todo[1]
    <2>1. w = 1
      BY <1>1, <1>4 DEF Serial
    <2>2. Head(todo) = todo[1] /\ Tail(todo) = SubSeq(todo, 2, Len(todo))
      BY HeadTailProperties, TailIsSubSeq
    <2> HIDE DEF w
    <2>3. w + 1 = 2
      BY <2>1
    <2>4. Rest = SubSeq(todo, 2, Len(todo))
      BY <1>3, <2>3
    <2> QED
      BY <2>1, <2>2, <2>4
  <1>0. IsList(todo) /\ IsList(Chunk) /\ IsList(Rest)
    BY <1>2, <1>3, InList
  <1> HIDE DEF w
  <1>5. ASSUME NEW x \in ToSet(todo)
        PROVE  x \in ToSet(Chunk) \cup ToSet(Rest)
    <2>1. PICK i \in 1 .. n : x = todo[i]
      BY <1>0 DEF IsList
    <2>2. CASE i <= w
      <3>1. i \in 1 .. Len(Chunk) /\ x = Chunk[i]
        BY <1>1, <1>2, <2>1, <2>2
      <3> QED
        BY <1>2, <3>1, <1>0 DEF IsList
    <2>3. CASE i > w
      <3>1. i - w \in 1 .. Len(Rest) /\ x = Rest[i - w]
        BY <1>1, <1>3, <2>1, <2>3
      <3> QED
        BY <1>3, <3>1, <1>0 DEF IsList
    <2> QED
      BY <1>1, <2>2, <2>3
  <1>6. ASSUME NEW x \in ToSet(Chunk)
        PROVE  x \in ToSet(todo) /\ (w = 1 => x = todo[1])
    <2>1. PICK i \in 1 .. Len(Chunk) : x = Chunk[i]
      BY <1>2, <1>0 DEF IsList
    <2>2. i \in 1 .. n /\ x = todo[i] /\ (w = 1 => i = 1)
      BY <1>1, <1>2, <2>1
    <2> QED
      BY <2>2, <1>0 DEF IsList
  <1>7. ASSUME NEW x \in ToSet(Rest)
        PROVE  x \in ToSet(todo)
    <2>1. PICK i \in 1 .. Len(Rest) : x = Rest[i]
      BY <1>3, <1>0 DEF IsList
    <2>2. w + i \in 1 .. n /\ x = todo[w + i]
      BY <1>1, <1>3, <2>1
    <2> QED
      BY <2>2, <1>0 DEF IsList
  <1>8. Chunk[1] \in ToSet(Chunk) /\ Chunk[1] = todo[1]
    BY <1>1, <1>2, <1>0 DEF IsList
  <1>10. Chunk # <<>>
    BY <1>1, <1>2, EmptySeq
  <1> QED
    BY <1>2, <1>3, <1>4, <1>5, <1>6, <1>7, <1>8, <1>10

\* The startable nodes of a list are those that wait, and no others.
LEMMA StartableOnes ==
    ASSUME NEW S, NEW list \in Seq(S)
    PROVE  /\ Startable(list) \in Seq(S)
           /\ ToSet(Startable(list)) = {n \in ToSet(list) : tracker[n] \in Waiting}
  <1> DEFINE I == {i \in DOMAIN list : tracker[list[i]] \in Waiting}
             c == Cardinality(I)
             f == [i \in I |-> Cardinality({j \in I : j <= i})]
             Pick(k) == CHOOSE i \in I : Cardinality({j \in I : j <= i}) = k
             s == Startable(list)
  <1>1. DOMAIN list = 1 .. Len(list) /\ Len(list) \in Nat /\ \A i \in DOMAIN list : list[i] \in S
    BY LenProperties, ElementOfSeq
  <1>2. I \in SUBSET Nat /\ IsFiniteSet(I) /\ c \in Nat
    <2>1. I \in SUBSET (1 .. Len(list))
      BY <1>1
    <2> HIDE DEF I
    <2>2. IsFiniteSet(1 .. Len(list))
      BY <1>1, FS_Interval
    <2>3. IsFiniteSet(I)
      BY <2>1, <2>2, FS_Subset
    <2> QED
      BY <2>1, <2>3, FS_CardinalityType
  <1>3. /\ \A i \in I : f[i] \in 1 .. c
        /\ \A k \in 1 .. c : \E i \in I : f[i] = k
        /\ \A i, j \in I : f[i] = f[j] => i = j
    <2> HIDE DEF I
    <2> QED
      BY <1>2, Numbering
  <1>4. s = [k \in 1 .. c |-> list[Pick(k)]]
    BY DEF Startable, Waiting
  <1>5. \A i \in I : i \in DOMAIN list /\ tracker[list[i]] \in Waiting
    OBVIOUS
  <1>6. \A i \in DOMAIN list : tracker[list[i]] \in Waiting => i \in I
    OBVIOUS
  <1> HIDE DEF I
  <1>7. \A k \in 1 .. c : Pick(k) \in I
    BY <1>3
  <1>8. s \in Seq(S) /\ DOMAIN s = 1 .. c
    <2>1. s \in [1 .. c -> S]
      BY <1>1, <1>4, <1>5, <1>7
    <2> QED
      BY <1>2, <2>1, SeqDef
  <1>9. ASSUME NEW k \in 1 .. c
        PROVE  s[k] \in ToSet(list) /\ tracker[s[k]] \in Waiting
    BY <1>4, <1>5, <1>7, Zenon DEF ToSet
  <1>10. ASSUME NEW i \in I
         PROVE  \E k \in 1 .. c : s[k] = list[i]
    <2>1. f[i] \in 1 .. c
      BY <1>3
    <2>2. Pick(f[i]) \in I /\ f[Pick(f[i])] = f[i]
      <3>1. \E j \in I : Cardinality({x \in I : x <= j}) = f[i]
        OBVIOUS
      <3>2. Pick(f[i]) \in I /\ Cardinality({x \in I : x <= Pick(f[i])}) = f[i]
        BY <3>1, Zenon
      <3> QED
        BY <3>2
    <2>3. Pick(f[i]) = i
      BY <1>3, <2>2
    <2> QED
      BY <1>4, <2>1, <2>3
  <1> QED
    BY <1>5, <1>6, <1>8, <1>9, <1>10 DEF ToSet

\* What OrchestratorAssumption says of a group.
LEMMA GroupFacts ==
    ASSUME NEW gs \in Groupings, NEW g \in Groups
    PROVE  /\ gs.nodes[g] \in Seq(File.nodes) /\ gs.nodes[g] # <<>>
           /\ ToSet(gs.nodes[g]) \subseteq File.nodes
           /\ gs.requires[g] \subseteq Groups
           /\ gs.width[g] \in Nat \ {0}
  <1>1. /\ gs.nodes[g] \in Seq(Node) /\ gs.requires[g] \subseteq Groups
        /\ gs.width[g] \in Nat \ {0}
    BY OrchestratorAssumption DEF Grouping
  <1>2. gs.nodes[g] # <<>> /\ ToSet(gs.nodes[g]) \subseteq File.nodes
    BY OrchestratorAssumption
  <1> QED
    BY <1>1, <1>2, SeqOfElements

LEMMA FileFacts == /\ File.nodes \subseteq Node
                   /\ \A n : Edges(File, n) \subseteq File.nodes
  BY OrchestratorAssumption DEF ValidPlan, Plan, Edges

-------------------------------------------------------------------------------
(***************************************************************************)
(* The tracker's operators                                                 *)
(***************************************************************************)
\* A table that has an entry for every node of the file, and for no other.
Fitted(st) == st \in StatusMap /\ \A n \in Node : st[n] = Absent <=> n \notin File.nodes

LEMMA ReconcileFits ==
    ASSUME NEW st \in StatusMap
    PROVE  /\ Fitted(Reconcile(File, st))
           /\ Fitted(st) => Reconcile(File, st) = st
           /\ \A n \in Node : Reconcile(File, st)[n] \notin {Absent, st[n]} => st[n] = Absent
  <1>1. Fitted(Reconcile(File, st))
    BY DEF Fitted, Reconcile, StatusMap, Status, Absent, Initial
  <1>2. ASSUME Fitted(st)
        PROVE  Reconcile(File, st) = st
    BY <1>2 DEF Fitted, Reconcile, StatusMap
  <1>3. \A n \in Node : Reconcile(File, st)[n] \notin {Absent, st[n]} => st[n] = Absent
    BY DEF Reconcile
  <1> QED
    BY <1>1, <1>2, <1>3

LEMMA StartFits ==
    ASSUME NEW st, Fitted(st), NEW B \in SUBSET File.nodes
    PROVE  /\ Fitted(StartNodes(st, B))
           /\ \A n \in Node : StartNodes(st, B)[n] = IF n \in B THEN "in_progress" ELSE st[n]
  BY FileFacts DEF Fitted, StartNodes, StatusMap, Status, Absent

\* Nothing but the node itself and those that waited for it changes.
LEMMA OutcomeFits ==
    ASSUME NEW st, Fitted(st), NEW n \in File.nodes, NEW success \in BOOLEAN
    PROVE  LET new == RecordOutcome(File, st, n, success)
           IN  /\ Fitted(new)
               /\ new[n] = IF success THEN "completed" ELSE "failed"
               /\ \A m \in Node : m # n =>
                     new[m] = IF /\ ~success /\ st[m] \in Waiting
                                 /\ m \in TransitiveDependents(File, n)
                              THEN "blocked" ELSE st[m]
  <1> DEFINE new == RecordOutcome(File, st, n, success)
  <1>1. n \in Node /\ st \in [Node -> Status \cup {Absent}]
    BY FileFacts DEF Fitted, StatusMap
  <1>2. CASE success
    BY <1>1, <1>2 DEF Fitted, StatusMap, Status, Absent, RecordOutcome, MarkCompleted
  <1>3. CASE ~success
    <2> DEFINE failed == MarkFailed(st, n)
    <2>1. \A m \in Node : failed[m] = IF m = n THEN "failed" ELSE st[m]
      BY <1>1 DEF MarkFailed
    <2>2. new = [m \in Node |-> IF m \in TransitiveDependents(File, n) /\ failed[m] \in Waiting
                                THEN "blocked" ELSE failed[m]]
      BY <1>3 DEF RecordOutcome, PropagateBlocked, Waiting
    <2> HIDE DEF new, failed
    <2>3. /\ new[n] = "failed"
          /\ \A m \in Node : m # n =>
                new[m] = IF st[m] \in Waiting /\ m \in TransitiveDependents(File, n)
                         THEN "blocked" ELSE st[m]
      BY <1>1, <2>1, <2>2 DEF Waiting
    <2>4. Fitted(new)
      BY <1>1, <2>2, <2>3 DEF Fitted, StatusMap, Status, Absent, Waiting
    <2> QED
      BY <1>3, <2>3, <2>4 DEF new
  <1> QED
    BY <1>2, <1>3

-------------------------------------------------------------------------------
(***************************************************************************)
(* Types                                                                   *)
(***************************************************************************)
InGroup == pc \in {"in_group", "record"}

\* The sidecar is empty or has the nodes of the file, and so has the tracker of
\* a run.  A run dispatches nodes of the file, in a group it is for.
TypeInv ==
    /\ grouping \in Groupings /\ target \in Targets
    /\ disk \in StatusMap
    /\ disk # NoState => Fitted(disk)
    /\ pc # "idle" => Fitted(tracker)
    /\ pc \in {"idle", "next_group", "in_group", "record"}
    /\ pc = "idle" => completedGroups = {}
    /\ failFast \in BOOLEAN /\ hadFailure \in BOOLEAN
    /\ completedGroups \subseteq Groups
    /\ todo \in Seq(File.nodes) /\ batch \in Seq(File.nodes)
    /\ pc = "record" <=> batch # <<>>
    /\ InGroup => Group \in Groups

LEMMA NoStateType == NoState \in StatusMap
  BY DEF NoState, StatusMap

LEMMA EndTypes ==
    ASSUME TypeInv, NEW code, End(code), UNCHANGED <<grouping, disk>>
    PROVE  TypeInv'
  BY NoElements DEF TypeInv, End, InGroup, Fitted

LEMMA ChunkFacts ==
    ASSUME TypeInv, pc = "in_group", todo # <<>>
    PROVE  /\ Chunk \in Seq(File.nodes) /\ Rest \in Seq(File.nodes) /\ Chunk # <<>>
           /\ ToSet(Chunk) \subseteq File.nodes
           /\ ToSet(todo) = ToSet(Chunk) \cup ToSet(Rest)
           /\ Serial => ToSet(Chunk) = {Head(todo)} /\ Rest = Tail(todo)
  <1>1. grouping.width[Group] \in Nat \ {0} /\ todo \in Seq(File.nodes)
    BY GroupFacts DEF TypeInv, InGroup
  <1> QED
    BY <1>1, ChunkAndRest, ElementsOf

LEMMA BatchFacts ==
    ASSUME TypeInv, pc = "record"
    PROVE  /\ Head(batch) \in File.nodes /\ Tail(batch) \in Seq(File.nodes)
           /\ ToSet(batch) = {Head(batch)} \cup ToSet(Tail(batch))
           /\ ToSet(batch) \subseteq File.nodes
           /\ IsInjective(batch) =>
                 IsInjective(Tail(batch)) /\ Head(batch) \notin ToSet(Tail(batch))
           /\ Len(batch) = 1 <=> Tail(batch) = <<>>
  <1>1. batch \in Seq(File.nodes) /\ batch # <<>>
    BY DEF TypeInv
  <1>2. ASSUME Tail(batch) = <<>>
        PROVE  Len(batch) = 1
    <2>1. Len(Tail(batch)) = Len(batch) - 1
      BY <1>1, HeadTailProperties
    <2>2. Len(batch) \in Nat /\ Len(<<>>) = 0
      BY <1>1, EmptySeq
    <2>3. Len(Tail(batch)) = 0
      BY <1>2, <2>2
    <2> QED
      BY <2>1, <2>2, <2>3
  <1> QED
    BY <1>1, <1>2, HeadAndTail, ElementsOf

LEMMA RunTypes ==
    ASSUME TypeInv, NEW t \in Targets, NEW ff \in BOOLEAN, Run(t, ff)
    PROVE  TypeInv'
  <1>1. CASE pc' = "next_group"
    <2>1. Fitted(tracker')
      BY <1>1, ReconcileFits DEF Run, TypeInv
    <2> QED
      BY <1>1, <2>1 DEF Run, TypeInv, InGroup, Fitted
  <1>2. CASE pc' = pc
    BY <1>2 DEF Run, TypeInv, InGroup, Fitted
  <1> QED
    BY <1>1, <1>2 DEF Run

LEMMA StepTypes ==
    ASSUME TypeInv, Step
    PROVE  TypeInv'
  <1>1. CASE SkipGroup
    BY <1>1 DEF SkipGroup, TypeInv, InGroup, Fitted
  <1>2. CASE RefuseGroup \/ Finish \/ AbortRun
    BY <1>2, EndTypes DEF RefuseGroup, Finish, AbortRun
  <1>3. CASE StartGroup
    <2>1. Group \in Groups
      BY <1>3, OrchestratorAssumption DEF StartGroup, TypeInv
    <2>2. todo' \in Seq(File.nodes)
      BY <1>3, <2>1, GroupFacts, StartableOnes DEF StartGroup, TypeInv
    <2>3. Group' = Group
      BY <1>3 DEF StartGroup, Group
    <2> QED
      BY <1>3, <2>1, <2>2, <2>3 DEF StartGroup, TypeInv, InGroup, Fitted
  <1>4. CASE PassNode
    <2>1. todo' \in Seq(File.nodes)
      BY <1>4, HeadAndTail DEF PassNode, TypeInv
    <2>2. Group' = Group
      BY <1>4 DEF PassNode, Group
    <2> QED
      BY <1>4, <2>1, <2>2 DEF PassNode, TypeInv, InGroup, Fitted
  <1>5. CASE Dispatch
    <2>1. /\ Chunk \in Seq(File.nodes) /\ Rest \in Seq(File.nodes) /\ Chunk # <<>>
          /\ ToSet(Chunk) \in SUBSET File.nodes
      BY <1>5, ChunkFacts DEF Dispatch
    <2>2. Fitted(tracker) /\ tracker' = StartNodes(tracker, ToSet(Chunk))
      BY <1>5 DEF Dispatch, TypeInv
    <2>3. Fitted(tracker')
      BY <2>1, <2>2, StartFits
    <2>4. Group' = Group
      BY <1>5 DEF Dispatch, Group
    <2> QED
      BY <1>5, <2>1, <2>3, <2>4 DEF Dispatch, TypeInv, InGroup, Fitted
  <1>6. CASE Record
    <2>1. PICK success \in BOOLEAN :
             /\ tracker' = RecordOutcome(File, tracker, Head(batch), success)
             /\ disk' = tracker'
             /\ hadFailure' = (hadFailure \/ ~success)
             /\ todo' = IF Len(batch) = 1 /\ (hadFailure \/ ~success) /\ failFast THEN <<>> ELSE todo
             /\ pc' = IF Len(batch) = 1 THEN "in_group" ELSE "record"
      BY <1>6 DEF Record
    <2>2. pc = "record" /\ Head(batch) \in File.nodes /\ Tail(batch) \in Seq(File.nodes)
          /\ (Len(batch) = 1 <=> Tail(batch) = <<>>)
      BY <1>6, BatchFacts DEF Record
    <2>3. Fitted(tracker')
      BY <2>1, <2>2, OutcomeFits DEF TypeInv
    <2>4. Group' = Group /\ Group \in Groups
      BY <1>6, <2>2 DEF Record, Group, TypeInv, InGroup
    <2>5. todo' \in Seq(File.nodes) /\ hadFailure' \in BOOLEAN
      BY <2>1, NoElements DEF TypeInv
    <2>6. disk' \in StatusMap /\ Fitted(disk')
      BY <2>1, <2>3 DEF Fitted
    <2>7. pc' \in {"in_group", "record"} /\ (pc' = "record" <=> batch' # <<>>)
      BY <1>6, <2>1, <2>2 DEF Record
    <2> QED
      BY <1>6, <2>2, <2>3, <2>4, <2>5, <2>6, <2>7 DEF Record, TypeInv, InGroup, Fitted
  <1>7. CASE EndGroup
    <2>1. CASE hadFailure /\ failFast
      BY <1>7, <2>1, EndTypes DEF EndGroup
    <2>2. CASE ~(hadFailure /\ failFast)
      BY <1>7, <2>2 DEF EndGroup, TypeInv, InGroup, Fitted
    <2> QED
      BY <2>1, <2>2
  <1> QED
    BY <1>1, <1>2, <1>3, <1>4, <1>5, <1>6, <1>7 DEF Step

\* What the other commands leave in the sidecar has an entry for each node.
LEMMA OtherFits ==
    ASSUME TypeInv, OtherCommand
    PROVE  Fitted(disk')
  <1> DEFINE st == Reconcile(File, disk)
  <1>1. Fitted(st)
    BY ReconcileFits DEF TypeInv
  <1> HIDE DEF st
  <1>2. ASSUME NEW B \in SUBSET ReadyNodes(File, st), NEW success \in BOOLEAN, NEW n \in B,
               disk' = RecordOutcome(File, StartNodes(st, B), n, success)
        PROVE  Fitted(disk')
    <2>1. B \in SUBSET File.nodes
      BY <1>1 DEF ReadyNodes, Fitted, Absent
    <2> QED
      BY <1>1, <1>2, <2>1, StartFits, OutcomeFits
  <1>3. ASSUME NEW S \in SUBSET {n \in Node : st[n] = "failed"}, disk' = RetryNodes(st, S)
        PROVE  Fitted(disk')
    BY <1>1, <1>3 DEF RetryNodes, Fitted, StatusMap, Status, Absent
  <1>4. CASE disk' = ResetNodes(st, Node)
    BY <1>1, <1>4 DEF ResetNodes, Fitted, StatusMap, Status, Absent
  <1> QED
    BY <1>2, <1>3, <1>4 DEF OtherCommand, st

LEMMA NextTypes == TypeInv /\ [Next]_vars => TypeInv'
  <1> SUFFICES ASSUME TypeInv, [Next]_vars PROVE TypeInv'
    OBVIOUS
  <1>1. CASE Crash \/ WriteFails
    BY <1>1, EndTypes DEF Crash, WriteFails
  <1>2. CASE OtherCommand
    <2>1. Fitted(disk') /\ disk' \in StatusMap
      BY <1>2, OtherFits DEF Fitted
    <2> QED
      BY <1>2, <2>1 DEF OtherCommand, run, TypeInv, InGroup, Fitted
  <1>3. CASE UNCHANGED vars
    BY <1>3 DEF vars, run, TypeInv, InGroup, Fitted, Group
  <1> QED
    BY <1>1, <1>2, <1>3, RunTypes, StepTypes DEF Next

LEMMA AlwaysTyped == Spec => []TypeInv
  <1>1. Init => TypeInv
    <2>1. (CHOOSE t \in Targets : TRUE) \in Targets
      BY OrchestratorAssumption
    <2> QED
      BY <2>1, NoElements, NoStateType DEF Init, TypeInv, InGroup
  <1> QED
    BY <1>1, NextTypes, PTL DEF Spec

-------------------------------------------------------------------------------
(***************************************************************************)
(* What a run knows is what the sidecar says                               *)
(***************************************************************************)
\* The tracker of a run is the sidecar, reconciled, but for the nodes that it has
\* dispatched and not yet recorded.
CacheInv ==
    /\ IsInjective(batch)
    /\ pc # "idle" => tracker = StartNodes(Reconcile(File, disk), Started)

LEMMA NoBatch == TypeInv /\ pc # "record" => Started = {} /\ batch = <<>>
  BY NoElements DEF TypeInv, Started

LEMMA BatchInProgress ==
    ASSUME TypeInv, CacheInv
    PROVE  \A n \in Started : n \in File.nodes /\ n \in Node /\ tracker[n] = "in_progress"
  <1>1. CASE pc = "record"
    <2>1. Started \in SUBSET File.nodes
      BY <1>1, BatchFacts DEF Started
    <2>2. Fitted(Reconcile(File, disk))
      BY ReconcileFits DEF TypeInv
    <2> QED
      BY <1>1, <2>1, <2>2, StartFits, FileFacts DEF CacheInv
  <1>2. CASE pc # "record"
    BY <1>2, NoBatch
  <1> QED
    BY <1>1, <1>2

\* A run that has nothing dispatched knows what the sidecar says.
LEMMA NothingStarted ==
    ASSUME NEW st, Fitted(st)
    PROVE  StartNodes(st, {}) = st
  BY DEF StartNodes, Fitted, StatusMap

LEMMA IdleCache == pc' = "idle" /\ batch' = <<>> => CacheInv'
  BY NoElements DEF CacheInv

LEMMA SameCache ==
    ASSUME CacheInv, UNCHANGED <<batch, tracker, disk>>, pc # "idle"
    PROVE  CacheInv'
  BY DEF CacheInv, Started

LEMMA DispatchCache ==
    ASSUME TypeInv, CacheInv, Dispatch
    PROVE  CacheInv'
  <1>1. Started = {} /\ Fitted(Reconcile(File, disk))
    BY NoBatch, ReconcileFits DEF Dispatch, TypeInv
  <1>2. tracker = Reconcile(File, disk)
    BY <1>1, NothingStarted DEF CacheInv, Dispatch
  <1>3. Started' = ToSet(Chunk)
    BY DEF Dispatch, Started
  <1> QED
    BY <1>2, <1>3 DEF CacheInv, Dispatch, CanStart

LEMMA RecordCache ==
    ASSUME TypeInv, TypeInv', CacheInv, Record
    PROVE  CacheInv'
  <1>1. PICK success \in BOOLEAN :
           /\ tracker' = RecordOutcome(File, tracker, Head(batch), success)
           /\ disk' = tracker'
    BY DEF Record
  <1>2. /\ pc = "record" /\ Head(batch) \in File.nodes /\ ToSet(Tail(batch)) \subseteq Started
        /\ IsInjective(Tail(batch)) /\ Head(batch) \notin ToSet(Tail(batch))
        /\ Started' = ToSet(Tail(batch)) /\ batch' = Tail(batch) /\ pc' # "idle"
    BY BatchFacts DEF Record, CacheInv, Started
  <1>3. \A n \in Started' : n \in Node /\ n # Head(batch) /\ tracker[n] = "in_progress"
    BY <1>2, BatchInProgress
  <1>4. Fitted(tracker)
    BY <1>2 DEF TypeInv
  <1>5. \A n \in Started' : tracker'[n] = "in_progress"
    BY <1>1, <1>2, <1>3, <1>4, OutcomeFits DEF Waiting
  <1>6. Fitted(disk') /\ Reconcile(File, disk') = disk'
    BY <1>1, <1>2, <1>4, OutcomeFits, ReconcileFits DEF Fitted
  <1>7. StartNodes(disk', Started') = disk'
    BY <1>1, <1>5, <1>6 DEF StartNodes, Fitted, StatusMap
  <1> QED
    BY <1>1, <1>2, <1>6, <1>7 DEF CacheInv

LEMMA CacheStays == TypeInv /\ TypeInv' /\ CacheInv /\ [Next]_vars => CacheInv'
  <1> SUFFICES ASSUME TypeInv, TypeInv', CacheInv, [Next]_vars PROVE CacheInv'
    OBVIOUS
  <1>1. ASSUME NEW t \in Targets, NEW ff \in BOOLEAN, Run(t, ff)
        PROVE  CacheInv'
    <2>1. /\ Started = {} /\ batch = <<>> /\ UNCHANGED <<batch, disk>>
          /\ Fitted(Reconcile(File, disk))
      BY <1>1, NoBatch, ReconcileFits DEF Run, TypeInv
    <2>2. Started' = {} /\ (pc' # "idle" => tracker' = Reconcile(File, disk'))
      BY <1>1, <2>1 DEF Run, Started
    <2> QED
      BY <2>1, <2>2, NothingStarted, NoElements DEF CacheInv
  <1>2. ASSUME NEW code, End(code)
        PROVE  CacheInv'
    BY <1>2, IdleCache DEF End
  <1>3. CASE SkipGroup \/ StartGroup \/ PassNode \/ (EndGroup /\ ~End(ReportCode))
    BY <1>3, SameCache DEF SkipGroup, StartGroup, PassNode, EndGroup
  <1>4. CASE OtherCommand
    <2>1. pc' = "idle" /\ batch' = batch /\ pc = "idle"
      BY <1>4 DEF OtherCommand, run
    <2> QED
      BY <2>1, NoBatch, IdleCache
  <1>5. CASE UNCHANGED vars
    BY <1>5 DEF vars, run, CacheInv, Started
  <1> QED
    BY <1>1, <1>2, <1>3, <1>4, <1>5, DispatchCache, RecordCache
       DEF Next, Step, RefuseGroup, Finish, AbortRun, EndGroup, Crash, WriteFails

LEMMA AlwaysCached == Spec => []CacheInv
  <1>1. Init => CacheInv
    BY NoElements DEF Init, CacheInv
  <1> QED
    BY <1>1, CacheStays, AlwaysTyped, PTL DEF Spec

\* A node that is settled when a chunk is dispatched is not in it: what an earlier
\* chunk completed, failed or blocked, or an earlier run, is not given to an agent.
THEOREM SettledStaySettled == Spec => NothingSettledIsStarted
  <1>1. TypeInv /\ CacheInv /\ [Next]_vars =>
           [\A n \in ToSet(batch') : disk[n] \in Settled => n \in Started]_vars
    <2> SUFFICES ASSUME TypeInv, CacheInv, Next, NEW n \in ToSet(batch'), n \notin Started
                 PROVE  disk[n] \notin Settled
      OBVIOUS
    <2>1. CASE Dispatch
      <3>1. n \in ToSet(Chunk) /\ n \in Node /\ tracker[n] \in {"pending", "ready"}
        BY <2>1, ChunkFacts, FileFacts DEF Dispatch, CanStart
      <3>2. Started = {} /\ Fitted(Reconcile(File, disk))
        BY <2>1, NoBatch, ReconcileFits DEF Dispatch, TypeInv
      <3>3. tracker = Reconcile(File, disk)
        BY <2>1, <3>2, NothingStarted DEF CacheInv, Dispatch
      <3>4. disk[n] \in {tracker[n], Absent}
        BY <3>1, <3>3, ReconcileFits DEF TypeInv, Absent
      <3> QED
        BY <3>1, <3>4 DEF Settled, Absent
    <2>2. CASE Record
      <3>1. ToSet(batch') \subseteq Started
        BY <2>2, BatchFacts DEF Record, Started
      <3> QED
        BY <3>1
    <2>3. CASE batch' \in {batch, <<>>}
      BY <2>3, NoElements DEF Started
    <2>4. Dispatch \/ Record \/ batch' \in {batch, <<>>}
      BY DEF Next, Step, Run, SkipGroup, RefuseGroup, StartGroup, Finish, PassNode, AbortRun,
             EndGroup, Crash, WriteFails, OtherCommand, End, run
    <2> QED
      BY <2>1, <2>2, <2>3, <2>4
  <1> QED
    BY <1>1, AlwaysTyped, AlwaysCached, PTL DEF Spec, NothingSettledIsStarted

-------------------------------------------------------------------------------
(***************************************************************************)
(* Groups go in order                                                      *)
(***************************************************************************)
Nodes(g) == ToSet(grouping.nodes[g])

\* A group is entered when the groups it requires were completed, and a completed
\* group has nobody waiting: each of its nodes was dispatched or passed over.
GroupInv ==
    /\ InGroup => grouping.requires[Group] \subseteq completedGroups
    /\ InGroup => ToSet(todo) \subseteq Nodes(Group)
    /\ \A g \in completedGroups : \A m \in Nodes(g) : tracker[m] \notin Waiting /\ m \notin Started
    /\ InGroup /\ ~(hadFailure /\ failFast) =>
          \A m \in Nodes(Group) : m \in ToSet(todo) \/ tracker[m] \notin Waiting

LEMMA IdleGroups ==
    ASSUME pc' = "idle", completedGroups' = {}
    PROVE  GroupInv'
  BY DEF GroupInv, InGroup

LEMMA NodesOfGroup ==
    ASSUME TypeInv, NEW g \in Groups
    PROVE  Nodes(g) \subseteq File.nodes /\ Nodes(g) \subseteq Node
  BY GroupFacts, FileFacts DEF TypeInv, Nodes

\* A step in a group after which nobody waits who did not wait before.
LEMMA GroupGoesOn ==
    ASSUME TypeInv, GroupInv, InGroup,
           UNCHANGED <<grouping, remaining, completedGroups, failFast>>,
           hadFailure' \in BOOLEAN, hadFailure => hadFailure',
           \A m \in File.nodes : tracker'[m] \in Waiting => tracker[m] \in Waiting,
           \A m \in Started' \ Started : tracker[m] \in Waiting,
           ToSet(todo') \subseteq ToSet(todo),
           ~(hadFailure' /\ failFast) =>
              \A m \in ToSet(todo) \ ToSet(todo') : tracker'[m] \notin Waiting
    PROVE  GroupInv'
  <1>1. Group' = Group /\ Group \in Groups /\ \A g : Nodes(g)' = Nodes(g)
    BY DEF Group, Nodes, TypeInv
  <1>2. \A g \in Groups : \A m \in Nodes(g) : m \in File.nodes
    BY NodesOfGroup
  <1>3. grouping'.requires[Group'] \subseteq completedGroups'
    BY <1>1 DEF GroupInv
  <1>4. ToSet(todo') \subseteq Nodes(Group)'
    BY <1>1 DEF GroupInv
  <1>5. \A g \in completedGroups' : \A m \in Nodes(g)' : tracker'[m] \notin Waiting /\ m \notin Started'
    BY <1>1, <1>2 DEF GroupInv, TypeInv
  <1>6. ASSUME ~(hadFailure' /\ failFast'), NEW m \in Nodes(Group), m \notin ToSet(todo')
        PROVE  tracker'[m] \notin Waiting
    <2>1. ~(hadFailure /\ failFast)
      BY <1>6 DEF TypeInv
    <2>2. m \in ToSet(todo) \/ tracker[m] \notin Waiting
      BY <2>1 DEF GroupInv
    <2> QED
      BY <1>1, <1>2, <1>6, <2>2
  <1> QED
    BY <1>1, <1>3, <1>4, <1>5, <1>6 DEF GroupInv

LEMMA StepGroups ==
    ASSUME TypeInv, TypeInv', CacheInv, GroupInv, Step
    PROVE  GroupInv'
  <1>1. CASE SkipGroup
    <2>1. /\ pc' = "next_group" /\ UNCHANGED <<grouping, tracker, completedGroups, batch>>
      BY <1>1 DEF SkipGroup
    <2> QED
      BY <2>1 DEF GroupInv, InGroup, Nodes, Started
  <1>2. ASSUME NEW code, End(code)
        PROVE  GroupInv'
    BY <1>2, IdleGroups DEF End
  <1>3. CASE StartGroup
    <2>1. /\ Group \in Groups /\ Group' = Group
          /\ UNCHANGED <<grouping, tracker, completedGroups, hadFailure, failFast, batch>>
      BY <1>3, OrchestratorAssumption DEF StartGroup, TypeInv, Group
    <2>2. grouping.requires[Group] \subseteq completedGroups
      BY <1>3 DEF StartGroup, RequirementsMet
    <2>3. \/ todo' = grouping.nodes[Group]
          \/ ToSet(todo') = {n \in Nodes(Group) : tracker[n] \in Waiting}
      BY <1>3, <2>1, GroupFacts, StartableOnes DEF StartGroup, TypeInv, Nodes
    <2>4. /\ ToSet(todo') \subseteq Nodes(Group)
          /\ \A m \in Nodes(Group) : m \in ToSet(todo') \/ tracker[m] \notin Waiting
      BY <2>3 DEF Nodes
    <2> QED
      BY <2>1, <2>2, <2>4 DEF GroupInv, Nodes, Started
  <1>4. CASE PassNode
    <2>1. ToSet(todo) = {Head(todo)} \cup ToSet(todo')
      BY <1>4, HeadAndTail DEF PassNode, TypeInv
    <2>2. tracker[Head(todo)] \notin Waiting
      BY <1>4 DEF PassNode, Passed, Settled, Waiting
    <2>3. /\ UNCHANGED <<grouping, remaining, completedGroups, failFast, tracker, hadFailure>>
          /\ InGroup /\ hadFailure \in BOOLEAN /\ Started' = Started
      BY <1>4 DEF PassNode, InGroup, TypeInv, Started
    <2> QED
      BY <2>1, <2>2, <2>3, GroupGoesOn
  <1>5. CASE Dispatch
    <2>1. /\ ToSet(todo) = ToSet(Chunk) \cup ToSet(todo') /\ ToSet(Chunk) \in SUBSET File.nodes
      BY <1>5, ChunkFacts DEF Dispatch
    <2>2. \A m \in File.nodes :
             tracker'[m] = IF m \in ToSet(Chunk) THEN "in_progress" ELSE tracker[m]
      BY <1>5, <2>1, StartFits, FileFacts DEF Dispatch, TypeInv
    <2>3. /\ UNCHANGED <<grouping, remaining, completedGroups, failFast, hadFailure>>
          /\ InGroup /\ hadFailure \in BOOLEAN
      BY <1>5 DEF Dispatch, InGroup, TypeInv
    <2>4. "in_progress" \notin Waiting
      BY DEF Waiting
    <2>5. \A m \in Started' : tracker[m] \in Waiting
      BY <1>5 DEF Dispatch, CanStart, Started, Waiting
    <2> QED
      BY <2>1, <2>2, <2>3, <2>4, <2>5, GroupGoesOn
  <1>6. CASE Record
    <2>1. PICK success \in BOOLEAN :
             /\ tracker' = RecordOutcome(File, tracker, Head(batch), success)
             /\ hadFailure' = (hadFailure \/ ~success)
             /\ todo' = IF Len(batch) = 1 /\ (hadFailure \/ ~success) /\ failFast THEN <<>> ELSE todo
      BY <1>6 DEF Record
    <2>2. /\ Head(batch) \in File.nodes /\ Fitted(tracker) /\ InGroup
          /\ UNCHANGED <<grouping, remaining, completedGroups, failFast>>
      BY <1>6, BatchFacts DEF Record, TypeInv, InGroup
    <2>3. \A m \in File.nodes : tracker'[m] \in Waiting => tracker[m] \in Waiting
      <3>1. tracker'[Head(batch)] \in {"completed", "failed"}
        BY <2>1, <2>2, OutcomeFits
      <3>2. \A m \in File.nodes : m # Head(batch) => tracker'[m] \in {"blocked", tracker[m]}
        BY <2>1, <2>2, OutcomeFits, FileFacts
      <3> QED
        BY <3>1, <3>2 DEF Waiting
    <2>4. /\ ToSet(todo') \subseteq ToSet(todo)
          /\ ~(hadFailure' /\ failFast) => todo' = todo
      BY <2>1, NoElements
    <2>5. hadFailure' \in BOOLEAN /\ (hadFailure => hadFailure')
      BY <2>1 DEF TypeInv
    <2>6. Started' \subseteq Started
      BY <1>6, BatchFacts DEF Record, Started
    <2> QED
      BY <2>2, <2>3, <2>4, <2>5, <2>6, GroupGoesOn
  <1>7. CASE EndGroup /\ ~(hadFailure /\ failFast)
    <2>1. /\ pc' = "next_group" /\ completedGroups' = completedGroups \cup {Group}
          /\ UNCHANGED <<grouping, tracker>> /\ Started' = {} /\ Started = {}
      BY <1>7, NoBatch DEF EndGroup, Started
    <2>2. \A m \in Nodes(Group) : tracker[m] \notin Waiting
      BY <1>7, NoElements DEF EndGroup, GroupInv, InGroup
    <2> QED
      BY <2>1, <2>2 DEF GroupInv, InGroup, Nodes
  <1> QED
    BY <1>1, <1>2, <1>3, <1>4, <1>5, <1>6, <1>7 DEF Step, RefuseGroup, Finish, AbortRun, EndGroup

LEMMA GroupsStay == TypeInv /\ TypeInv' /\ CacheInv /\ GroupInv /\ [Next]_vars => GroupInv'
  <1> SUFFICES ASSUME TypeInv, TypeInv', CacheInv, GroupInv, [Next]_vars PROVE GroupInv'
    OBVIOUS
  <1>1. ASSUME NEW t \in Targets, NEW ff \in BOOLEAN, Run(t, ff)
        PROVE  GroupInv'
    BY <1>1 DEF Run, GroupInv, TypeInv, InGroup
  <1>2. CASE Crash \/ WriteFails
    BY <1>2, IdleGroups DEF Crash, WriteFails, End
  <1>3. CASE OtherCommand
    BY <1>3, IdleGroups DEF OtherCommand, run, TypeInv
  <1>4. CASE UNCHANGED vars
    BY <1>4 DEF vars, run, GroupInv, InGroup, Group, Nodes, Started
  <1> QED
    BY <1>1, <1>2, <1>3, <1>4, StepGroups DEF Next

LEMMA AlwaysInOrder == Spec => []GroupInv
  <1>1. Init => GroupInv
    BY DEF Init, GroupInv, InGroup
  <1> QED
    BY <1>1, GroupsStay, AlwaysTyped, AlwaysCached, PTL DEF Spec

\* When a node is given to an agent, no node of a group that its group requires is
\* still waiting or with an agent of this run, whatever the lists of the groups,
\* their widths and the interrupted runs before.
THEOREM RequiredGroupsGoFirst == Spec => []RequiredGroupsWentFirst
  <1>1. TypeInv /\ CacheInv /\ GroupInv => RequiredGroupsWentFirst
    <2> SUFFICES ASSUME TypeInv, CacheInv, GroupInv, Started # {},
                        NEW r \in grouping.requires[Group], NEW m \in ToSet(grouping.nodes[r])
                 PROVE  tracker[m] \notin {"pending", "ready"} /\ m \notin Started
      BY DEF RequiredGroupsWentFirst
    <2>1. PICK n \in Started : TRUE
      OBVIOUS
    <2>2. InGroup
      BY NoBatch DEF InGroup
    <2>3. tracker[m] \notin Waiting /\ m \notin Started
      BY <2>2 DEF GroupInv, Nodes
    <2> QED
      BY <2>3 DEF Waiting
  <1> QED
    BY <1>1, AlwaysTyped, AlwaysCached, AlwaysInOrder, PTL

-------------------------------------------------------------------------------
(***************************************************************************)
(* Sequences go in order                                                   *)
(***************************************************************************)
\* What is left of a sequential group is the end of its list, and nobody waits in
\* what is gone.
SeqInv ==
    InGroup /\ Serial /\ todo # <<>> =>
        LET list == grouping.nodes[Group]
            gone == Len(list) - Len(todo)
        IN  /\ gone \in Nat
            /\ \A i \in 1 .. Len(todo) : todo[i] = list[gone + i]
            /\ \A j \in 1 .. gone : tracker[list[j]] \notin Waiting

LEMMA SeqGoesOn ==
    ASSUME TypeInv, SeqInv, InGroup, UNCHANGED <<grouping, remaining>>,
           \A m \in File.nodes : tracker'[m] \in Waiting => tracker[m] \in Waiting,
           Serial => \/ todo' \in {todo, <<>>}
                     \/ /\ todo # <<>> /\ todo' = Tail(todo)
                        /\ tracker'[Head(todo)] \notin Waiting
    PROVE  SeqInv'
  <1> DEFINE list == grouping.nodes[Group]
             gone == Len(list) - Len(todo)
  <1>1. Group' = Group /\ Serial' = Serial /\ list' = list /\ Group \in Groups
    BY DEF Group, Serial, TypeInv
  <1>2. list \in Seq(File.nodes) /\ todo \in Seq(File.nodes)
    BY <1>1, GroupFacts DEF TypeInv
  <1>3. Len(list) \in Nat /\ Len(todo) \in Nat /\ \A j \in 1 .. Len(list) : list[j] \in File.nodes
    BY <1>2, LenProperties, ElementOfSeq
  <1> SUFFICES ASSUME Serial, todo' # <<>>
               PROVE  /\ Len(list) - Len(todo') \in Nat
                      /\ \A i \in 1 .. Len(todo') : todo'[i] = list[Len(list) - Len(todo') + i]
                      /\ \A j \in 1 .. Len(list) - Len(todo') : tracker'[list[j]] \notin Waiting
    BY <1>1 DEF SeqInv
  <1> HIDE DEF list
  <1>4. todo # <<>>
    OBVIOUS
  <1>5. /\ gone \in Nat
        /\ \A i \in 1 .. Len(todo) : todo[i] = list[gone + i]
        /\ \A j \in 1 .. gone : tracker[list[j]] \notin Waiting
    BY <1>4 DEF SeqInv, list
  <1>6. \A j \in 1 .. gone : tracker'[list[j]] \notin Waiting
    <2>1. \A j \in 1 .. gone : j \in 1 .. Len(list)
      BY <1>3, <1>5
    <2> QED
      BY <1>3, <1>5, <2>1
  <1>7. CASE todo' = todo
    BY <1>5, <1>6, <1>7
  <1>8. CASE todo' = Tail(todo) /\ tracker'[Head(todo)] \notin Waiting
    <2>1. /\ Len(todo') = Len(todo) - 1 /\ Len(todo) \in Nat \ {0} /\ Head(todo) = todo[1]
          /\ \A i \in 1 .. Len(todo') : todo'[i] = todo[i + 1]
      BY <1>2, <1>4, <1>8, HeadTailProperties, EmptySeq
    <2>2. Len(list) - Len(todo') = gone + 1 /\ gone + 1 \in Nat
      BY <1>3, <1>5, <2>1
    <2>3. ASSUME NEW i \in 1 .. Len(todo')
          PROVE  todo'[i] = list[gone + 1 + i]
      <3>1. i + 1 \in 1 .. Len(todo) /\ gone + (i + 1) = gone + 1 + i
        BY <1>5, <2>1
      <3> QED
        BY <1>5, <2>1, <3>1
    <2>4. tracker'[list[gone + 1]] \notin Waiting
      <3>1. 1 \in 1 .. Len(todo)
        BY <2>1
      <3> QED
        BY <1>5, <1>8, <2>1, <3>1
    <2>0. gone \in Nat
      BY <1>5
    <2> HIDE DEF gone
    <2>5. \A j \in 1 .. gone + 1 : j \in 1 .. gone \/ j = gone + 1
      BY <2>0
    <2> QED
      BY <1>6, <2>2, <2>3, <2>4, <2>5
  <1> QED
    BY <1>4, <1>7, <1>8

LEMMA SeqStays == TypeInv /\ TypeInv' /\ SeqInv /\ [Next]_vars => SeqInv'
  <1> SUFFICES ASSUME TypeInv, TypeInv', SeqInv, [Next]_vars PROVE SeqInv'
    OBVIOUS
  <1>1. CASE pc' \notin {"in_group", "record"}
    BY <1>1 DEF SeqInv, InGroup
  <1>2. CASE StartGroup
    <2>1. /\ Group' = Group /\ Group \in Groups /\ UNCHANGED grouping
          /\ Serial => todo' = grouping.nodes[Group]
      BY <1>2, OrchestratorAssumption DEF StartGroup, TypeInv, Group
    <2>2. Len(grouping.nodes[Group]) \in Nat
      BY <2>1, GroupFacts, LenProperties DEF TypeInv
    <2> QED
      BY <2>1, <2>2 DEF SeqInv, Serial
  <1>3. CASE PassNode
    <2>1. tracker[Head(todo)] \notin Waiting
      BY <1>3 DEF PassNode, Passed, Settled, Waiting
    <2> QED
      BY <1>3, <2>1, SeqGoesOn DEF PassNode, InGroup
  <1>4. CASE Dispatch
    <2>1. /\ ToSet(Chunk) \in SUBSET File.nodes
          /\ Serial => ToSet(Chunk) = {Head(todo)} /\ todo' = Tail(todo)
      BY <1>4, ChunkFacts DEF Dispatch
    <2>2. \A m \in File.nodes :
             tracker'[m] = IF m \in ToSet(Chunk) THEN "in_progress" ELSE tracker[m]
      BY <1>4, <2>1, StartFits, FileFacts DEF Dispatch, TypeInv
    <2>3. "in_progress" \notin Waiting
      BY DEF Waiting
    <2>4. Serial => tracker'[Head(todo)] \notin Waiting
      BY <2>1, <2>2, <2>3
    <2> QED
      BY <1>4, <2>1, <2>2, <2>3, <2>4, SeqGoesOn DEF Dispatch, InGroup
  <1>5. CASE Record
    <2>1. PICK success \in BOOLEAN :
             /\ tracker' = RecordOutcome(File, tracker, Head(batch), success)
             /\ todo' \in {todo, <<>>}
      BY <1>5 DEF Record
    <2>2. Head(batch) \in File.nodes /\ Fitted(tracker) /\ InGroup
      BY <1>5, BatchFacts DEF Record, TypeInv, InGroup
    <2>3. tracker'[Head(batch)] \in {"completed", "failed"}
      BY <2>1, <2>2, OutcomeFits
    <2>4. \A m \in File.nodes : m # Head(batch) => tracker'[m] \in {"blocked", tracker[m]}
      BY <2>1, <2>2, OutcomeFits, FileFacts
    <2>5. \A m \in File.nodes : tracker'[m] \in Waiting => tracker[m] \in Waiting
      BY <2>3, <2>4 DEF Waiting
    <2> QED
      BY <1>5, <2>1, <2>2, <2>5, SeqGoesOn DEF Record
  <1>6. CASE UNCHANGED vars
    BY <1>6 DEF vars, run, SeqInv, InGroup, Group, Serial
  <1>7. \/ pc' \notin {"in_group", "record"} \/ StartGroup \/ PassNode \/ Dispatch \/ Record
        \/ UNCHANGED vars
    BY DEF Next, Step, Run, SkipGroup, RefuseGroup, Finish, AbortRun, EndGroup, Crash,
           WriteFails, OtherCommand, End, run, TypeInv
  <1> QED
    BY <1>1, <1>2, <1>3, <1>4, <1>5, <1>6, <1>7

LEMMA AlwaysSequential == Spec => []SeqInv
  <1>1. Init => SeqInv
    BY DEF Init, SeqInv, InGroup
  <1> QED
    BY <1>1, SeqStays, AlwaysTyped, PTL DEF Spec

-------------------------------------------------------------------------------
(***************************************************************************)
(* Dependencies go first                                                   *)
(***************************************************************************)
\* A node that is ready, runs or has run has each dependency done, or in progress
\* outside the nodes X.
Ordered(st, X) ==
    \A n \in File.nodes :
        st[n] \in {"ready", "in_progress", "completed", "failed"} =>
            \A d \in Edges(File, n) : st[d] \in Done \/ (st[d] = "in_progress" /\ d \notin X)

\* Nobody waits for a node that failed or was blocked.
Contained(st) ==
    \A n \in File.nodes : \A d \in Edges(File, n) :
        st[d] \in {"failed", "blocked"} => st[n] \notin Waiting

Sound(st, X) == Ordered(st, X) /\ Contained(st)

\* What the sidecar says and what a run knows are sound, if the groups are listed
\* well.
TableInv ==
    WellGrouped(grouping) =>
        /\ Sound(Reconcile(File, disk), {})
        /\ pc # "idle" => Sound(tracker, Started)

LEMMA DependentsOfNode ==
    ASSUME NEW n \in File.nodes, NEW d \in Edges(File, n)
    PROVE  n \in TransitiveDependents(File, d)
  <1>1. d \in File.nodes \ {n}
    BY OrchestratorAssumption DEF ValidPlan, Edges
  <1> QED
    BY <1>1 DEF TransitiveDependents, TransitiveDeps

LEMMA DependentsAreTransitive ==
    ASSUME NEW f \in File.nodes, NEW d \in TransitiveDependents(File, f),
           NEW n \in File.nodes, n # f, d \in Edges(File, n)
    PROVE  n \in TransitiveDependents(File, f)
  <1>1. f \in TransitiveDeps(File, d)
    BY DEF TransitiveDependents
  <1>2. ASSUME NEW S \in SUBSET File.nodes, Edges(File, n) \subseteq S,
               \A x \in S : Edges(File, x) \subseteq S
        PROVE  f \in S
    BY <1>1, <1>2 DEF TransitiveDeps
  <1>3. f \in TransitiveDeps(File, n)
    BY <1>2 DEF TransitiveDeps
  <1> QED
    BY <1>3 DEF TransitiveDependents

LEMMA SoundAfterAll ==
    ASSUME NEW st, NEW X, Sound(st, X)
    PROVE  Sound(st, {})
  BY DEF Sound, Ordered

\* Nodes that wait may start once their dependencies are done or in progress.
LEMMA SoundStart ==
    ASSUME NEW st, Fitted(st), Sound(st, {}), NEW B \in SUBSET File.nodes,
           \A n \in B : st[n] \in Waiting,
           \A n \in B : \A d \in Edges(File, n) : st[d] \in Done \cup {"in_progress"}
    PROVE  Sound(StartNodes(st, B), B)
  <1> DEFINE new == StartNodes(st, B)
  <1>1. \A n \in File.nodes : new[n] = IF n \in B THEN "in_progress" ELSE st[n]
    BY StartFits, FileFacts
  <1>2. \A n \in File.nodes : \A d \in Edges(File, n) : d \in File.nodes
    BY FileFacts
  <1> HIDE DEF new
  <1>3. Ordered(new, B)
    BY <1>1, <1>2 DEF Ordered, Sound, Done, Waiting
  <1>4. Contained(new)
    BY <1>1, <1>2 DEF Contained, Sound, Waiting
  <1> QED
    BY <1>3, <1>4 DEF Sound, new

\* The outcome of one of the nodes X that were started together.
LEMMA SoundOutcome ==
    ASSUME NEW st, NEW X, Fitted(st), Sound(st, X), NEW n \in X, n \in File.nodes,
           st[n] = "in_progress", NEW success \in BOOLEAN
    PROVE  Sound(RecordOutcome(File, st, n, success), X \ {n})
  <1> DEFINE new == RecordOutcome(File, st, n, success)
  <1>1. /\ new[n] = IF success THEN "completed" ELSE "failed"
        /\ \A m \in File.nodes : m # n =>
              new[m] = IF ~success /\ st[m] \in Waiting /\ m \in TransitiveDependents(File, n)
                       THEN "blocked" ELSE st[m]
    BY OutcomeFits, FileFacts
  <1> HIDE DEF new
  <1>2. Ordered(new, X \ {n})
    <2> SUFFICES ASSUME NEW m \in File.nodes, NEW d \in Edges(File, m),
                        new[m] \in {"ready", "in_progress", "completed", "failed"}
                 PROVE  new[d] \in Done \/ (new[d] = "in_progress" /\ d \notin X \ {n})
      BY DEF Ordered
    <2>1. st[m] \in {"ready", "in_progress", "completed", "failed"} /\ d \in File.nodes
      BY <1>1, FileFacts
    <2>2. st[d] \in Done \/ (st[d] = "in_progress" /\ d \notin X)
      BY <2>1 DEF Sound, Ordered
    <2>3. d # n
      BY <2>2 DEF Done
    <2>4. new[d] = st[d]
      BY <1>1, <2>1, <2>2, <2>3 DEF Done, Waiting
    <2> QED
      BY <2>2, <2>4
  <1>3. Contained(new)
    <2> SUFFICES ASSUME NEW m \in File.nodes, NEW d \in Edges(File, m),
                        new[d] \in {"failed", "blocked"}, new[m] \in Waiting
                 PROVE  FALSE
      BY DEF Contained
    <2>1. m # n /\ st[m] = new[m] /\ d \in File.nodes
      BY <1>1, FileFacts DEF Waiting
    <2>2. st[d] \notin {"failed", "blocked"}
      BY <2>1 DEF Sound, Contained
    <2>3. ~success /\ (d = n \/ d \in TransitiveDependents(File, n))
      BY <1>1, <2>1, <2>2
    <2>4. m \in TransitiveDependents(File, n)
      BY <2>1, <2>3, DependentsOfNode, DependentsAreTransitive
    <2> QED
      BY <1>1, <2>1, <2>3, <2>4 DEF Waiting
  <1> QED
    BY <1>2, <1>3 DEF Sound, new

LEMMA SoundRetry ==
    ASSUME NEW st, Fitted(st), Sound(st, {}), NEW S \in SUBSET {n \in Node : st[n] = "failed"}
    PROVE  Sound(RetryNodes(st, S), {})
  <1> DEFINE new == RetryNodes(st, S)
  <1>1. \A n \in File.nodes : new[n] = IF n \in S THEN "ready" ELSE st[n]
    BY FileFacts DEF RetryNodes
  <1>2. \A n \in S : st[n] = "failed"
    OBVIOUS
  <1>3. \A n \in File.nodes : \A d \in Edges(File, n) : d \in File.nodes
    BY FileFacts
  <1> HIDE DEF new
  <1>4. Ordered(new, {})
    BY <1>1, <1>2, <1>3 DEF Ordered, Sound, Done
  <1>5. Contained(new)
    BY <1>1, <1>2, <1>3 DEF Contained, Ordered, Sound, Done, Waiting
  <1> QED
    BY <1>4, <1>5 DEF Sound, new

\* Nothing has run: only nodes without dependencies are ready.
LEMMA SoundStatic ==
    ASSUME NEW st,
           \A n \in File.nodes : st[n] = "pending" \/ (st[n] = "ready" /\ File.depends[n] = {})
    PROVE  Sound(st, {})
  <1>1. \A n \in File.nodes : \A d \in Edges(File, n) :
           d \in File.nodes /\ d \in File.depends[n]
    BY FileFacts DEF Edges
  <1> QED
    BY <1>1 DEF Sound, Ordered, Contained

LEMMA SoundReset ==
    ASSUME NEW st, Fitted(st)
    PROVE  Sound(ResetNodes(st, Node), {})
  <1>1. \A n \in File.nodes : n \in Node /\ ResetNodes(st, Node)[n] = "pending"
    BY FileFacts DEF ResetNodes, Fitted
  <1> QED
    BY <1>1, SoundStatic

\* What a group dispatches has its dependencies done, or left in progress by a run
\* that was killed: they are in the groups it requires or before it in the sequence.
LEMMA ChunkIsReady ==
    ASSUME TypeInv, GroupInv, SeqInv, WellGrouped(grouping), Contained(tracker), Dispatch,
           NEW n \in ToSet(Chunk), NEW d \in Edges(File, n)
    PROVE  tracker[d] \in Done \cup {"in_progress"}
  <1> DEFINE list == grouping.nodes[Group]
  <1>1. /\ InGroup /\ Group \in Groups /\ todo # <<>> /\ todo \in Seq(File.nodes)
        /\ list \in Seq(File.nodes) /\ Fitted(tracker) /\ tracker[n] \in Waiting
    BY GroupFacts DEF Dispatch, CanStart, InGroup, TypeInv, Waiting
  <1>2. /\ n \in File.nodes /\ n \in ToSet(todo) /\ n \in Nodes(Group)
        /\ Serial => n = Head(todo)
    BY ChunkFacts DEF Dispatch, GroupInv, InGroup
  <1>3. d \in File.nodes /\ d \in Node
    BY FileFacts
  <1>4. DOMAIN list = 1 .. Len(list) /\ Len(list) \in Nat
    BY <1>1, LenProperties
  <1>5. ASSUME NEW r \in grouping.requires[Group], d \in ToSet(grouping.nodes[r])
        PROVE  tracker[d] \notin Waiting
    BY <1>1, <1>5 DEF GroupInv, Nodes
  <1>6. tracker[d] \notin Waiting
    <2>1. CASE Serial
      <3> DEFINE gone == Len(list) - Len(todo)
      <3>1. /\ gone \in Nat
            /\ \A i \in 1 .. Len(todo) : todo[i] = list[gone + i]
            /\ \A j \in 1 .. gone : tracker[list[j]] \notin Waiting
        BY <1>1, <2>1 DEF SeqInv
      <3>2. Len(todo) \in Nat \ {0} /\ Head(todo) = todo[1]
        BY <1>1, HeadTailProperties, EmptySeq
      <3>3. gone + 1 \in DOMAIN list
        BY <1>4, <3>1, <3>2
      <3>4. 1 \in 1 .. Len(todo)
        BY <3>2
      <3>5. gone + 1 - 1 = gone
        BY <3>1
      <3> HIDE DEF list, gone
      <3>6. n = list[gone + 1]
        BY <1>2, <2>1, <3>1, <3>2, <3>4
      <3>7. PICK i \in DOMAIN list : i = gone + 1 /\ i - 1 = gone
        BY <3>1, <3>3, <3>5
      <3>8. \/ \E r \in grouping.requires[Group] : d \in ToSet(grouping.nodes[r])
            \/ \E j \in 1 .. gone : list[j] = d
        <4>1. \A x \in Edges(File, list[i]) :
                 \/ \E r \in grouping.requires[Group] : x \in ToSet(grouping.nodes[r])
                 \/ \E j \in 1 .. i - 1 : list[j] = x
          BY <1>1 DEF WellGrouped, list
        <4> QED
          BY <3>6, <3>7, <4>1
      <3> QED
        BY <1>5, <3>1, <3>8
    <2>2. CASE ~Serial
      <3>1. PICK i \in DOMAIN list : n = list[i]
        BY <1>1, <1>2, <1>4, InList DEF IsList, Nodes
      <3>2. \E r \in grouping.requires[Group] : d \in ToSet(grouping.nodes[r])
        BY <1>1, <2>2, <3>1 DEF WellGrouped, Serial
      <3> QED
        BY <1>5, <3>2
    <2> QED
      BY <2>1, <2>2
  <1>7. tracker[d] \notin {"failed", "blocked", Absent}
    BY <1>1, <1>2, <1>3 DEF Contained, Fitted
  <1>8. tracker[d] \in Status \cup {Absent}
    BY <1>1, <1>3 DEF Fitted, StatusMap
  <1> QED
    BY <1>6, <1>7, <1>8 DEF Status, Waiting, Done

\* The other commands start what is ready.
LEMMA OtherSound ==
    ASSUME TypeInv, OtherCommand, Sound(Reconcile(File, disk), {})
    PROVE  Sound(disk', {})
  <1> DEFINE st == Reconcile(File, disk)
  <1>1. Fitted(st) /\ Sound(st, {})
    BY ReconcileFits DEF TypeInv
  <1> HIDE DEF st
  <1>2. ASSUME NEW B \in SUBSET ReadyNodes(File, st), NEW success \in BOOLEAN, NEW n \in B,
               disk' = RecordOutcome(File, StartNodes(st, B), n, success)
        PROVE  Sound(disk', {})
    <2>1. B \in SUBSET File.nodes /\ \A m \in B : st[m] \in Waiting
      BY <1>1 DEF ReadyNodes, Fitted, Absent, Waiting
    <2>2. ASSUME NEW m \in B, NEW d \in Edges(File, m)
          PROVE  st[d] \in Done \cup {"in_progress"}
      BY <1>1, <2>1, <2>2 DEF ReadyNodes, AllDepsSatisfied, Sound, Ordered
    <2>3. Fitted(StartNodes(st, B)) /\ StartNodes(st, B)[n] = "in_progress"
      BY <1>1, <2>1, StartFits, FileFacts
    <2>4. Sound(StartNodes(st, B), B)
      BY <1>1, <2>1, <2>2, SoundStart
    <2>5. n \in File.nodes
      BY <2>1
    <2> QED
      BY <1>2, <2>3, <2>4, <2>5, SoundOutcome, SoundAfterAll
  <1>3. ASSUME NEW S \in SUBSET {n \in Node : st[n] = "failed"}, disk' = RetryNodes(st, S)
        PROVE  Sound(disk', {})
    BY <1>1, <1>3, SoundRetry
  <1>4. CASE disk' = ResetNodes(st, Node)
    BY <1>1, <1>4, SoundReset
  <1> QED
    BY <1>2, <1>3, <1>4 DEF OtherCommand, st

LEMMA TableStays ==
    TypeInv /\ CacheInv /\ GroupInv /\ SeqInv /\ TableInv /\ [Next]_vars => TableInv'
  <1> SUFFICES ASSUME TypeInv, CacheInv, GroupInv, SeqInv, TableInv, [Next]_vars
               PROVE  TableInv'
    OBVIOUS
  <1>0. grouping' = grouping
    BY DEF Next, Step, Run, SkipGroup, RefuseGroup, StartGroup, Finish, PassNode, Dispatch,
           AbortRun, Record, EndGroup, Crash, WriteFails, OtherCommand, vars
  <1> SUFFICES ASSUME WellGrouped(grouping)
               PROVE  /\ Sound(Reconcile(File, disk'), {})
                      /\ pc' # "idle" => Sound(tracker', Started')
    BY <1>0 DEF TableInv, WellGrouped
  <1>1. /\ Sound(Reconcile(File, disk), {})
        /\ pc # "idle" => Sound(tracker, Started)
    BY DEF TableInv
  <1>2. ASSUME NEW t \in Targets, NEW ff \in BOOLEAN, Run(t, ff)
        PROVE  disk' = disk /\ (pc' # "idle" => Sound(tracker', Started'))
    <2>1. Started = {} /\ Started' = Started /\ disk' = disk
      BY <1>2, NoBatch DEF Run, Started
    <2>2. pc' # "idle" => tracker' = Reconcile(File, disk)
      BY <1>2 DEF Run
    <2> QED
      BY <1>1, <2>1, <2>2
  <1>3. CASE Dispatch
    <2>1. /\ Fitted(tracker) /\ ToSet(Chunk) \in SUBSET File.nodes /\ Started = {}
          /\ \A n \in ToSet(Chunk) : tracker[n] \in Waiting
          /\ Sound(tracker, {}) /\ disk' = disk
      BY <1>1, <1>3, ChunkFacts, NoBatch DEF Dispatch, TypeInv, CanStart, Waiting
    <2>2. \A n \in ToSet(Chunk) : \A d \in Edges(File, n) : tracker[d] \in Done \cup {"in_progress"}
      BY <1>3, <2>1, ChunkIsReady DEF Sound
    <2>3. tracker' = StartNodes(tracker, ToSet(Chunk)) /\ Started' = ToSet(Chunk)
      BY <1>3 DEF Dispatch, Started
    <2> QED
      BY <1>1, <2>1, <2>2, <2>3, SoundStart
  <1>4. CASE Record
    <2>1. PICK success \in BOOLEAN :
             /\ tracker' = RecordOutcome(File, tracker, Head(batch), success)
             /\ disk' = tracker'
      BY <1>4 DEF Record
    <2>2. /\ Head(batch) \in File.nodes /\ Head(batch) \in Started
          /\ Started' = Started \ {Head(batch)}
          /\ Fitted(tracker) /\ Sound(tracker, Started)
      BY <1>1, <1>4, BatchFacts DEF Record, CacheInv, TypeInv, Started
    <2>3. tracker[Head(batch)] = "in_progress"
      BY <2>2, BatchInProgress
    <2>4. Sound(tracker', Started') /\ Fitted(tracker')
      BY <2>1, <2>2, <2>3, SoundOutcome, OutcomeFits
    <2>5. Reconcile(File, disk') = disk'
      BY <2>1, <2>4, ReconcileFits DEF Fitted
    <2> QED
      BY <2>1, <2>4, <2>5, SoundAfterAll
  <1>5. CASE OtherCommand
    <2>1. Fitted(disk') /\ Sound(disk', {}) /\ pc' = "idle"
      BY <1>1, <1>5, OtherFits, OtherSound DEF OtherCommand
    <2>2. Reconcile(File, disk') = disk'
      BY <2>1, ReconcileFits DEF Fitted
    <2> QED
      BY <2>1, <2>2
  <1>6. CASE disk' = disk /\ (pc' = "idle" \/ (pc # "idle" /\ tracker' = tracker /\ batch' = batch))
    BY <1>1, <1>6 DEF Started
  <1>7. CASE UNCHANGED vars
    BY <1>1, <1>7 DEF vars, run, Started
  <1>8. \/ \E t \in Targets, ff \in BOOLEAN : Run(t, ff)
        \/ Dispatch \/ Record \/ OtherCommand \/ UNCHANGED vars
        \/ disk' = disk /\ (pc' = "idle" \/ (pc # "idle" /\ tracker' = tracker /\ batch' = batch))
    BY DEF Next, Step, SkipGroup, RefuseGroup, StartGroup, Finish, PassNode, AbortRun,
           EndGroup, Crash, WriteFails, End
  <1> QED
    BY <1>1, <1>2, <1>3, <1>4, <1>5, <1>6, <1>7, <1>8

LEMMA AlwaysSound == Spec => []TableInv
  <1>1. Init => TableInv
    <2> SUFFICES ASSUME Init PROVE TableInv
      OBVIOUS
    <2>1. \A n \in File.nodes : n \in Node /\ Reconcile(File, NoState)[n] = Initial(File, n)
      BY FileFacts DEF Reconcile, NoState
    <2>2. Sound(Reconcile(File, NoState), {})
      BY <2>1, SoundStatic DEF Initial
    <2> QED
      BY <2>2 DEF Init, TableInv
  <1> QED
    BY <1>1, TableStays, AlwaysTyped, AlwaysCached, AlwaysInOrder, AlwaysSequential, PTL DEF Spec

\* If the groups are listed so that every dependency of a node is in a group that its
\* group requires or before it in the same sequence, a node is given to an agent only
\* when each dependency is done or was left in progress by a run that was killed,
\* although the scheduler never asks for it.
THEOREM DependenciesGoFirst == Spec => []DependenciesWentFirst
  <1>1. TypeInv /\ CacheInv /\ TableInv => DependenciesWentFirst
    <2> SUFFICES ASSUME TypeInv, CacheInv, TableInv, WellGrouped(grouping),
                        NEW n \in Started, NEW d \in Edges(File, n)
                 PROVE  tracker[d] \in Done \/ (tracker[d] = "in_progress" /\ d \notin Started)
      BY DEF DependenciesWentFirst
    <2>1. n \in File.nodes /\ tracker[n] = "in_progress"
      BY BatchInProgress
    <2>2. pc # "idle"
      BY NoBatch
    <2> QED
      BY <2>1, <2>2 DEF TableInv, Sound, Ordered
  <1> QED
    BY <1>1, AlwaysTyped, AlwaysCached, AlwaysSound, PTL

-------------------------------------------------------------------------------
(***************************************************************************)
(* The order of the groups                                                 *)
(*                                                                         *)
(* GroupOrder is recursive.  What it computes is shown by a least          *)
(* counterexample (LeastNumber), first that the function which the         *)
(* recursion defines exists, then that each of its values is a list        *)
(* without repetitions.                                                    *)
(***************************************************************************)
LEMMA NameOrder ==
    ASSUME NEW S \in SUBSET Groups
    PROVE  Lists(InNameOrder(S), S)
  <1>1. S \in SUBSET Nat /\ IsFiniteSet(S)
    BY OrchestratorAssumption, FS_Subset
  <1> QED
    BY <1>1, NumberedLists DEF InNameOrder, Numbered

IsQueue(q) == q \in Seq(Groups) /\ IsInjective(q)

LEMMA QueueGrows ==
    ASSUME NEW requires, NEW q, IsQueue(q), NEW k
    PROVE  IsQueue(TakeOut(requires, q, k))
  <1> DEFINE S == {g \in Groups \ ToSet(q) : requires[g] \subseteq ToSet(SubSeq(q, 1, k))}
  <1>1. TakeOut(requires, q, k) \in {q, q \o InNameOrder(S)}
    BY DEF TakeOut
  <1>2. S \in SUBSET Groups /\ S \cap ToSet(q) = {}
    OBVIOUS
  <1> HIDE DEF S
  <1>3. Lists(InNameOrder(S), S)
    BY <1>2, NameOrder
  <1>4. IsQueue(q \o InNameOrder(S))
    BY <1>2, <1>3, JoinedLists DEF IsQueue
  <1> QED
    BY <1>1, <1>4

First(requires) == InNameOrder({g \in Groups : requires[g] = {}})

\* f is what the recursion of GroupOrder defines, up to n.
Enqueues(requires, f, n) ==
    f = [k \in 0 .. n |-> IF k = 0 THEN First(requires) ELSE TakeOut(requires, f[k - 1], k)]

LEMMA QueuesExist ==
    ASSUME NEW requires, NEW c \in Nat
    PROVE  \E f : Enqueues(requires, f, c)
  <1> DEFINE Bad == {n \in Nat : ~\E f : Enqueues(requires, f, n)}
  <1>1. ASSUME Bad # {} PROVE FALSE
    <2>1. PICK n \in Bad : \A m \in Bad : n <= m
      BY <1>1, LeastNumber
    <2>2. CASE n = 0
      <3> DEFINE f == [k \in 0 .. 0 |-> First(requires)]
      <3>1. Enqueues(requires, f, 0)
        BY DEF Enqueues
      <3> QED
        BY <2>2, <3>1
    <2>3. CASE n # 0
      <3>1. n - 1 \in Nat /\ n \in Nat /\ n - 1 \notin Bad
        BY <2>1, <2>3
      <3>2. PICK g : Enqueues(requires, g, n - 1)
        BY <3>1
      <3>3. \A k \in 0 .. n - 1 :
               g[k] = IF k = 0 THEN First(requires) ELSE TakeOut(requires, g[k - 1], k)
        BY <3>2 DEF Enqueues
      <3> DEFINE f == [k \in 0 .. n |-> IF k < n THEN g[k] ELSE TakeOut(requires, g[n - 1], n)]
      <3>4. \A k \in 0 .. n :
               f[k] = IF k = 0 THEN First(requires) ELSE TakeOut(requires, f[k - 1], k)
        <4> SUFFICES ASSUME NEW k \in 0 .. n
                     PROVE  f[k] = IF k = 0 THEN First(requires)
                                   ELSE TakeOut(requires, f[k - 1], k)
          OBVIOUS
        <4>1. CASE k < n
          <5>1. k \in 0 .. n - 1 /\ f[k] = g[k] /\ (k # 0 => f[k - 1] = g[k - 1])
            BY <3>1, <4>1
          <5> QED
            BY <3>3, <5>1
        <4>2. CASE k = n
          <5>1. f[k] = TakeOut(requires, g[n - 1], n) /\ f[k - 1] = g[n - 1] /\ k # 0
            BY <2>3, <3>1, <4>2
          <5> QED
            BY <4>2, <5>1
        <4> QED
          BY <3>1, <4>1, <4>2
      <3>5. DOMAIN f = 0 .. n /\ f = [k \in 0 .. n |-> f[k]]
        OBVIOUS
      <3> HIDE DEF f
      <3>6. Enqueues(requires, f, n)
        BY <3>4, <3>5 DEF Enqueues
      <3> QED
        BY <2>1, <3>6
    <2> QED
      BY <2>2, <2>3
  <1> QED
    BY <1>1

\* The order has no group twice; so it has them all, if it is as long as that.
LEMMA OrderIsComplete ==
    ASSUME NEW requires
    PROVE  /\ GroupOrder(requires) \in Seq(Groups)
           /\ Len(GroupOrder(requires)) = Cardinality(Groups) =>
                 ToSet(GroupOrder(requires)) = Groups
  <1> DEFINE c == Cardinality(Groups)
             f == CHOOSE g : Enqueues(requires, g, c)
             q == GroupOrder(requires)
  <1>1. IsFiniteSet(Groups) /\ c \in Nat
    BY OrchestratorAssumption, FS_CardinalityType
  <1>2. q = f[c]
    BY DEF GroupOrder, Enqueues, First
  <1>3. Enqueues(requires, f, c)
    BY <1>1, QueuesExist
  <1> HIDE DEF f, q, c
  <1>4. \A k \in 0 .. c :
           f[k] = IF k = 0 THEN First(requires) ELSE TakeOut(requires, f[k - 1], k)
    BY <1>3 DEF Enqueues
  <1>5. IsQueue(First(requires))
    <2>1. {g \in Groups : requires[g] = {}} \in SUBSET Groups
      OBVIOUS
    <2>2. Lists(First(requires), {g \in Groups : requires[g] = {}})
      BY <2>1, NameOrder DEF First
    <2> QED
      BY <2>1, <2>2, SeqOfElements DEF Lists, IsQueue
  <1>6. IsQueue(q)
    <2> DEFINE Bad == {k \in 0 .. c : ~IsQueue(f[k])}
    <2>1. ASSUME Bad # {} PROVE FALSE
      <3>1. Bad \in SUBSET Nat
        BY <1>1
      <3>2. PICK k \in Bad : \A m \in Bad : k <= m
        BY <2>1, <3>1, LeastNumber
      <3>3. k # 0
        BY <1>1, <1>4, <1>5, <3>2
      <3>4. k - 1 \in 0 .. c /\ k - 1 \notin Bad
        BY <1>1, <3>2, <3>3
      <3> QED
        BY <1>4, <3>2, <3>3, <3>4, QueueGrows
    <2>2. c \in 0 .. c
      BY <1>1
    <2> QED
      BY <1>2, <2>1, <2>2
  <1>7. ASSUME Len(q) = c
        PROVE  ToSet(q) = Groups
    <2>1. IsList(q) /\ q \in Seq(Groups)
      BY <1>6, InList DEF IsQueue
    <2>2. q \in [1 .. c -> Groups]
      BY <1>7, <2>1, ElementOfSeq, LenProperties DEF IsList
    <2>3. q \in Injection(1 .. c, Groups)
      BY <1>6, <2>2 DEF Injection, IsQueue, IsInjective
    <2>4. IsFiniteSet(1 .. c) /\ Cardinality(1 .. c) = c
      BY <1>1, FS_Interval
    <2>5. q \in Surjection(1 .. c, Groups)
      BY <1>1, <2>3, <2>4, FS_Injection DEF c
    <2>6. \A g \in Groups : \E i \in 1 .. c : q[i] = g
      BY <2>5 DEF Surjection
    <2>7. ToSet(q) \subseteq Groups
      BY <2>1, ElementsOf
    <2>8. ASSUME NEW g \in Groups
          PROVE  g \in ToSet(q)
      <3>1. PICK i \in 1 .. c : q[i] = g
        BY <2>6
      <3> QED
        BY <1>7, <2>1, <3>1 DEF IsList
    <2> QED
      BY <2>7, <2>8
  <1> QED
    BY <1>6, <1>7 DEF IsQueue, q, c

-------------------------------------------------------------------------------
(***************************************************************************)
(* Exit code 0                                                             *)
(***************************************************************************)
\* A run has every group that it is for still before it or completed.
ProgressInv ==
    /\ remaining \in Seq(Groups)
    /\ outcome \in {"none", "0", "1", "requires", "cycle", "transition", "write", "killed"}
    /\ pc = "idle" => tracker = NoState
    /\ pc # "idle" => outcome = "none"
    /\ pc # "idle" => target \subseteq ToSet(remaining) \cup completedGroups
    /\ pc \in {"in_group", "record"} => remaining # <<>>

LEMMA EndProgress ==
    ASSUME NEW code \in {"0", "1", "requires", "transition", "write", "killed"}, End(code)
    PROVE  ProgressInv'
  BY NoElements DEF ProgressInv, End

LEMMA ReportCodes == ReportCode \in {"0", "1"}
  BY DEF ReportCode

LEMMA ProgressStays == TypeInv /\ ProgressInv /\ [Next]_vars => ProgressInv'
  <1> SUFFICES ASSUME TypeInv, ProgressInv, [Next]_vars PROVE ProgressInv'
    OBVIOUS
  <1>1. ASSUME NEW t \in Targets, NEW ff \in BOOLEAN, Run(t, ff)
        PROVE  ProgressInv'
    <2> DEFINE order == GroupOrder(grouping.requires)
    <2>1. /\ order \in Seq(Groups)
          /\ Len(order) = Cardinality(Groups) => ToSet(order) = Groups
      BY OrderIsComplete
    <2>2. t \subseteq Groups
      BY OrchestratorAssumption
    <2>3. CASE Len(order) = Cardinality(Groups)
      <3>1. /\ pc' = "next_group" /\ outcome' = "none" /\ remaining' = order
            /\ target' = t
        BY <1>1, <2>3 DEF Run
      <3> QED
        BY <2>1, <2>2, <2>3, <3>1 DEF ProgressInv
    <2>4. CASE Len(order) # Cardinality(Groups)
      <3>1. pc = "idle" /\ outcome' = "cycle" /\ UNCHANGED <<pc, tracker, remaining>>
        BY <1>1, <2>4 DEF Run
      <3> QED
        BY <3>1 DEF ProgressInv
    <2> QED
      BY <2>3, <2>4
  <1>2. ASSUME remaining \in Seq(Groups), remaining # <<>>, remaining' = Tail(remaining)
        PROVE  remaining' \in Seq(Groups) /\ ToSet(remaining) = {Group} \cup ToSet(remaining')
    BY <1>2, HeadAndTail DEF Group
  <1>8. CASE SkipGroup
    <2>1. /\ remaining # <<>> /\ remaining' = Tail(remaining) /\ remaining \in Seq(Groups)
          /\ pc = "next_group" /\ Group \notin target
          /\ UNCHANGED <<pc, outcome, tracker, target, completedGroups>>
      BY <1>8 DEF SkipGroup, ProgressInv
    <2>2. remaining' \in Seq(Groups) /\ ToSet(remaining) = {Group} \cup ToSet(remaining')
      BY <1>2, <2>1
    <2> QED
      BY <2>1, <2>2 DEF ProgressInv
  <1>9. CASE EndGroup /\ ~(hadFailure /\ failFast)
    <2>1. /\ remaining # <<>> /\ remaining' = Tail(remaining) /\ remaining \in Seq(Groups)
          /\ pc = "in_group" /\ pc' = "next_group"
          /\ completedGroups' = completedGroups \cup {Group}
          /\ UNCHANGED <<outcome, tracker, target>>
      BY <1>9 DEF EndGroup, ProgressInv
    <2>2. remaining' \in Seq(Groups) /\ ToSet(remaining) = {Group} \cup ToSet(remaining')
      BY <1>2, <2>1
    <2> QED
      BY <2>1, <2>2 DEF ProgressInv
  <1>3. CASE RefuseGroup \/ AbortRun \/ Finish \/ Crash \/ WriteFails
             \/ (EndGroup /\ hadFailure /\ failFast)
    BY <1>3, EndProgress, ReportCodes
       DEF RefuseGroup, AbortRun, Finish, Crash, WriteFails, EndGroup
  <1>4. CASE StartGroup \/ PassNode \/ Dispatch
    BY <1>4 DEF StartGroup, PassNode, Dispatch, ProgressInv
  <1>5. CASE Record
    <2>1. pc # "idle" /\ pc' # "idle"
      BY <1>5 DEF Record
    <2> QED
      BY <1>5, <2>1 DEF Record, ProgressInv
  <1>6. CASE OtherCommand
    BY <1>6 DEF OtherCommand, run, ProgressInv
  <1>7. CASE UNCHANGED vars
    BY <1>7 DEF vars, run, ProgressInv
  <1> QED
    BY <1>1, <1>3, <1>4, <1>5, <1>6, <1>7, <1>8, <1>9 DEF Next, Step

LEMMA AlwaysProgress == Spec => []ProgressInv
  <1>1. Init => ProgressInv
    BY NoElements DEF Init, ProgressInv
  <1> QED
    BY <1>1, ProgressStays, AlwaysTyped, PTL DEF Spec

\* Every variable has its type, also the order of the groups, which the run gets
\* from a recursion.
THEOREM TypeCorrect == Spec => []TypeOK
  <1>1. TypeInv /\ ProgressInv => TypeOK
    <2> SUFFICES ASSUME TypeInv, ProgressInv PROVE TypeOK
      OBVIOUS
    <2>1. todo \in Seq(Node) /\ batch \in Seq(Node)
      BY FileFacts, ElementsOf, SeqOfElements DEF TypeInv
    <2>2. tracker \in StatusMap
      BY NoStateType DEF TypeInv, ProgressInv, Fitted
    <2> QED
      BY <2>1, <2>2 DEF TypeInv, ProgressInv, TypeOK
  <1> QED
    BY <1>1, AlwaysTyped, AlwaysProgress, PTL

\* A group run that ends with code 0 has left no node of its groups waiting or
\* blocked in the sidecar: it came to each of its groups, and passed over nothing in
\* them that could have been dispatched.
THEOREM ZeroLeavesNothing == Spec => ExitZeroLeavesNothingToRun
  <1>1. TypeInv /\ CacheInv /\ GroupInv /\ ProgressInv /\ [Next]_vars =>
           [(pc # "idle" /\ outcome' = "0") =>
               \A g \in target : \A n \in ToSet(grouping.nodes[g]) :
                  disk'[n] \notin {Absent, "pending", "ready", "blocked"}]_vars
    <2> SUFFICES ASSUME TypeInv, CacheInv, GroupInv, ProgressInv, Next,
                        pc # "idle", outcome' = "0",
                        NEW g \in target, NEW n \in ToSet(grouping.nodes[g])
                 PROVE  disk'[n] \notin {Absent, "pending", "ready", "blocked"}
      OBVIOUS
    <2>1. outcome = "none"
      BY DEF ProgressInv
    <2>2. Finish /\ ReportCode = "0"
      <3>1. CASE EndGroup
        <4>1. hadFailure /\ outcome' = ReportCode
          BY <2>1, <3>1 DEF EndGroup, End
        <4> QED
          BY <4>1 DEF ReportCode
      <3>2. CASE Finish
        BY <3>2 DEF Finish, End
      <3>3. \/ outcome' \in {outcome, "requires", "transition", "killed", "write"}
            \/ EndGroup \/ Finish
        BY DEF Next, Step, Run, SkipGroup, RefuseGroup, StartGroup, PassNode, Dispatch, AbortRun,
               Record, Crash, WriteFails, OtherCommand, End
      <3> QED
        BY <2>1, <3>1, <3>2, <3>3
    <2>3. pc = "next_group" /\ remaining = <<>> /\ disk' = disk
      BY <2>2 DEF Finish
    <2>4. g \in completedGroups /\ g \in Groups
      BY <2>3, NoElements DEF ProgressInv, TypeInv
    <2>5. n \in File.nodes /\ n \in Node
      BY <2>4, NodesOfGroup DEF Nodes
    <2>6. tracker[n] \notin Waiting
      BY <2>4 DEF GroupInv, Nodes
    <2>7. tracker = Reconcile(File, disk)
      BY <2>3, NoBatch, NothingStarted, ReconcileFits DEF CacheInv, TypeInv
    <2>8. tracker[n] # "blocked"
      BY <2>2, <2>5 DEF ReportCode
    <2>9. disk[n] # Absent => disk[n] = tracker[n]
      BY <2>5, <2>7 DEF Reconcile
    <2>10. disk[n] # Absent
      BY <2>5, <2>6, <2>7 DEF Reconcile, Initial, Waiting
    <2> QED
      BY <2>3, <2>6, <2>8, <2>9, <2>10 DEF Waiting
  <1> QED
    BY <1>1, AlwaysTyped, AlwaysCached, AlwaysInOrder, AlwaysProgress, PTL
       DEF Spec, ExitZeroLeavesNothingToRun
===============================================================================
