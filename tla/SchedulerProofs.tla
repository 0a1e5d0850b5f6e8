---------------------------- MODULE SchedulerProofs ----------------------------
(***************************************************************************)
(* What holds of Scheduler for every set of nodes, processes, plans and    *)
(* commands: its types, the dependency order of every status table, and    *)
(* what a failure does to the tables.  And what it guarantees when one   *)
(* command runs at a time: the sidecar implements the durable lifecycle, a*)
(* run of the whole file settles every node, and what a completed node has*)
(* upserted is in the memory file.                                       *)
(***************************************************************************)
EXTENDS Scheduler, FiniteSetTheorems, WellFoundedInduction, TLAPS

-------------------------------------------------------------------------------
(***************************************************************************)
(* The tracker's operators                                                 *)
(***************************************************************************)
\* A plan of the runtime: every name in a `depends` list is in the file or
\* imported, so the edges of a node are its dependencies inside the file.
LEMMA PlanFacts ==
    ASSUME NEW pl \in Plans
    PROVE  /\ pl.nodes \subseteq Node \ Imported
           /\ pl.depends \in [Node -> SUBSET Node]
           /\ \A n \in pl.nodes : Edges(pl, n) = pl.depends[n] \ Imported
  <1>1. ValidPlan(pl)
    BY SchedulerAssumption
  <1> QED
    BY <1>1 DEF ValidPlan, Plan, Edges

\* The operators of the tracker map status tables to status tables.
LEMMA TablesStayTables ==
    ASSUME NEW st \in StatusMap, NEW pl
    PROVE  /\ Reconcile(pl, st) \in StatusMap
           /\ \A S : /\ RetryNodes(st, S) \in StatusMap
                     /\ ResetNodes(st, S) \in StatusMap
                     /\ StartNodes(st, S) \in StatusMap
           /\ \A n \in Node : \A success \in BOOLEAN :
                 RecordOutcome(pl, st, n, success) \in StatusMap
  BY DEF StatusMap, Status, Absent, Reconcile, Initial, RetryNodes, ResetNodes, StartNodes,
         RecordOutcome, MarkCompleted, MarkFailed, PropagateBlocked

\* The execution set and every batch are sets of nodes.
LEMMA ExecutionSetIsSet ==
    ASSUME NEW pl \in Plans, NEW st \in StatusMap, NEW T \in SUBSET Node
    PROVE  ExecutionSet(pl, st, T) \subseteq Node
  BY PlanFacts DEF ExecutionSet, TransitiveDeps

LEMMA BatchIsReady ==
    ASSUME NEW p \in Proc, NEW B \in BatchChoices(p)
    PROVE  /\ B \subseteq Node
           /\ \A n \in B : n \in ReadyNodes(file[p], tracker[p])
  BY DEF BatchChoices, TopoFirst, TakeFirst, Candidates, ReadyNodes

-------------------------------------------------------------------------------
(***************************************************************************)
(* Types                                                                   *)
(***************************************************************************)
\* A process that ends leaves a well-typed state.
LEMMA ExitTypes ==
    ASSUME TypeOK, NEW p \in Proc, NEW code \in {"none", "0", "1", "2", "killed"},
           Exit(p, code),
           plan' \in Plans, disk' \in StatusMap, memDisk' \subseteq Node
    PROVE  TypeOK'
  BY DEF TypeOK, Exit, Goto, PC, StatusMap, NoState, NoResponse

LEMMA ReportCodeType == \A p \in Proc : ReportCode(p) \in {"0", "1"}
  BY DEF ReportCode

LEMMA InitTypes == Init => TypeOK
  <1>1. (CHOOSE c \in Commands : TRUE) \in Commands
    BY SchedulerAssumption
  <1> QED
    BY <1>1 DEF Init, TypeOK, PC, StatusMap, NoState, NoResponse

LEMMA StepTypes ==
    ASSUME TypeOK, NEW p \in Proc, Step(p)
    PROVE  TypeOK'
  <1> USE DEF TypeOK
  <1>0. /\ cmd[p] \in Command
        /\ \A S \in SUBSET Node : S \subseteq Node
        /\ plan \in Plans /\ file[p] \in Plans
        /\ tracker[p] \in StatusMap
    BY SchedulerAssumption
  <1>1. CASE OpenState(p)
    BY <1>1, TablesStayTables DEF OpenState, shared, Goto, PC
  <1>2. CASE OpenMemory(p)
    <2>1. ExecutionSet(file[p], tracker[p], cmd[p].targets) \subseteq Node
      BY <1>0, ExecutionSetIsSet DEF Command
    <2> QED
      BY <1>2, <2>1 DEF OpenMemory, shared, Goto, PC
  <1>3. CASE ResetUnknown(p)
    BY <1>3, ExitTypes DEF ResetUnknown, shared
  <1>4. CASE Reset(p)
    BY <1>4, <1>0, ExitTypes, TablesStayTables DEF Reset
  <1>5. CASE Import(p)
    BY <1>5, ExitTypes, SchedulerAssumption DEF Import
  <1>6. CASE RetryNothing(p)
    BY <1>6, ExitTypes DEF RetryNothing, shared
  <1>7. CASE Retry(p)
    <2>1. NodesToRetry(p) \in SUBSET Node
      BY <1>0 DEF NodesToRetry, FailedNodes, Command
    <2>2. RetryNodes(tracker[p], NodesToRetry(p)) \in StatusMap
      BY <1>0, TablesStayTables
    <2>3. ExecutionSet(file[p], RetryNodes(tracker[p], NodesToRetry(p)), NodesToRetry(p))
            \subseteq Node
      BY <1>0, <2>1, <2>2, ExecutionSetIsSet
    <2> QED
      BY <1>7, <2>2, <2>3 DEF Retry, Goto, PC
  <1>8. CASE Dispatch(p)
    <2>1. PICK B \in BatchChoices(p) :
             /\ tracker' = [tracker EXCEPT ![p] = StartNodes(tracker[p], B)]
             /\ batch' = [batch EXCEPT ![p] = B]
      BY <1>8 DEF Dispatch
    <2>2. B \subseteq Node
      BY BatchIsReady
    <2>3. StartNodes(tracker[p], B) \in StatusMap
      BY <1>0, TablesStayTables
    <2> QED
      BY <1>8, <2>1, <2>2, <2>3 DEF Dispatch, shared, Goto, PC, NoResponse
  <1>9. CASE JoinAgents(p)
    BY <1>9 DEF JoinAgents, shared, Goto, PC
  <1>10. CASE Record(p)
    <2>1. PICK n \in Node, checks \in BOOLEAN :
             LET success == response[p][n] = "success" /\ checks
                 st == RecordOutcome(file[p], tracker[p], n, success)
             IN  /\ tracker' = [tracker EXCEPT ![p] = st]
                 /\ disk' = st
                 /\ mem' = [mem EXCEPT ![p] = Remember(p, n)]
                 /\ hadFailure' = [hadFailure EXCEPT ![p] = @ \/ ~success]
      BY <1>10 DEF Record
    <2> DEFINE success == response[p][n] = "success" /\ checks
               st == RecordOutcome(file[p], tracker[p], n, success)
    <2>2. success \in BOOLEAN /\ st \in StatusMap
      BY <1>0, TablesStayTables
    <2> HIDE DEF st, success
    <2>3. tracker' \in [Proc -> StatusMap] /\ disk' \in StatusMap
      BY <2>1, <2>2 DEF st, success
    <2>4. mem' \in [Proc -> SUBSET Node] /\ hadFailure' \in [Proc -> BOOLEAN]
      BY <2>1, <2>2 DEF success, Remember
    <2> QED
      BY <1>10, <2>3, <2>4 DEF Record, Goto, PC
  <1>11. CASE Flush(p)
    <2>1. memDisk' \subseteq Node /\ plan' \in Plans /\ disk' \in StatusMap
      BY <1>11 DEF Flush
    <2>2. PICK n \in Node :
             LET rest == batch[p] \ {n}
                 stop == rest = {} /\ hadFailure[p] /\ cmd[p].fail_fast
             IN  \/ stop /\ Exit(p, ReportCode(p))
                 \/ /\ ~stop
                    /\ batch' = [batch EXCEPT ![p] = rest]
                    /\ Goto(p, IF rest = {} THEN "dispatch" ELSE "record")
                    /\ UNCHANGED <<cmd, file, tracker, mem, execSet, response,
                                   hadFailure, exitCode>>
      BY <1>11 DEF Flush
    <2>3. CASE Exit(p, ReportCode(p))
      BY <2>1, <2>3, ExitTypes, ReportCodeType
    <2>4. CASE /\ batch' = [batch EXCEPT ![p] = batch[p] \ {n}]
               /\ Goto(p, IF batch[p] \ {n} = {} THEN "dispatch" ELSE "record")
               /\ UNCHANGED <<cmd, file, tracker, mem, execSet, response, hadFailure, exitCode>>
      <3>1. batch[p] \ {n} \in SUBSET Node
        OBVIOUS
      <3> QED
        BY <2>1, <2>4, <3>1 DEF Goto, PC
    <2> QED
      BY <2>2, <2>3, <2>4
  <1>12. CASE Finish(p)
    BY <1>12, ExitTypes, ReportCodeType DEF Finish, shared
  <1>13. CASE \E n \in Node : AgentReturns(p, n)
    BY <1>13 DEF AgentReturns, shared
  <1> QED
    BY <1>1, <1>2, <1>3, <1>4, <1>5, <1>6, <1>7, <1>8, <1>9, <1>10, <1>11, <1>12, <1>13 DEF Step

LEMMA NextTypes == TypeOK /\ [Next]_vars => TypeOK'
  <1> SUFFICES ASSUME TypeOK, [Next]_vars PROVE TypeOK'
    OBVIOUS
  <1>1. CASE \E p \in Proc : Step(p)
    BY <1>1, StepTypes
  <1>2. CASE \E p \in Proc : \E c \in Commands : Invoke(p, c)
    BY <1>2 DEF Invoke, Goto, shared, TypeOK, PC
  <1>3. CASE \E p \in Proc : Crash(p) \/ WriteFails(p)
    <2>1. UNCHANGED shared /\ \E p \in Proc : \E code \in {"killed", "1", "2"} : Exit(p, code)
      BY <1>3 DEF Crash, WriteFails
    <2> QED
      BY <2>1, ExitTypes DEF shared, TypeOK
  <1>4. CASE EditFile
    BY <1>4 DEF EditFile, TypeOK
  <1>5. CASE UNCHANGED vars
    BY <1>5 DEF vars, TypeOK
  <1> QED
    BY <1>1, <1>2, <1>3, <1>4, <1>5 DEF Next

\* Every variable keeps its type, whatever the commands, kills and edits.
THEOREM TypeCorrect == Spec => []TypeOK
  <1> QED
    BY InitTypes, NextTypes, PTL DEF Spec
-------------------------------------------------------------------------------
(***************************************************************************)
(* Dependency order                                                        *)
(*                                                                         *)
(* DependencyOrder alone is not inductive.  A recorded failure keeps the   *)
(* order because the node was in progress (BatchInProgress), a dispatch    *)
(* because a node of the table is a node of the file (KnownNodes), whose   *)
(* edges are then its whole `depends` list up to imported nodes, a reset   *)
(* because of the command that reached it (StageMatchesCommand), and a     *)
(* newly parsed file because there is no table yet (NoTableYet).           *)
(***************************************************************************)
\* The three ways the order can be lost are left out: the `depends` lists do
\* not change, `state reset --node` names only nodes nothing depends on, and
\* what is imported was ordered when it was exported.
OrderAssumptions ==
    /\ \A pl1, pl2 \in Plans : pl1.depends = pl2.depends
    /\ \A c \in Commands : c.op = "reset" =>
          \A pl \in Plans : \A n \in Node : c.targets \cap pl.depends[n] = {}
    /\ \A st \in Imports, pl \in Plans : Ordered(pl, st)

KnownNodes ==
    \A p \in Proc : \A n \in Node : tracker[p][n] # Absent => n \in file[p].nodes

\* at flush the result of the next node of the batch has been recorded
BatchInProgress ==
    \A p \in Proc : \A n \in batch[p] :
        \/ pc[p] \in {"agents", "record"}
        \/ pc[p] = "flush" /\ ~IsNextResult(p, n)
        => tracker[p][n] = "in_progress"

StageMatchesCommand ==
    \A p \in Proc :
        /\ pc[p] \in {"open_state", "open_memory", "reset"} => cmd[p].op # "import"
        /\ pc[p] = "reset" => cmd[p].op \notin {"run", "retry"}

NoTableYet ==
    \A p \in Proc : pc[p] \in {"idle", "open_state", "import"} => tracker[p] = NoState

OrderInv ==
    /\ TypeOK
    /\ DependencyOrder
    /\ KnownNodes
    /\ BatchInProgress
    /\ StageMatchesCommand
    /\ NoTableYet

\* Opening a tracker keeps the order: a dependency that is pruned takes its
\* dependents with it, and a new node is ready only with no dependency.
LEMMA ReconcileOrdered ==
    ASSUME NEW pl \in Plans, NEW st \in StatusMap, Ordered(pl, st)
    PROVE  Ordered(pl, Reconcile(pl, st))
  <1> SUFFICES ASSUME NEW n \in Node, Reconcile(pl, st)[n] \in Eligible,
                      NEW d \in pl.depends[n] \ Imported
               PROVE  Reconcile(pl, st)[d] \in Done
    BY DEF Ordered
  <1>1. n \in pl.nodes /\ d \in pl.nodes /\ d \in Node
    BY PlanFacts DEF Reconcile, Eligible, Absent, Edges
  <1>2. st[n] # Absent
    BY <1>1 DEF Reconcile, Eligible, Initial
  <1>3. st[n] \in Eligible
    BY <1>1, <1>2 DEF Reconcile
  <1>4. st[d] \in Done
    BY <1>3 DEF Ordered
  <1> QED
    BY <1>1, <1>4 DEF Reconcile, Done, Absent

\* `retry` keeps the order: the dependencies of a failed node are done.
LEMMA RetryOrdered ==
    ASSUME NEW pl \in Plans, NEW st \in StatusMap, Ordered(pl, st),
           NEW S \in SUBSET FailedNodes(st)
    PROVE  Ordered(pl, RetryNodes(st, S))
  BY PlanFacts DEF Ordered, RetryNodes, FailedNodes, Eligible, Done

\* Dispatching ready nodes keeps the order.
LEMMA StartOrdered ==
    ASSUME NEW pl \in Plans, NEW st \in StatusMap, Ordered(pl, st),
           \A n \in Node : st[n] # Absent => n \in pl.nodes,
           NEW B \in SUBSET ReadyNodes(pl, st)
    PROVE  Ordered(pl, StartNodes(st, B))
  <1> SUFFICES ASSUME NEW n \in Node, StartNodes(st, B)[n] \in Eligible,
                      NEW d \in pl.depends[n] \ Imported
               PROVE  StartNodes(st, B)[d] \in Done
    BY DEF Ordered
  <1>1. d \in Node
    BY PlanFacts
  <1>2. st[d] \in Done
    <2>1. CASE st[n] \in Eligible
      BY <2>1 DEF Ordered
    <2>2. CASE st[n] \notin Eligible
      <3>1. st[n] = "pending" /\ AllDepsSatisfied(pl, st, n)
        BY <2>2 DEF StartNodes, ReadyNodes, Eligible
      <3> QED
        BY <3>1, PlanFacts DEF AllDepsSatisfied, Absent
    <2> QED
      BY <2>1, <2>2
  <1>3. d \notin B
    BY <1>2 DEF ReadyNodes, Done
  <1> QED
    BY <1>1, <1>2, <1>3 DEF StartNodes

\* Recording the outcome of a node that was in progress keeps the order.
LEMMA RecordOrdered ==
    ASSUME NEW pl \in Plans, NEW st \in StatusMap, Ordered(pl, st),
           NEW n \in Node, st[n] = "in_progress", NEW success \in BOOLEAN
    PROVE  Ordered(pl, RecordOutcome(pl, st, n, success))
  <1> DEFINE new == RecordOutcome(pl, st, n, success)
  <1>1. \A m \in Node : new[m] \in Eligible => st[m] \in Eligible
    BY DEF RecordOutcome, MarkCompleted, MarkFailed, PropagateBlocked, Eligible, StatusMap
  <1>2. \A m \in Node : st[m] \in Done => new[m] \in Done
    BY DEF RecordOutcome, MarkCompleted, MarkFailed, PropagateBlocked, Done, StatusMap
  <1> QED
    BY <1>1, <1>2, PlanFacts DEF Ordered

\* A reset that leaves only completed nodes alone leaves no eligible node, and
\* one of nodes that nothing depends on takes no dependency away.
LEMMA ResetOrdered ==
    ASSUME NEW pl \in Plans, NEW st \in StatusMap, Ordered(pl, st), NEW S,
           \/ \A n \in Node : st[n] # "completed" => n \in S
           \/ \A n \in Node : S \cap pl.depends[n] = {}
    PROVE  Ordered(pl, ResetNodes(st, S))
  <1>1. CASE \A n \in Node : st[n] # "completed" => n \in S
    BY <1>1 DEF Ordered, ResetNodes, Eligible, Absent
  <1>2. CASE \A n \in Node : S \cap pl.depends[n] = {}
    BY <1>2, PlanFacts DEF Ordered, ResetNodes, Eligible, Absent
  <1> QED
    BY <1>1, <1>2
LEMMA EmptyTableOrdered == \A pl : Ordered(pl, NoState)
  BY DEF Ordered, NoState, Eligible, Absent

\* Plans with the same `depends` lists agree on the order.
LEMMA SameOrder ==
    ASSUME OrderAssumptions, NEW pl1 \in Plans, NEW pl2 \in Plans, NEW st, Ordered(pl1, st)
    PROVE  Ordered(pl2, st)
  BY DEF OrderAssumptions, Ordered

LEMMA InitOrder == Init => OrderInv
  BY InitTypes, EmptyTableOrdered
     DEF Init, OrderInv, DependencyOrder, KnownNodes, BatchInProgress,
         StageMatchesCommand, NoTableYet,
         NoState, Absent

\* A process that ends takes its tables with it, so only the sidecar matters.
LEMMA ExitOrder ==
    ASSUME OrderInv, TypeOK', NEW p \in Proc, NEW code, Exit(p, code), Ordered(plan', disk')
    PROVE  OrderInv'
  <1> USE DEF TypeOK
  <1>1. DependencyOrder'
    <2>1. \A q \in Proc : Ordered(file'[q], tracker'[q])
      BY EmptyTableOrdered DEF Exit, OrderInv, DependencyOrder
    <2> QED
      BY <2>1 DEF DependencyOrder
  <1>2. KnownNodes'
    BY DEF Exit, OrderInv, KnownNodes, NoState
  <1>3. BatchInProgress'
    BY DEF Exit, Goto, OrderInv, BatchInProgress, IsNextResult
  <1>4. StageMatchesCommand' /\ NoTableYet'
    BY DEF Exit, Goto, OrderInv, StageMatchesCommand, NoTableYet
  <1> QED
    BY <1>1, <1>2, <1>3, <1>4 DEF OrderInv

\* Between two tables of one process, everything else being equal.
LEMMA TableOrder ==
    ASSUME OrderInv, OrderAssumptions, TypeOK', NEW p \in Proc, NEW st \in StatusMap,
           tracker' = [tracker EXCEPT ![p] = st],
           UNCHANGED <<plan, file>>,
           Ordered(file[p], st),
           disk' \in {disk, st}
    PROVE  DependencyOrder'
  <1>1. Ordered(plan, disk')
    BY SameOrder DEF OrderInv, DependencyOrder, TypeOK
  <1>2. \A q \in Proc : Ordered(file[q], tracker'[q])
    BY DEF OrderInv, DependencyOrder, TypeOK
  <1> QED
    BY <1>1, <1>2 DEF DependencyOrder

\* Every step of a process preserves the invariant.
LEMMA StepOrder ==
    ASSUME OrderInv, OrderAssumptions, NEW p \in Proc, Step(p)
    PROVE  OrderInv'
  <1> USE DEF OrderInv
  <1>0. /\ TypeOK /\ TypeOK'
        /\ plan \in Plans /\ file[p] \in Plans
        /\ tracker[p] \in StatusMap /\ disk \in StatusMap
        /\ Ordered(plan, disk) /\ Ordered(file[p], tracker[p])
        /\ \A n \in Node : tracker[p][n] # Absent => n \in file[p].nodes
        /\ cmd[p] \in Commands
    BY StepTypes DEF TypeOK, DependencyOrder, KnownNodes
  <1>1. CASE OpenState(p)
    <2>0. Ordered(file[p], Reconcile(file[p], disk))
      BY <1>0, SameOrder, ReconcileOrdered
    <2>1. DependencyOrder'
      BY <1>0, <1>1, <2>0 DEF OpenState, shared, TypeOK, DependencyOrder
    <2>2. KnownNodes'
      BY <1>0, <1>1 DEF OpenState, TypeOK, KnownNodes, Reconcile
    <2>3. BatchInProgress' /\ StageMatchesCommand' /\ NoTableYet'
      BY <1>0, <1>1
         DEF OpenState, Goto, TypeOK, BatchInProgress,
             StageMatchesCommand, NoTableYet, IsNextResult
    <2> QED
      BY <1>0, <2>1, <2>2, <2>3
  <1>2. CASE OpenMemory(p)
    <2>1. DependencyOrder' /\ KnownNodes'
      BY <1>2 DEF OpenMemory, shared, DependencyOrder, KnownNodes
    <2>2. /\ \A q \in Proc \ {p} : pc'[q] = pc[q]
          /\ pc'[p] \notin {"agents", "record", "flush", "idle", "import", "open_state",
                            "open_memory"}
          /\ pc'[p] = "reset" => cmd[p].op \notin {"run", "retry", "import"}
          /\ UNCHANGED <<cmd, batch, tracker>>
      <3>1. pc[p] = "open_memory" /\ cmd[p].op # "import"
        BY <1>2 DEF OpenMemory, StageMatchesCommand
      <3>2. CASE cmd[p].op = "run"
        BY <1>0, <1>2, <3>2 DEF OpenMemory, Goto, TypeOK
      <3>3. CASE cmd[p].op = "retry"
        BY <1>0, <1>2, <3>3 DEF OpenMemory, Goto, TypeOK
      <3>4. CASE cmd[p].op \notin {"run", "retry"}
        BY <1>0, <1>2, <3>1, <3>4 DEF OpenMemory, Goto, TypeOK
      <3> QED
        BY <3>2, <3>3, <3>4
    <2>3. BatchInProgress' /\ StageMatchesCommand' /\ NoTableYet'
      BY <2>2 DEF BatchInProgress, StageMatchesCommand, NoTableYet, IsNextResult
    <2> QED
      BY <1>0, <2>1, <2>3
  <1>3. CASE ResetUnknown(p)
    BY <1>0, <1>3, ExitOrder DEF ResetUnknown, shared
  <1>4. CASE Reset(p)
    <2>1. cmd[p].op \in {"reset", "reset_keep_completed"}
      BY <1>0, <1>4, SchedulerAssumption DEF Reset, StageMatchesCommand, Command
    <2>2. \/ \A n \in Node : tracker[p][n] # "completed" => n \in NodesToReset(p)
          \/ \A n \in Node : NodesToReset(p) \cap plan.depends[n] = {}
      BY <1>0, <2>1 DEF NodesToReset, OrderAssumptions
    <2>3. Ordered(plan, tracker[p])
      BY <1>0, SameOrder
    <2>4. Ordered(plan, disk')
      BY <1>0, <1>4, <2>2, <2>3, ResetOrdered DEF Reset
    <2> QED
      BY <1>0, <1>4, <2>4, ExitOrder DEF Reset
  <1>5. CASE Import(p)
    <2>1. Ordered(plan', disk')
      BY <1>0, <1>5 DEF Import, OrderAssumptions
    <2> QED
      BY <1>0, <1>5, <2>1, ExitOrder DEF Import
  <1>6. CASE RetryNothing(p)
    BY <1>0, <1>6, ExitOrder DEF RetryNothing, shared
  <1>7. CASE Retry(p)
    <2> DEFINE st == RetryNodes(tracker[p], NodesToRetry(p))
    <2>1. st \in StatusMap /\ Ordered(file[p], st)
      BY <1>0, <1>7, TablesStayTables, RetryOrdered DEF Retry, CanRetry
    <2>2. DependencyOrder'
      BY <1>0, <1>7, <2>1, TableOrder DEF Retry
    <2>3. KnownNodes'
      BY <1>0, <1>7 DEF Retry, TypeOK, KnownNodes, RetryNodes, CanRetry, FailedNodes, Absent
    <2>4. BatchInProgress' /\ StageMatchesCommand' /\ NoTableYet'
      BY <1>0, <1>7 DEF Retry, Goto, TypeOK, BatchInProgress,
                        StageMatchesCommand, NoTableYet, IsNextResult
    <2> QED
      BY <1>0, <2>2, <2>3, <2>4
  <1>8. CASE Dispatch(p)
    <2>1. PICK B \in BatchChoices(p) :
             /\ tracker' = [tracker EXCEPT ![p] = StartNodes(tracker[p], B)]
             /\ batch' = [batch EXCEPT ![p] = B]
      BY <1>8 DEF Dispatch
    <2>2. B \subseteq ReadyNodes(file[p], tracker[p]) /\ B \subseteq Node
      BY BatchIsReady
    <2>3. StartNodes(tracker[p], B) \in StatusMap
      BY <1>0, TablesStayTables
    <2>4. Ordered(file[p], StartNodes(tracker[p], B))
      BY <1>0, <2>2, StartOrdered
    <2>5. DependencyOrder'
      BY <1>0, <1>8, <2>1, <2>3, <2>4, TableOrder DEF Dispatch, shared
    <2>6. KnownNodes'
      BY <1>0, <1>8, <2>1, <2>2
         DEF Dispatch, TypeOK, KnownNodes, StartNodes, ReadyNodes, Absent
    <2>7. BatchInProgress' /\ StageMatchesCommand' /\ NoTableYet'
      BY <1>0, <1>8, <2>1, <2>2
         DEF Dispatch, Goto, TypeOK, BatchInProgress, StageMatchesCommand, StartNodes,
             NoTableYet, IsNextResult
    <2> QED
      BY <1>0, <2>5, <2>6, <2>7
  <1>9. CASE JoinAgents(p)
    <2>1. DependencyOrder' /\ KnownNodes'
      BY <1>9 DEF JoinAgents, shared, DependencyOrder, KnownNodes
    <2>2. BatchInProgress' /\ StageMatchesCommand' /\ NoTableYet'
      BY <1>0, <1>9
         DEF JoinAgents, Goto, TypeOK, BatchInProgress,
             StageMatchesCommand, NoTableYet, IsNextResult
    <2> QED
      BY <1>0, <2>1, <2>2
  <1>10. CASE Record(p)
    <2>1. PICK n \in Node, success \in BOOLEAN :
             /\ IsNextResult(p, n)
             /\ tracker' = [tracker EXCEPT
                               ![p] = RecordOutcome(file[p], tracker[p], n, success)]
             /\ disk' = RecordOutcome(file[p], tracker[p], n, success)
      BY <1>10 DEF Record
    <2> DEFINE st == RecordOutcome(file[p], tracker[p], n, success)
    <2>2. pc[p] = "record" /\ n \in batch[p]
      BY <1>10, <2>1 DEF Record, IsNextResult
    <2>3. tracker[p][n] = "in_progress"
      BY <2>2 DEF BatchInProgress
    <2>4. st \in StatusMap /\ Ordered(file[p], st)
      BY <1>0, <2>3, TablesStayTables, RecordOrdered
    <2>5. DependencyOrder'
      BY <1>0, <1>10, <2>1, <2>4, TableOrder DEF Record
    <2>6. \A m \in Node :
             /\ st[m] # Absent => tracker[p][m] # Absent
             /\ m # n /\ tracker[p][m] = "in_progress" => st[m] = "in_progress"
      BY <1>0, <2>3
         DEF RecordOutcome, MarkCompleted, MarkFailed, PropagateBlocked, StatusMap, Absent,
             TransitiveDependents
    <2>7. KnownNodes'
      BY <1>0, <1>10, <2>1, <2>6 DEF Record, TypeOK, KnownNodes
    <2>8. \A m \in batch[p] : ~IsNextResult(p, m) => st[m] = "in_progress"
      BY <1>0, <2>1, <2>2, <2>6 DEF BatchInProgress, TypeOK
    <2>9. BatchInProgress' /\ StageMatchesCommand' /\ NoTableYet'
      BY <1>0, <1>10, <2>1, <2>8
         DEF Record, Goto, TypeOK, BatchInProgress,
             StageMatchesCommand, NoTableYet, IsNextResult
    <2> QED
      BY <1>0, <2>5, <2>7, <2>9
  <1>11. CASE Flush(p)
    <2>1. PICK n \in Node :
             /\ IsNextResult(p, n)
             /\ \/ Exit(p, ReportCode(p))
                \/ /\ batch' = [batch EXCEPT ![p] = batch[p] \ {n}]
                   /\ Goto(p, IF batch[p] \ {n} = {} THEN "dispatch" ELSE "record")
                   /\ UNCHANGED <<cmd, file, tracker>>
      BY <1>11 DEF Flush
    <2>2. UNCHANGED <<plan, disk>> /\ pc[p] = "flush"
      BY <1>11 DEF Flush
    <2>3. CASE Exit(p, ReportCode(p))
      BY <1>0, <2>2, <2>3, ExitOrder
    <2>4. CASE /\ batch' = [batch EXCEPT ![p] = batch[p] \ {n}]
               /\ Goto(p, IF batch[p] \ {n} = {} THEN "dispatch" ELSE "record")
               /\ UNCHANGED <<cmd, file, tracker>>
      <3>1. DependencyOrder' /\ KnownNodes'
        BY <2>2, <2>4 DEF DependencyOrder, KnownNodes
      <3>2. \A m \in batch[p] \ {n} : ~IsNextResult(p, m)
        BY <1>0, <2>1, SMT, NodeAssumption DEF IsNextResult, TypeOK
      <3>3. \A m \in batch[p] \ {n} : tracker[p][m] = "in_progress"
        BY <2>2, <3>2 DEF BatchInProgress
      <3>4. BatchInProgress' /\ StageMatchesCommand' /\ NoTableYet'
        BY <1>0, <2>4, <3>3
           DEF Goto, TypeOK, BatchInProgress, StageMatchesCommand, NoTableYet, IsNextResult
      <3> QED
        BY <1>0, <3>1, <3>4
    <2> QED
      BY <2>1, <2>3, <2>4
  <1>12. CASE Finish(p)
    BY <1>0, <1>12, ExitOrder DEF Finish, shared
  <1>13. CASE \E n \in Node : AgentReturns(p, n)
    BY <1>0, <1>13
       DEF AgentReturns, shared, DependencyOrder, KnownNodes, BatchInProgress,
           StageMatchesCommand, NoTableYet, IsNextResult
  <1> QED
    BY <1>1, <1>2, <1>3, <1>4, <1>5, <1>6, <1>7, <1>8, <1>9, <1>10, <1>11, <1>12, <1>13 DEF Step

LEMMA NextOrder == OrderInv /\ OrderAssumptions /\ [Next]_vars => OrderInv'
  <1> SUFFICES ASSUME OrderInv, OrderAssumptions, [Next]_vars PROVE OrderInv'
    OBVIOUS
  <1>0. TypeOK /\ TypeOK'
    BY NextTypes DEF OrderInv
  <1>1. CASE \E p \in Proc : Step(p)
    BY <1>1, StepOrder
  <1>2. CASE \E p \in Proc : \E c \in Commands : Invoke(p, c)
    <2>1. DependencyOrder' /\ KnownNodes'
      <3>1. PICK p \in Proc : \E c \in Commands : Invoke(p, c)
        BY <1>2
      <3>2. /\ UNCHANGED <<plan, disk, tracker>> /\ tracker[p] = NoState
            /\ file' = [file EXCEPT ![p] = plan]
        BY <3>1 DEF Invoke, shared, OrderInv, NoTableYet
      <3>3. Ordered(plan, disk)' /\ \A q \in Proc : Ordered(file'[q], tracker'[q])
        BY <1>0, <3>2, EmptyTableOrdered DEF OrderInv, DependencyOrder, TypeOK
      <3> QED
        BY <1>0, <3>2, <3>3
           DEF OrderInv, DependencyOrder, KnownNodes, NoState, TypeOK
    <2>2. BatchInProgress' /\ StageMatchesCommand' /\ NoTableYet'
      BY <1>0, <1>2
         DEF Invoke, Goto, OrderInv, TypeOK, BatchInProgress,
             StageMatchesCommand, NoTableYet, IsNextResult
    <2> QED
      BY <1>0, <2>1, <2>2 DEF OrderInv
  <1>3. CASE \E p \in Proc : Crash(p) \/ WriteFails(p)
    <2>1. UNCHANGED shared /\ \E p \in Proc : \E code : Exit(p, code)
      BY <1>3 DEF Crash, WriteFails
    <2>2. Ordered(plan', disk')
      BY <2>1 DEF shared, OrderInv, DependencyOrder
    <2> QED
      BY <1>0, <2>1, <2>2, ExitOrder
  <1>4. CASE EditFile
    <2>1. Ordered(plan', disk)
      BY <1>0, <1>4, SameOrder DEF EditFile, OrderInv, DependencyOrder, TypeOK
    <2> QED
      BY <1>0, <1>4, <2>1
         DEF EditFile, OrderInv, DependencyOrder, KnownNodes, BatchInProgress,
             StageMatchesCommand, NoTableYet, IsNextResult
  <1>5. CASE UNCHANGED vars
    BY <1>0, <1>5
       DEF vars, OrderInv, DependencyOrder, KnownNodes, BatchInProgress,
           StageMatchesCommand, NoTableYet,
           IsNextResult
  <1> QED
    BY <1>1, <1>2, <1>3, <1>4, <1>5 DEF Next

\* In every table, the sidecar's and each process's, a node that is ready, in
\* progress or failed has its dependencies completed or skipped: for any
\* number of processes, kills, failing writes, batch sizes and edits that keep
\* the `depends` lists.
THEOREM DependencyOrderHolds ==
    ASSUME OrderAssumptions
    PROVE  Spec => []DependencyOrder
  <1>1. OrderInv => DependencyOrder
    BY DEF OrderInv
  <1> QED
    BY <1>1, InitOrder, NextOrder, PTL DEF Spec

-------------------------------------------------------------------------------
(***************************************************************************)
(* What a failure does to the tables: no step of the dispatch loop takes a *)
(* transition that the state machine refuses, although propagate_blocked   *)
(* does not ask it, and everything that depends on a failed node is        *)
(* blocked.                                                                *)
(*                                                                         *)
(* Both rest on one fact about tables, Sound: what has been run or may be  *)
(* run has all of its transitive dependencies completed.  So a node that   *)
(* ends with failure has only pending and blocked nodes above it.          *)
(***************************************************************************)
-------------------------------------------------------------------------------
(***************************************************************************)
(* Transitive dependencies                                                 *)
(***************************************************************************)
Closed(pl, S) == \A x \in S : Edges(pl, x) \subseteq S

\* What TransitiveDeps is: the least closed set over the edges, but for the
\* node itself.
LEMMA DepsAreLeast ==
    ASSUME NEW pl \in Plans, NEW n \in pl.nodes, NEW S \in SUBSET pl.nodes,
           Edges(pl, n) \subseteq S, Closed(pl, S)
    PROVE  TransitiveDeps(pl, n) \subseteq S
  BY DEF TransitiveDeps, Closed

LEMMA DepsAreNodes ==
    ASSUME NEW pl \in Plans, NEW n
    PROVE  TransitiveDeps(pl, n) \subseteq pl.nodes \ {n}
  BY DEF TransitiveDeps

\* An edge is a transitive dependency: a valid plan has no node on itself.
LEMMA EdgesAreDeps ==
    ASSUME NEW pl \in Plans, NEW n \in pl.nodes
    PROVE  Edges(pl, n) \subseteq TransitiveDeps(pl, n)
  <1>1. ValidPlan(pl)
    BY SchedulerAssumption
  <1>2. n \notin Edges(pl, n) /\ Edges(pl, n) \subseteq pl.nodes
    BY <1>1 DEF ValidPlan, Edges
  <1> QED
    BY <1>2 DEF TransitiveDeps

\* The transitive dependencies of a node are closed: a way back to the node
\* would be a cycle.
LEMMA DepsAreClosed ==
    ASSUME NEW pl \in Plans, NEW n \in pl.nodes
    PROVE  Closed(pl, TransitiveDeps(pl, n))
  <1> SUFFICES ASSUME NEW m \in TransitiveDeps(pl, n), NEW d \in Edges(pl, m)
               PROVE  d \in TransitiveDeps(pl, n)
    BY DEF Closed
  <1>1. m \in pl.nodes /\ d \in pl.nodes
    BY DepsAreNodes DEF Edges
  <1>2. d # n
    <2>1. n \notin TransitiveDeps(pl, m)
      BY SchedulerAssumption DEF ValidPlan
    <2> QED
      BY <1>1, <2>1, EdgesAreDeps
  <1>3. ASSUME NEW S \in SUBSET pl.nodes, Edges(pl, n) \subseteq S, Closed(pl, S)
        PROVE  d \in S
    BY <1>3, DepsAreLeast DEF Closed
  <1> QED
    BY <1>1, <1>2, <1>3 DEF TransitiveDeps, Closed

LEMMA DepsAreTransitive ==
    ASSUME NEW pl \in Plans, NEW n \in pl.nodes, NEW m \in TransitiveDeps(pl, n)
    PROVE  TransitiveDeps(pl, m) \subseteq TransitiveDeps(pl, n)
  <1>1. TransitiveDeps(pl, n) \in SUBSET pl.nodes /\ m \in pl.nodes
    BY DepsAreNodes
  <1>2. Edges(pl, m) \subseteq TransitiveDeps(pl, n)
    BY DepsAreClosed DEF Closed
  <1> QED
    BY <1>1, <1>2, DepsAreClosed, DepsAreLeast

-------------------------------------------------------------------------------
(***************************************************************************)
(* Sound tables                                                            *)
(***************************************************************************)
Sound(pl, st) ==
    \A n \in Node :
        /\ st[n] # "skipped"
        /\ st[n] \in Eligible \cup {"completed"} =>
              \A d \in pl.depends[n] \ Imported : st[d] = "completed"

\* All the way down, what such a node depends on is completed.
LEMMA SoundToTheRoots ==
    ASSUME NEW pl \in Plans, NEW st \in StatusMap, Sound(pl, st),
           NEW n \in pl.nodes, st[n] \in Eligible \cup {"completed"}
    PROVE  \A d \in TransitiveDeps(pl, n) : st[d] = "completed"
  <1> DEFINE S == {m \in pl.nodes : st[m] = "completed"}
  <1>1. \A m \in pl.nodes : Edges(pl, m) = pl.depends[m] \ Imported /\ m \in Node
    BY PlanFacts
  <1>2. Edges(pl, n) \subseteq S
    BY <1>1 DEF Sound, Edges
  <1>3. Closed(pl, S)
    BY <1>1 DEF Sound, Edges, Closed
  <1>4. TransitiveDeps(pl, n) \subseteq S
    BY <1>2, <1>3, DepsAreLeast
  <1> QED
    BY <1>4

LEMMA EmptyTableSound == \A pl : Sound(pl, NoState)
  BY DEF Sound, NoState, Eligible, Absent

LEMMA ReconcileSound ==
    ASSUME NEW pl \in Plans, NEW st \in StatusMap, Sound(pl, st)
    PROVE  Sound(pl, Reconcile(pl, st))
  <1>0. \A n \in Node : Reconcile(pl, st)[n] # "skipped"
    BY DEF Reconcile, Sound, Initial, Absent
  <1> SUFFICES ASSUME NEW n \in Node, Reconcile(pl, st)[n] \in Eligible \cup {"completed"},
                      NEW d \in pl.depends[n] \ Imported
               PROVE  Reconcile(pl, st)[d] = "completed"
    BY <1>0 DEF Sound
  <1>1. n \in pl.nodes
    BY DEF Reconcile, Eligible, Absent
  <1>2. d \in pl.nodes /\ d \in Node
    BY <1>1, PlanFacts DEF Edges
  <1>3. st[n] # Absent
    BY <1>1, <1>2 DEF Reconcile, Eligible, Initial
  <1>4. st[d] = "completed"
    BY <1>1, <1>3 DEF Reconcile, Sound
  <1> QED
    BY <1>2, <1>4 DEF Reconcile, Absent

LEMMA RetrySound ==
    ASSUME NEW pl \in Plans, NEW st \in StatusMap, Sound(pl, st),
           NEW S \in SUBSET FailedNodes(st)
    PROVE  Sound(pl, RetryNodes(st, S))
  BY PlanFacts DEF Sound, RetryNodes, FailedNodes, Eligible

LEMMA StartSound ==
    ASSUME NEW pl \in Plans, NEW st \in StatusMap, Sound(pl, st),
           \A n \in Node : st[n] # Absent => n \in pl.nodes,
           NEW B \in SUBSET ReadyNodes(pl, st)
    PROVE  Sound(pl, StartNodes(st, B))
  <1>0. \A n \in Node : StartNodes(st, B)[n] # "skipped"
    BY DEF StartNodes, Sound
  <1> SUFFICES ASSUME NEW n \in Node, StartNodes(st, B)[n] \in Eligible \cup {"completed"},
                      NEW d \in pl.depends[n] \ Imported
               PROVE  StartNodes(st, B)[d] = "completed"
    BY <1>0 DEF Sound
  <1>1. d \in Node
    BY PlanFacts
  <1>2. st[d] = "completed"
    <2>1. CASE st[n] \in Eligible \cup {"completed"}
      BY <2>1 DEF Sound
    <2>2. CASE st[n] \notin Eligible \cup {"completed"}
      <3>1. st[n] = "pending" /\ AllDepsSatisfied(pl, st, n)
        BY <2>2 DEF StartNodes, ReadyNodes, Eligible
      <3>2. st[d] \in Done
        BY <3>1, PlanFacts DEF AllDepsSatisfied, Absent
      <3> QED
        BY <1>1, <3>2 DEF Sound, Done
    <2> QED
      BY <2>1, <2>2
  <1>3. d \notin B
    BY <1>2 DEF ReadyNodes
  <1> QED
    BY <1>1, <1>2, <1>3 DEF StartNodes

LEMMA RecordSound ==
    ASSUME NEW pl \in Plans, NEW st \in StatusMap, Sound(pl, st),
           NEW n \in Node, st[n] = "in_progress", NEW success \in BOOLEAN
    PROVE  Sound(pl, RecordOutcome(pl, st, n, success))
  <1> DEFINE new == RecordOutcome(pl, st, n, success)
  <1>1. \A m \in Node :
           /\ new[m] \in Eligible \cup {"completed"} => st[m] \in Eligible \cup {"completed"}
           /\ st[m] = "completed" => new[m] = "completed"
           /\ new[m] = "skipped" => st[m] = "skipped"
    BY DEF RecordOutcome, MarkCompleted, MarkFailed, PropagateBlocked, Eligible, StatusMap
  <1> QED
    BY <1>1, PlanFacts DEF Sound

\* A reset of every node, of those that are not completed, or of nodes that
\* nothing depends on.
ResetOfMany(pl, st, S) ==
    \/ Node \subseteq S
    \/ S = {n \in Node : st[n] # "completed"}
    \/ \A n \in Node : S \cap pl.depends[n] = {}

LEMMA ResetSound ==
    ASSUME NEW pl \in Plans, NEW st \in StatusMap, Sound(pl, st), NEW S,
           ResetOfMany(pl, st, S)
    PROVE  Sound(pl, ResetNodes(st, S))
  <1>1. \A n \in Node : ResetNodes(st, S)[n] # "skipped"
    BY DEF ResetNodes, Sound
  <1> SUFFICES ASSUME NEW n \in Node, ResetNodes(st, S)[n] \in Eligible \cup {"completed"},
                      NEW d \in pl.depends[n] \ Imported
               PROVE  ResetNodes(st, S)[d] = "completed"
    BY <1>1 DEF Sound
  <1>2. d \in Node /\ n \notin S /\ st[d] = "completed"
    BY PlanFacts DEF Sound, ResetNodes, Eligible, Absent
  <1>3. d \notin S
    BY <1>2 DEF ResetOfMany
  <1> QED
    BY <1>2, <1>3 DEF ResetNodes

-------------------------------------------------------------------------------
(***************************************************************************)
(* How tables change                                                       *)
(***************************************************************************)
\* What a step does to the table of process q ...
TableChange(q) ==
    \/ tracker'[q] = tracker[q] /\ file'[q] = file[q]
    \/ tracker'[q] = NoState /\ "idle" \in {pc[q], pc'[q]}
    \/ /\ file'[q] = file[q]
       /\ \/ pc[q] = "open_state" /\ tracker'[q] = Reconcile(file[q], disk)
          \/ \E S \in SUBSET FailedNodes(tracker[q]) : tracker'[q] = RetryNodes(tracker[q], S)
          \/ \E B \in SUBSET ReadyNodes(file[q], tracker[q]) :
                tracker'[q] = StartNodes(tracker[q], B)
          \/ \E n \in Node, success \in BOOLEAN :
                /\ tracker[q][n] = "in_progress"
                /\ tracker'[q] = RecordOutcome(file[q], tracker[q], n, success)

\* ... and to the sidecar, which a save replaces by a table of a process.
DiskChange ==
    \/ disk' = disk
    \/ \E q \in Proc : disk' = tracker'[q] /\ file'[q] = file[q] /\ plan' = plan
    \/ \E q \in Proc : /\ pc[q] = "reset" /\ plan' = plan
                       /\ disk' = ResetNodes(tracker[q], NodesToReset(q))
    \/ disk' \in Imports /\ plan' = plan

LEMMA OneTable ==
    ASSUME TypeOK, NEW p \in Proc, NEW st, TableChange(p),
           tracker' = [tracker EXCEPT ![p] = st], file' = file
    PROVE  \A q \in Proc : TableChange(q)
  BY DEF TypeOK, TableChange

LEMMA SameTables ==
    ASSUME UNCHANGED <<tracker, file>>
    PROVE  \A q \in Proc : TableChange(q)
  BY DEF TableChange

LEMMA ExitTables ==
    ASSUME TypeOK, NEW p \in Proc, NEW code, Exit(p, code)
    PROVE  \A q \in Proc : TableChange(q)
  BY DEF TypeOK, TableChange, Exit, Goto

LEMMA StepTables ==
    ASSUME OrderInv, NEW p \in Proc, Step(p)
    PROVE  DiskChange /\ \A q \in Proc : TableChange(q)
  <1>0. /\ TypeOK /\ tracker[p] \in StatusMap /\ disk \in StatusMap /\ file[p] \in Plans
        /\ cmd[p] \in Command
    BY SchedulerAssumption DEF OrderInv, TypeOK
  <1>1. CASE OpenState(p)
    BY <1>0, <1>1, OneTable DEF OpenState, shared, DiskChange, TableChange, TypeOK
  <1>2. CASE OpenMemory(p) \/ JoinAgents(p) \/ \E n \in Node : AgentReturns(p, n)
    BY <1>2, SameTables DEF OpenMemory, JoinAgents, AgentReturns, shared, DiskChange
  <1>3. CASE ResetUnknown(p) \/ RetryNothing(p) \/ Finish(p)
    BY <1>0, <1>3, ExitTables DEF ResetUnknown, RetryNothing, Finish, shared, DiskChange
  <1>4. CASE Reset(p)
    BY <1>0, <1>4, ExitTables DEF Reset, DiskChange
  <1>5. CASE Import(p)
    BY <1>0, <1>5, ExitTables DEF Import, DiskChange
  <1>6. CASE Retry(p)
    <2> DEFINE st == RetryNodes(tracker[p], NodesToRetry(p))
    <2>1. /\ tracker' = [tracker EXCEPT ![p] = st] /\ disk' = st
          /\ plan' = plan /\ file' = file
          /\ NodesToRetry(p) \in SUBSET FailedNodes(tracker[p])
      BY <1>6 DEF Retry, CanRetry
    <2> HIDE DEF st
    <2>2. tracker'[p] = st
      BY <1>0, <2>1 DEF TypeOK
    <2>3. TableChange(p)
      BY <2>1, <2>2 DEF TableChange, st
    <2> QED
      BY <1>0, <2>1, <2>2, <2>3, OneTable DEF DiskChange
  <1>7. CASE Dispatch(p)
    <2>1. PICK B \in BatchChoices(p) : tracker' = [tracker EXCEPT ![p] = StartNodes(tracker[p], B)]
      BY <1>7 DEF Dispatch
    <2>2. B \in SUBSET ReadyNodes(file[p], tracker[p])
      BY BatchIsReady
    <2>3. UNCHANGED <<plan, disk, file>>
      BY <1>7 DEF Dispatch, shared
    <2>4. TableChange(p)
      BY <1>0, <2>1, <2>2, <2>3 DEF TableChange, TypeOK
    <2> QED
      BY <1>0, <2>1, <2>3, <2>4, OneTable DEF DiskChange
  <1>8. CASE Record(p)
    <2>1. PICK n \in Node, success \in BOOLEAN :
             /\ IsNextResult(p, n)
             /\ tracker' = [tracker EXCEPT
                               ![p] = RecordOutcome(file[p], tracker[p], n, success)]
             /\ disk' = RecordOutcome(file[p], tracker[p], n, success)
      BY <1>8 DEF Record
    <2>2. tracker[p][n] = "in_progress" /\ plan' = plan /\ file' = file
      BY <1>8, <2>1 DEF Record, IsNextResult, OrderInv, BatchInProgress
    <2>3. tracker'[p] = RecordOutcome(file[p], tracker[p], n, success)
      BY <1>0, <2>1 DEF TypeOK
    <2>4. TableChange(p)
      BY <2>2, <2>3 DEF TableChange
    <2> QED
      BY <1>0, <2>1, <2>2, <2>3, <2>4, OneTable DEF DiskChange
  <1>9. CASE Flush(p)
    <2>1. disk' = disk /\ (Exit(p, ReportCode(p)) \/ UNCHANGED <<tracker, file>>)
      BY <1>9 DEF Flush
    <2> QED
      BY <1>0, <2>1, ExitTables, SameTables DEF DiskChange
  <1> QED
    BY <1>1, <1>2, <1>3, <1>4, <1>5, <1>6, <1>7, <1>8, <1>9 DEF Step

LEMMA NextTables ==
    ASSUME OrderInv, [Next]_vars
    PROVE  DiskChange /\ \A q \in Proc : TableChange(q)
  <1>0. TypeOK
    BY DEF OrderInv
  <1>1. CASE \E p \in Proc : Step(p)
    BY <1>1, StepTables
  <1>2. CASE \E p \in Proc : \E c \in Commands : Invoke(p, c)
    BY <1>0, <1>2
       DEF Invoke, shared, DiskChange, TableChange, OrderInv, NoTableYet, TypeOK
  <1>3. CASE \E p \in Proc : Crash(p) \/ WriteFails(p)
    BY <1>0, <1>3, ExitTables DEF Crash, WriteFails, shared, DiskChange
  <1>4. CASE EditFile \/ UNCHANGED vars
    BY <1>4, SameTables DEF EditFile, vars, DiskChange
  <1> QED
    BY <1>1, <1>2, <1>3, <1>4 DEF Next

-------------------------------------------------------------------------------
(***************************************************************************)
(* Sound tables, in every state                                            *)
(***************************************************************************)
\* As for the order; and what is imported is sound, as every table is that the
\* commands of this module leave behind.
SoundAssumptions ==
    /\ OrderAssumptions
    /\ \A st \in Imports, pl \in Plans : Sound(pl, st)

SoundTables ==
    /\ Sound(plan, disk)
    /\ \A p \in Proc : Sound(file[p], tracker[p])

SoundInv == OrderInv /\ SoundTables

\* Plans with the same `depends` lists agree on what is sound.
LEMMA SameSound ==
    ASSUME OrderAssumptions, NEW pl1 \in Plans, NEW pl2 \in Plans, NEW st, Sound(pl1, st)
    PROVE  Sound(pl2, st)
  BY DEF OrderAssumptions, Sound

\* Which nodes a reset takes.
LEMMA ResetTakesMany ==
    ASSUME OrderInv, OrderAssumptions, NEW p \in Proc, pc[p] = "reset"
    PROVE  ResetOfMany(plan, tracker[p], NodesToReset(p))
  <1>1. cmd[p] \in Commands /\ plan \in Plans
    BY DEF OrderInv, TypeOK
  <1>2. cmd[p].op \in {"reset", "reset_keep_completed"}
    BY <1>1, SchedulerAssumption DEF OrderInv, StageMatchesCommand, Command
  <1> QED
    BY <1>1, <1>2 DEF NodesToReset, ResetOfMany, OrderAssumptions

LEMMA NextSound ==
    ASSUME SoundInv, SoundAssumptions, [Next]_vars
    PROVE  SoundInv'
  <1>0. /\ OrderInv /\ OrderInv' /\ OrderAssumptions
        /\ TypeOK /\ TypeOK'
    BY NextOrder DEF SoundInv, SoundAssumptions, OrderInv
  <1>1. ASSUME NEW q \in Proc
        PROVE  Sound(file'[q], tracker'[q])
    <2>0. /\ TableChange(q) /\ file[q] \in Plans /\ plan \in Plans
          /\ tracker[q] \in StatusMap /\ disk \in StatusMap
          /\ Sound(file[q], tracker[q]) /\ Sound(file[q], disk)
          /\ \A n \in Node : tracker[q][n] # Absent => n \in file[q].nodes
      BY <1>0, NextTables, SameSound DEF SoundInv, SoundTables, TypeOK, OrderInv, KnownNodes
    <2>1. CASE tracker'[q] = tracker[q] /\ file'[q] = file[q]
      BY <2>0, <2>1
    <2>2. CASE tracker'[q] = NoState
      BY <2>2, EmptyTableSound
    <2> QED
      BY <2>0, <2>1, <2>2, ReconcileSound, RetrySound, StartSound, RecordSound DEF TableChange
  <1>2. Sound(plan', disk')
    <2>0. DiskChange /\ plan \in Plans /\ plan' \in Plans /\ Sound(plan, disk)
      BY <1>0, NextTables DEF TypeOK, SoundInv, SoundTables
    <2>1. CASE disk' = disk
      BY <1>0, <2>0, <2>1, SameSound
    <2>2. CASE \E q \in Proc : disk' = tracker'[q] /\ file'[q] = file[q] /\ plan' = plan
      <3>1. PICK q \in Proc : disk' = tracker'[q] /\ file'[q] = file[q] /\ plan' = plan
        BY <2>2
      <3> QED
        BY <1>0, <1>1, <2>0, <3>1, SameSound DEF TypeOK
    <2>3. CASE \E q \in Proc : /\ pc[q] = "reset" /\ plan' = plan
                              /\ disk' = ResetNodes(tracker[q], NodesToReset(q))
      <3>1. PICK q \in Proc : /\ pc[q] = "reset" /\ plan' = plan
                              /\ disk' = ResetNodes(tracker[q], NodesToReset(q))
        BY <2>3
      <3>2. Sound(plan, tracker[q]) /\ tracker[q] \in StatusMap
        BY <1>0, <2>0, SameSound DEF TypeOK, SoundInv, SoundTables
      <3> QED
        BY <1>0, <2>0, <3>1, <3>2, ResetTakesMany, ResetSound
    <2>4. CASE disk' \in Imports /\ plan' = plan
      BY <2>0, <2>4 DEF SoundAssumptions
    <2> QED
      BY <2>0, <2>1, <2>2, <2>3, <2>4 DEF DiskChange
  <1> QED
    BY <1>0, <1>1, <1>2 DEF SoundInv, SoundTables

LEMMA InitSound == Init => SoundInv
  BY InitOrder, EmptyTableSound DEF Init, SoundInv, SoundTables

LEMMA AlwaysSound ==
    ASSUME SoundAssumptions
    PROVE  Spec => []SoundInv
  BY InitSound, NextSound, PTL DEF Spec

-------------------------------------------------------------------------------
(***************************************************************************)
(* Legal transitions                                                       *)
(***************************************************************************)
\* Recording an outcome takes no ready node: a ready node that depends on the
\* node that failed would have it completed.
LEMMA RecordLegal ==
    ASSUME NEW pl \in Plans, NEW st \in StatusMap, Sound(pl, st),
           NEW n \in Node, st[n] = "in_progress", NEW success \in BOOLEAN, NEW m \in Node
    PROVE  LegalChange(st[m], RecordOutcome(pl, st, n, success)[m])
  <1> DEFINE new == RecordOutcome(pl, st, n, success)
  <1>1. CASE m = n
    <2>1. new[n] = IF success THEN "completed" ELSE "failed"
      BY DEF RecordOutcome, MarkCompleted, MarkFailed, PropagateBlocked, StatusMap
    <2> QED
      BY <1>1, <2>1 DEF LegalChange, ValidTransition
  <1>2. CASE m # n /\ new[m] # st[m]
    <2>1. ~success /\ m \in TransitiveDependents(pl, n) /\ st[m] \in {"pending", "ready"}
          /\ new[m] = "blocked"
      BY <1>2 DEF RecordOutcome, MarkCompleted, MarkFailed, PropagateBlocked, StatusMap
    <2>2. m \in pl.nodes /\ n \in TransitiveDeps(pl, m)
      BY <2>1 DEF TransitiveDependents
    <2>3. st[m] # "ready"
      BY <2>2, SoundToTheRoots DEF Eligible
    <2> QED
      BY <2>1, <2>3 DEF LegalChange, ValidTransition
  <1> QED
    BY <1>1, <1>2 DEF LegalChange

LEMMA NextLegal ==
    ASSUME SoundInv, [Next]_vars, NEW p \in Proc,
           pc[p] \in {"retry", "dispatch", "record"}, pc'[p] # "idle", NEW n \in Node
    PROVE  LegalChange(tracker[p][n], tracker'[p][n])
  <1>1. /\ TableChange(p)
        /\ tracker[p] \in StatusMap /\ file[p] \in Plans /\ Sound(file[p], tracker[p])
    BY NextTables DEF SoundInv, SoundTables, OrderInv, TypeOK
  <1>2. CASE tracker'[p] = tracker[p]
    BY <1>2 DEF LegalChange
  <1>3. CASE \E S \in SUBSET FailedNodes(tracker[p]) : tracker'[p] = RetryNodes(tracker[p], S)
    BY <1>3 DEF FailedNodes, RetryNodes, LegalChange, ValidTransition
  <1>4. CASE \E B \in SUBSET ReadyNodes(file[p], tracker[p]) :
                tracker'[p] = StartNodes(tracker[p], B)
    BY <1>4 DEF ReadyNodes, StartNodes, LegalChange, ValidTransition
  <1>5. CASE \E m \in Node, success \in BOOLEAN :
                /\ tracker[p][m] = "in_progress"
                /\ tracker'[p] = RecordOutcome(file[p], tracker[p], m, success)
    BY <1>1, <1>5, RecordLegal
  <1> QED
    BY <1>1, <1>2, <1>3, <1>4, <1>5 DEF TableChange

\* No step of the dispatch loop or of `retry` takes a node along a transition
\* that section 26.4 does not have, for any number of processes, kills, failing
\* writes, batch sizes and edits that keep the `depends` lists: propagate_blocked
\* sets statuses without asking the state machine, and never has a ready node
\* to block.
THEOREM TransitionsStayLegal ==
    ASSUME SoundAssumptions
    PROVE  Spec => TransitionsAreLegal
  <1>1. SoundInv /\ [Next]_vars
          => [\A p \in Proc :
                (pc[p] \in {"retry", "dispatch", "record"} /\ pc'[p] # "idle")
                => \A n \in Node : LegalChange(tracker[p][n], tracker'[p][n])]_vars
    BY NextLegal
  <1> QED
    BY <1>1, AlwaysSound, PTL DEF Spec, TransitionsAreLegal

-------------------------------------------------------------------------------
(***************************************************************************)
(* Containment of failures                                                 *)
(*                                                                         *)
(* A recorded failure blocks the pending nodes above it; that these are    *)
(* all of them takes Sound tables (none is ready, in progress, failed or   *)
(* completed) and complete ones (EveryNodeKnown: none is missing).         *)
(***************************************************************************)
\* The ways containment can be lost are left out: a file edited to have more
\* nodes above a failed one, `state reset --node` of a blocked node, and an
\* imported table in which a failure is not contained.
ContainmentAssumptions ==
    /\ SoundAssumptions
    /\ \A pl1, pl2 \in Plans : pl1 = pl2
    /\ \A c \in Commands : c.op = "reset" => c.targets = {}
    /\ \A st \in Imports, pl \in Plans : Contained(pl, st)

\* a process between the opening of its tracker and its end
Opened == {"open_memory", "retry", "reset", "dispatch", "agents", "record", "flush"}

EveryNodeKnown ==
    \A p \in Proc : pc[p] \in Opened => \A n \in file[p].nodes : tracker[p][n] # Absent

ContainInv == SoundInv /\ EveryNodeKnown /\ FailureContained

\* No operator of the tracker drops an entry of a node of the file.
LEMMA EntriesStay ==
    ASSUME NEW pl, NEW st \in StatusMap, NEW m \in Node, st[m] # Absent
    PROVE  /\ \A S : /\ RetryNodes(st, S)[m] # Absent
                    /\ StartNodes(st, S)[m] # Absent
           /\ \A n \in Node : \A success \in BOOLEAN :
                 RecordOutcome(pl, st, n, success)[m] # Absent
  BY DEF RetryNodes, StartNodes, RecordOutcome, MarkCompleted, MarkFailed, PropagateBlocked,
         StatusMap, Absent

\* The only step into a process's opened stages from outside is OpenState.
LEMMA StaysOpened ==
    ASSUME TypeOK, [Next]_vars, NEW q \in Proc, pc'[q] \in Opened
    PROVE  pc[q] \in Opened \cup {"open_state"}
  <1>1. CASE pc'[q] = pc[q]
    BY <1>1
  <1>2. CASE pc'[q] # pc[q]
    <2>1. PICK p \in Proc : \/ Step(p)
                            \/ \E c \in Commands : Invoke(p, c)
                            \/ Crash(p)
                            \/ WriteFails(p)
      BY <1>2 DEF Next, vars, EditFile
    <2>2. p = q
      BY <1>2, <2>1
         DEF TypeOK, Step, OpenState, OpenMemory, ResetUnknown, Reset, Import, RetryNothing,
             Retry, Dispatch, JoinAgents, Record, Flush, Finish, AgentReturns, Invoke, Crash,
             WriteFails, Exit, Goto
    <2> QED
      BY <1>2, <2>1, <2>2
         DEF Opened, TypeOK, Step, OpenState, OpenMemory, ResetUnknown, Reset, Import,
             RetryNothing, Retry, Dispatch, JoinAgents, Record, Flush, Finish, AgentReturns,
             Invoke, Crash, WriteFails, Exit, Goto
  <1> QED
    BY <1>1, <1>2

LEMMA NextKnown ==
    ASSUME OrderInv, TypeOK', EveryNodeKnown, [Next]_vars
    PROVE  EveryNodeKnown'
  <1> SUFFICES ASSUME NEW q \in Proc, pc'[q] \in Opened, NEW n \in file'[q].nodes
               PROVE  tracker'[q][n] # Absent
    BY DEF EveryNodeKnown
  <1>1. /\ TableChange(q) /\ TypeOK
        /\ file[q] \in Plans /\ file'[q] \in Plans
        /\ tracker[q] \in StatusMap /\ disk \in StatusMap
        /\ pc[q] \in Opened \cup {"open_state"}
    BY NextTables, StaysOpened DEF OrderInv, TypeOK
  <1>2. n \in Node
    BY <1>1, PlanFacts
  <1>3. "idle" \notin {pc[q], pc'[q]}
    BY <1>1 DEF Opened
  <1>4. CASE file'[q] = file[q] /\ pc[q] \in Opened /\ pc[q] # "open_state"
    <2>1. tracker[q][n] # Absent
      BY <1>4 DEF EveryNodeKnown
    <2> QED
      BY <1>1, <1>2, <1>3, <1>4, <2>1, EntriesStay DEF TableChange
  <1>5. CASE file'[q] = file[q] /\ pc[q] = "open_state"
    <2>1. tracker'[q] = Reconcile(file[q], disk)
      \* the only step of a process at open_state that leads into the opened stages
      <3>1. PICK p \in Proc : \/ Step(p)
                              \/ \E c \in Commands : Invoke(p, c)
                              \/ Crash(p)
                              \/ WriteFails(p)
        BY <1>5 DEF Next, vars, EditFile, Opened
      <3>2. p = q
        BY <1>1, <1>5, <3>1
           DEF Opened, TypeOK, Step, OpenState, OpenMemory, ResetUnknown, Reset, Import,
               RetryNothing, Retry, Dispatch, JoinAgents, Record, Flush, Finish, AgentReturns,
               Invoke, Crash, WriteFails, Exit, Goto
      <3>3. OpenState(q)
        BY <1>1, <1>5, <3>1, <3>2
           DEF Opened, TypeOK, Step, OpenMemory, ResetUnknown, Reset, Import,
               RetryNothing, Retry, Dispatch, JoinAgents, Record, Flush, Finish, AgentReturns,
               Invoke, Crash, WriteFails, Exit, Goto
      <3> QED
        BY <1>1, <3>3 DEF OpenState, TypeOK
    <2> QED
      BY <1>1, <1>2, <1>5, <2>1 DEF Reconcile, Initial, Absent
  <1> QED
    BY <1>1, <1>3, <1>4, <1>5 DEF TableChange

LEMMA EmptyTableContained == \A pl : Contained(pl, NoState)
  BY DEF Contained, NoState, Absent

LEMMA ReconcileContained ==
    ASSUME NEW pl \in Plans, NEW st \in StatusMap, Contained(pl, st)
    PROVE  Contained(pl, Reconcile(pl, st))
  <1> SUFFICES ASSUME NEW f \in Node, Reconcile(pl, st)[f] = "failed",
                      NEW n \in TransitiveDependents(pl, f)
               PROVE  Reconcile(pl, st)[n] = "blocked"
    BY DEF Contained
  <1>1. st[f] = "failed"
    BY DEF Reconcile, Initial, Absent
  <1>2. n \in pl.nodes /\ n \in Node
    BY PlanFacts DEF TransitiveDependents
  <1>3. st[n] = "blocked"
    BY <1>1 DEF Contained
  <1> QED
    BY <1>2, <1>3 DEF Reconcile, Absent

\* `retry` and a dispatch leave blocked nodes alone and make no node failed.
LEMMA RetryAndStartContained ==
    ASSUME NEW pl \in Plans, NEW st \in StatusMap, Contained(pl, st)
    PROVE  /\ \A S \in SUBSET FailedNodes(st) : Contained(pl, RetryNodes(st, S))
           /\ \A B \in SUBSET ReadyNodes(pl, st) : Contained(pl, StartNodes(st, B))
  <1>1. \A f : TransitiveDependents(pl, f) \subseteq Node
    BY PlanFacts DEF TransitiveDependents
  <1> QED
    BY <1>1 DEF Contained, RetryNodes, StartNodes, FailedNodes, ReadyNodes

LEMMA RecordContained ==
    ASSUME NEW pl \in Plans, NEW st \in StatusMap, Contained(pl, st), Sound(pl, st),
           \A n \in pl.nodes : st[n] # Absent,
           NEW n \in Node, st[n] = "in_progress", NEW success \in BOOLEAN
    PROVE  Contained(pl, RecordOutcome(pl, st, n, success))
  <1> DEFINE new == RecordOutcome(pl, st, n, success)
  <1> SUFFICES ASSUME NEW f \in Node, new[f] = "failed", NEW m \in TransitiveDependents(pl, f)
               PROVE  new[m] = "blocked"
    BY DEF Contained
  <1>1. m \in pl.nodes /\ m \in Node /\ f \in TransitiveDeps(pl, m) /\ f # m
    BY PlanFacts, DepsAreNodes DEF TransitiveDependents
  <1>2. \A k \in Node : st[k] = "blocked" => new[k] = "blocked"
    BY DEF RecordOutcome, MarkCompleted, MarkFailed, PropagateBlocked, StatusMap
  <1>3. CASE st[f] = "failed"
    BY <1>1, <1>2, <1>3 DEF Contained
  <1>4. CASE st[f] # "failed"
    <2>1. f = n /\ ~success
      BY <1>4 DEF RecordOutcome, MarkCompleted, MarkFailed, PropagateBlocked, StatusMap
    <2>2. st[m] \notin Eligible \cup {"completed"}
      BY <1>1, <2>1, SoundToTheRoots
    <2>3. st[m] \in {"pending", "blocked"}
      BY <1>1, <2>2 DEF StatusMap, Status, Eligible, Sound
    <2>4. CASE st[m] = "pending"
      BY <1>1, <2>1, <2>4 DEF RecordOutcome, MarkFailed, PropagateBlocked, StatusMap
    <2> QED
      BY <1>1, <1>2, <2>3, <2>4
  <1> QED
    BY <1>3, <1>4

\* A reset of every node, or of those that are not completed, leaves no failure.
LEMMA ResetContained ==
    ASSUME NEW pl, NEW st \in StatusMap, NEW S,
           \/ Node \subseteq S
           \/ S = {n \in Node : st[n] # "completed"}
    PROVE  Contained(pl, ResetNodes(st, S))
  BY DEF Contained, ResetNodes, Absent

LEMMA NextContained ==
    ASSUME ContainInv, ContainmentAssumptions, [Next]_vars
    PROVE  ContainInv'
  <1>0. /\ SoundInv /\ SoundInv' /\ SoundAssumptions /\ OrderInv
        /\ TypeOK /\ TypeOK' /\ EveryNodeKnown'
    BY NextSound, NextKnown DEF ContainInv, ContainmentAssumptions, SoundInv, OrderInv
  <1>1. /\ \A q \in Proc : /\ file[q] = plan /\ file'[q] = plan /\ plan' = plan
                           /\ tracker[q] \in StatusMap
        /\ plan \in Plans /\ disk \in StatusMap
    BY <1>0 DEF TypeOK, ContainmentAssumptions
  <1>2. ASSUME NEW q \in Proc
        PROVE  Contained(plan, tracker'[q])
    <2>0. /\ TableChange(q)
          /\ Contained(plan, tracker[q]) /\ Contained(plan, disk) /\ Sound(plan, tracker[q])
      BY <1>0, <1>1, NextTables DEF SoundInv, SoundTables, ContainInv, FailureContained
    <2>1. CASE tracker'[q] = tracker[q]
      BY <2>0, <2>1
    <2>2. CASE tracker'[q] = NoState
      BY <2>2, EmptyTableContained
    <2>3. CASE \E n \in Node, success \in BOOLEAN :
                /\ tracker[q][n] = "in_progress"
                /\ tracker'[q] = RecordOutcome(file[q], tracker[q], n, success)
      <3>1. tracker[q] # NoState
        BY <2>3 DEF NoState, Absent
      <3>2. pc[q] \in Opened
        BY <1>0, <3>1 DEF OrderInv, NoTableYet, TypeOK, PC, Opened
      <3>3. \A n \in plan.nodes : tracker[q][n] # Absent
        BY <1>1, <3>2 DEF ContainInv, EveryNodeKnown
      <3> QED
        BY <1>1, <2>0, <2>3, <3>3, RecordContained
    <2> QED
      BY <1>1, <2>0, <2>1, <2>2, <2>3, ReconcileContained, RetryAndStartContained
         DEF TableChange
  <1>3. Contained(plan, disk')
    <2>1. CASE disk' = disk
      BY <2>1 DEF ContainInv, FailureContained
    <2>2. CASE \E q \in Proc : disk' = tracker'[q] /\ file'[q] = file[q] /\ plan' = plan
      BY <1>2, <2>2
    <2>3. CASE \E q \in Proc : /\ pc[q] = "reset" /\ plan' = plan
                              /\ disk' = ResetNodes(tracker[q], NodesToReset(q))
      <3>1. PICK q \in Proc : /\ pc[q] = "reset"
                              /\ disk' = ResetNodes(tracker[q], NodesToReset(q))
        BY <2>3
      <3>2. cmd[q] \in Commands
        BY <1>0 DEF TypeOK
      <3>3. cmd[q].op \in {"reset", "reset_keep_completed"}
        BY <1>0, <3>1, <3>2, SchedulerAssumption DEF OrderInv, StageMatchesCommand, Command
      <3>4. \/ Node \subseteq NodesToReset(q)
            \/ NodesToReset(q) = {n \in Node : tracker[q][n] # "completed"}
        BY <3>2, <3>3 DEF NodesToReset, ContainmentAssumptions
      <3> QED
        BY <1>1, <3>1, <3>4, ResetContained
    <2>4. CASE disk' \in Imports /\ plan' = plan
      BY <1>1, <2>4 DEF ContainmentAssumptions
    <2> QED
      BY <1>0, <2>1, <2>2, <2>3, <2>4, NextTables DEF DiskChange
  <1>4. FailureContained'
    BY <1>0, <1>1, <1>2, <1>3 DEF FailureContained, TypeOK, ContainmentAssumptions
  <1> QED
    BY <1>0, <1>4 DEF ContainInv

LEMMA InitContained == Init => ContainInv
  BY InitSound, EmptyTableContained
     DEF Init, ContainInv, EveryNodeKnown, FailureContained, Opened

LEMMA AlwaysContained ==
    ASSUME ContainmentAssumptions
    PROVE  Spec => []ContainInv
  BY InitContained, NextContained, PTL DEF Spec

\* Everything that transitively depends on a failed node is blocked, in the
\* sidecar and in the table of every process, for any number of processes that
\* overwrite each other's tables, any kills, failing writes and batch sizes, as
\* long as the file is not edited and no single node is reset.
THEOREM FailuresStayContained ==
    ASSUME ContainmentAssumptions
    PROVE  Spec => []FailureContained
  <1>1. ContainInv => FailureContained
    BY DEF ContainInv
  <1> QED
    BY <1>1, AlwaysContained, PTL

-------------------------------------------------------------------------------
(***************************************************************************)
(* One process at a time                                                   *)
(***************************************************************************)
OneProcess == \A p, q \in Proc : p = q

-------------------------------------------------------------------------------
(***************************************************************************)
(* The durable lifecycle                                                   *)
(*                                                                         *)
(* Between two saves the table of the process is the sidecar's, opened     *)
(* (Reconcile) and with the running batch started.  A dispatch and a save  *)
(* keep that only because the table has exactly the nodes of the file      *)
(* (Fitted), so that opening it again would change nothing.                *)
(***************************************************************************)
Fitted(pl, st) == \A n \in Node : st[n] = Absent <=> n \notin pl.nodes

MayRun(pl, st) == ReadyNodes(pl, st) \cup {n \in Node : st[n] = "in_progress"}

\* how the table of a process relates to the sidecar at each of its stages
InStep(p) ==
    LET opened == Reconcile(file[p], disk) IN
    /\ pc[p] \in {"open_memory", "retry", "reset", "dispatch"} => tracker[p] = opened
    /\ pc[p] \in {"agents", "record"} =>
          tracker[p] = StartNodes(opened, batch[p]) /\ batch[p] \subseteq MayRun(file[p], opened)
    /\ pc[p] = "flush" => tracker[p] = disk

LifeInv ==
    /\ TypeOK
    /\ BatchInProgress
    /\ \A p \in Proc :
          /\ pc[p] \in Opened => Fitted(file[p], tracker[p])
          /\ InStep(p)

LEMMA ReconcileFits ==
    ASSUME NEW pl \in Plans, NEW st \in StatusMap
    PROVE  /\ Fitted(pl, Reconcile(pl, st))
           /\ Fitted(pl, st) => Reconcile(pl, st) = st
  BY PlanFacts DEF Fitted, Reconcile, Initial, Absent, StatusMap

\* No operator of the tracker adds or drops an entry.
LEMMA FitStays ==
    ASSUME NEW pl \in Plans, NEW st \in StatusMap, Fitted(pl, st)
    PROVE  /\ \A S \in SUBSET FailedNodes(st) : Fitted(pl, RetryNodes(st, S))
           /\ \A S \in SUBSET ReadyNodes(pl, st) : Fitted(pl, StartNodes(st, S))
           /\ \A n \in Node, success \in BOOLEAN :
                 st[n] = "in_progress" => Fitted(pl, RecordOutcome(pl, st, n, success))
  <1>1. \A S \in SUBSET FailedNodes(st) : Fitted(pl, RetryNodes(st, S))
    BY DEF Fitted, RetryNodes, FailedNodes, Absent
  <1>2. \A S \in SUBSET ReadyNodes(pl, st) : Fitted(pl, StartNodes(st, S))
    BY DEF Fitted, StartNodes, ReadyNodes, Absent
  <1>3. \A n \in Node, success \in BOOLEAN :
           st[n] = "in_progress" => Fitted(pl, RecordOutcome(pl, st, n, success))
    BY DEF Fitted, RecordOutcome, MarkCompleted, MarkFailed, PropagateBlocked, StatusMap, Absent
  <1> QED
    BY <1>1, <1>2, <1>3

\* Recording one outcome leaves the rest of the batch in progress.
LEMMA RestRuns ==
    ASSUME NEW pl, NEW st \in StatusMap, NEW n \in Node, NEW m \in Node, m # n,
           st[m] = "in_progress", NEW success \in BOOLEAN
    PROVE  RecordOutcome(pl, st, n, success)[m] = "in_progress"
  BY DEF RecordOutcome, MarkCompleted, MarkFailed, PropagateBlocked, StatusMap

\* Starting nodes that are in progress changes nothing.
LEMMA StartAgain ==
    ASSUME NEW st \in StatusMap, NEW B, \A n \in B : st[n] = "in_progress"
    PROVE  StartNodes(st, B) = st
  BY DEF StartNodes, StatusMap

LEMMA InitLife == Init => LifeInv
  BY InitTypes DEF Init, LifeInv, BatchInProgress, InStep, Opened

\* A process that ends is in step with any sidecar.
LEMMA ExitLife ==
    ASSUME OneProcess, LifeInv, TypeOK', NEW p \in Proc, NEW code, Exit(p, code)
    PROVE  LifeInv'
  <1>1. pc'[p] = "idle" /\ batch'[p] = {} /\ \A q \in Proc : q = p
    BY DEF LifeInv, TypeOK, Exit, Goto, OneProcess
  <1> QED
    BY <1>1 DEF LifeInv, BatchInProgress, InStep, Opened

LEMMA StepLife ==
    ASSUME OneProcess, LifeInv, NEW p \in Proc, Step(p)
    PROVE  LifeInv'
  <1>0. /\ TypeOK /\ TypeOK'
        /\ file[p] \in Plans /\ tracker[p] \in StatusMap /\ disk \in StatusMap
        /\ tracker'[p] \in StatusMap /\ disk' \in StatusMap
        /\ \A q \in Proc : q = p
    BY StepTypes DEF LifeInv, TypeOK, OneProcess
  <1> DEFINE opened == Reconcile(file[p], disk)
  <1>a. opened \in StatusMap /\ Fitted(file[p], opened)
    BY <1>0, TablesStayTables, ReconcileFits
  <1>b. pc[p] \in Opened => Fitted(file[p], tracker[p])
    BY DEF LifeInv
  <1>1. CASE OpenState(p)
    <2>1. pc'[p] = "open_memory" /\ tracker'[p] = opened /\ UNCHANGED <<disk, file>>
      BY <1>0, <1>1 DEF OpenState, shared, Goto, TypeOK
    <2> QED
      BY <1>0, <1>a, <2>1 DEF LifeInv, BatchInProgress, InStep
  <1>2. CASE OpenMemory(p)
    <2>1. /\ pc[p] = "open_memory" /\ pc'[p] \in {"dispatch", "retry", "reset"}
          /\ UNCHANGED <<disk, file, tracker>>
      BY <1>0, <1>2 DEF OpenMemory, shared, Goto, TypeOK
    <2> QED
      BY <1>0, <1>b, <2>1 DEF LifeInv, BatchInProgress, InStep, Opened
  <1>3. CASE ResetUnknown(p) \/ Reset(p) \/ Import(p) \/ RetryNothing(p) \/ Finish(p)
    BY <1>0, <1>3, ExitLife DEF ResetUnknown, Reset, Import, RetryNothing, Finish
  <1>4. CASE Retry(p)
    <2>1. /\ pc[p] = "retry" /\ pc'[p] = "dispatch" /\ file' = file
          /\ NodesToRetry(p) \in SUBSET FailedNodes(tracker[p])
          /\ tracker'[p] = RetryNodes(tracker[p], NodesToRetry(p))
          /\ disk' = tracker'[p]
      BY <1>0, <1>4 DEF Retry, CanRetry, Goto, TypeOK
    <2>2. Fitted(file[p], tracker'[p])
      BY <1>0, <1>b, <2>1, FitStays DEF Opened
    <2>3. tracker'[p] = Reconcile(file[p], disk')
      BY <1>0, <2>1, <2>2, ReconcileFits
    <2> QED
      BY <1>0, <2>1, <2>2, <2>3 DEF LifeInv, BatchInProgress, InStep
  <1>5. CASE Dispatch(p)
    <2>1. PICK B \in BatchChoices(p) :
             /\ tracker' = [tracker EXCEPT ![p] = StartNodes(tracker[p], B)]
             /\ batch' = [batch EXCEPT ![p] = B]
      BY <1>5 DEF Dispatch
    <2>2. B \in SUBSET ReadyNodes(file[p], tracker[p]) /\ B \subseteq Node
      BY BatchIsReady
    <2>3. /\ pc[p] = "dispatch" /\ pc'[p] = "agents" /\ UNCHANGED <<disk, file>>
          /\ tracker'[p] = StartNodes(tracker[p], B) /\ batch'[p] = B
      BY <1>0, <1>5, <2>1 DEF Dispatch, shared, Goto, TypeOK
    <2>4. tracker[p] = opened
      BY <2>3 DEF LifeInv, InStep
    <2>5. Fitted(file[p], tracker'[p])
      BY <1>0, <1>b, <2>2, <2>3, FitStays DEF Opened
    <2>6. \A n \in B : tracker'[p][n] = "in_progress"
      BY <2>2, <2>3 DEF StartNodes
    <2>7. InStep(p)'
      BY <2>2, <2>3, <2>4 DEF InStep, MayRun
    <2> QED
      BY <1>0, <2>3, <2>5, <2>6, <2>7 DEF LifeInv, BatchInProgress
  <1>6. CASE JoinAgents(p) \/ \E n \in Node : AgentReturns(p, n)
    <2>1. /\ pc[p] = "agents" /\ pc'[p] \in {"agents", "record"}
          /\ UNCHANGED <<disk, file, tracker, batch>>
      BY <1>0, <1>6 DEF JoinAgents, AgentReturns, shared, Goto, TypeOK
    <2> QED
      BY <1>0, <1>b, <2>1 DEF LifeInv, BatchInProgress, InStep, Opened
  <1>7. CASE Record(p)
    <2>1. PICK n \in Node, success \in BOOLEAN :
             /\ IsNextResult(p, n)
             /\ tracker' = [tracker EXCEPT
                               ![p] = RecordOutcome(file[p], tracker[p], n, success)]
             /\ disk' = RecordOutcome(file[p], tracker[p], n, success)
      BY <1>7 DEF Record
    <2>2. /\ pc[p] = "record" /\ pc'[p] = "flush" /\ UNCHANGED <<file, batch>>
          /\ tracker'[p] = RecordOutcome(file[p], tracker[p], n, success)
          /\ disk' = tracker'[p]
      BY <1>0, <1>7, <2>1 DEF Record, Goto, TypeOK
    <2>3. batch[p] \subseteq Node /\ \A m \in batch[p] : tracker[p][m] = "in_progress"
      BY <1>0, <2>2 DEF LifeInv, BatchInProgress, TypeOK
    <2>4. Fitted(file[p], tracker'[p])
      BY <1>0, <1>b, <2>1, <2>2, <2>3, FitStays DEF Opened, IsNextResult
    <2>5. \A m \in batch[p] : m # n => tracker'[p][m] = "in_progress"
      BY <1>0, <2>2, <2>3, RestRuns
    <2>6. BatchInProgress'
      BY <1>0, <2>1, <2>2, <2>5 DEF BatchInProgress, IsNextResult
    <2> QED
      BY <1>0, <2>2, <2>4, <2>6 DEF LifeInv, InStep
  <1>8. CASE Flush(p)
    <2>1. PICK n \in Node :
             /\ IsNextResult(p, n)
             /\ \/ Exit(p, ReportCode(p))
                \/ /\ batch' = [batch EXCEPT ![p] = batch[p] \ {n}]
                   /\ Goto(p, IF batch[p] \ {n} = {} THEN "dispatch" ELSE "record")
                   /\ UNCHANGED <<cmd, file, tracker>>
      BY <1>8 DEF Flush
    <2>2. disk' = disk /\ pc[p] = "flush"
      BY <1>8 DEF Flush
    <2>3. CASE Exit(p, ReportCode(p))
      BY <1>0, <2>3, ExitLife
    <2>4. CASE /\ batch' = [batch EXCEPT ![p] = batch[p] \ {n}]
               /\ Goto(p, IF batch[p] \ {n} = {} THEN "dispatch" ELSE "record")
               /\ UNCHANGED <<cmd, file, tracker>>
      <3>1. /\ pc'[p] \in {"dispatch", "record"} /\ batch'[p] = batch[p] \ {n}
            /\ batch[p] \subseteq Node
        BY <1>0, <2>4 DEF Goto, TypeOK
      <3>2. \A m \in batch[p] \ {n} : ~IsNextResult(p, m)
        <4>1. n \in Nat /\ n \in batch[p] /\ \A m \in batch[p] : n <= m
          BY <2>1, NodeAssumption DEF IsNextResult
        <4>2. \A m \in batch[p] : m \in Nat
          BY <3>1, NodeAssumption
        <4> HIDE DEF opened
        <4> QED
          BY <4>1, <4>2, SMT DEF IsNextResult
      <3>3. \A m \in batch'[p] : tracker[p][m] = "in_progress"
        BY <2>2, <3>1, <3>2 DEF LifeInv, BatchInProgress
      <3>4. tracker[p] = disk /\ Fitted(file[p], tracker[p])
        BY <1>b, <2>2 DEF LifeInv, InStep, Opened
      <3>5. tracker[p] = opened /\ tracker[p] = StartNodes(opened, batch'[p])
        BY <1>0, <3>3, <3>4, ReconcileFits, StartAgain
      <3>6. InStep(p)'
        BY <2>2, <2>4, <3>1, <3>3, <3>5 DEF InStep, MayRun
      <3> QED
        BY <1>0, <2>4, <3>1, <3>3, <3>4, <3>6 DEF LifeInv, BatchInProgress
    <2> QED
      BY <2>1, <2>3, <2>4
  <1> QED
    BY <1>1, <1>2, <1>3, <1>4, <1>5, <1>6, <1>7, <1>8 DEF Step

LEMMA NextLife ==
    ASSUME OneProcess, LifeInv, [Next]_vars
    PROVE  LifeInv'
  <1>0. TypeOK /\ TypeOK'
    BY NextTypes DEF LifeInv
  <1>1. CASE \E p \in Proc : Step(p)
    BY <1>1, StepLife
  <1>2. CASE \E p \in Proc : \E c \in Commands : Invoke(p, c)
    <2>1. PICK p \in Proc : \E c \in Commands : Invoke(p, c)
      BY <1>2
    <2>2. pc'[p] \in {"import", "open_state"} /\ \A q \in Proc : q = p
      BY <1>0, <2>1 DEF Invoke, Goto, TypeOK, OneProcess
    <2> QED
      BY <1>0, <2>2 DEF LifeInv, BatchInProgress, InStep, Opened
  <1>3. CASE \E p \in Proc : Crash(p) \/ WriteFails(p)
    BY <1>0, <1>3, ExitLife DEF Crash, WriteFails
  <1>4. CASE EditFile \/ UNCHANGED vars
    BY <1>0, <1>4 DEF EditFile, vars, LifeInv, BatchInProgress, IsNextResult, InStep
  <1> QED
    BY <1>1, <1>2, <1>3, <1>4 DEF Next

\* The lifecycle is stated with the tracker's own operators.
LEMMA DurableOperators ==
    /\ \A pl, st : /\ Durable!Reconcile(pl, st) = Reconcile(pl, st)
                   /\ Durable!MayRun(pl, st) = MayRun(pl, st)
    /\ \A st, S : /\ Durable!StartNodes(st, S) = StartNodes(st, S)
                  /\ Durable!RetryNodes(st, S) = RetryNodes(st, S)
                  /\ Durable!ResetNodes(st, S) = ResetNodes(st, S)
    /\ \A pl, st, n, success :
          Durable!RecordOutcome(pl, st, n, success) = RecordOutcome(pl, st, n, success)
    /\ Durable!NoState = NoState
  BY DEF Durable!Reconcile, Reconcile, Durable!Initial, Initial, Durable!Absent, Absent,
         Durable!MayRun, MayRun, Durable!ReadyNodes, ReadyNodes,
         Durable!AllDepsSatisfied, AllDepsSatisfied, Durable!Edges, Edges, Durable!Done, Done,
         Durable!StartNodes, StartNodes, Durable!RetryNodes, RetryNodes,
         Durable!ResetNodes, ResetNodes, Durable!RecordOutcome, RecordOutcome,
         Durable!MarkCompleted, MarkCompleted, Durable!MarkFailed, MarkFailed,
         Durable!PropagateBlocked, PropagateBlocked,
         Durable!TransitiveDependents, TransitiveDependents,
         Durable!TransitiveDeps, TransitiveDeps, Durable!NoState, NoState

\* Every step maps to one of the lifecycle or to a stutter.
LEMMA StepImplements ==
    ASSUME OneProcess, LifeInv, [Next]_vars
    PROVE  [Durable!Next]_disk
  <1> SUFFICES ASSUME disk' # disk PROVE Durable!Next
    OBVIOUS
  <1>1. PICK p \in Proc : Reset(p) \/ Import(p) \/ Retry(p) \/ Record(p)
    BY DEF Next, vars, Step, OpenState, OpenMemory, ResetUnknown, RetryNothing, Dispatch,
           JoinAgents, Flush, Finish, AgentReturns, Invoke, Crash, WriteFails, EditFile, shared
  <1>2. /\ TypeOK /\ file[p] \in Plans /\ InStep(p) /\ cmd[p] \in Command
        /\ tracker[p] \in StatusMap /\ disk \in StatusMap
    BY SchedulerAssumption DEF LifeInv, TypeOK
  <1> DEFINE opened == Reconcile(file[p], disk)
  <1>3. CASE Reset(p)
    <2>1. disk' = ResetNodes(opened, NodesToReset(p))
      BY <1>2, <1>3 DEF Reset, InStep
    <2>2. NodesToReset(p) \in SUBSET Node
      BY <1>2 DEF NodesToReset, Command
    <2>3. Durable!ResetSome(file[p])
      BY <2>1, <2>2, DurableOperators DEF Durable!ResetSome
    <2> QED
      BY <1>2, <2>3 DEF Durable!Next
  <1>4. CASE Import(p)
    BY <1>4 DEF Import, Durable!Next, Durable!ImportAny
  <1>5. CASE Retry(p)
    <2>1. /\ disk' = RetryNodes(opened, NodesToRetry(p)) /\ NodesToRetry(p) # {}
          /\ NodesToRetry(p) \in SUBSET {n \in Node : opened[n] = "failed"}
      BY <1>2, <1>5 DEF Retry, CanRetry, InStep, FailedNodes
    <2>2. Durable!RetryFailed(file[p])
      BY <2>1, DurableOperators DEF Durable!RetryFailed
    <2> QED
      BY <1>2, <2>2 DEF Durable!Next
  <1>6. CASE Record(p)
    <2>1. PICK n \in Node, success \in BOOLEAN :
             /\ n \in batch[p]
             /\ disk' = RecordOutcome(file[p], tracker[p], n, success)
      BY <1>6 DEF Record, IsNextResult
    <2>2. tracker[p] = StartNodes(opened, batch[p]) /\ batch[p] \in SUBSET MayRun(file[p], opened)
      BY <1>2, <1>6 DEF Record, InStep
    <2>3. Durable!RecordNode(file[p])
      BY <2>1, <2>2, DurableOperators DEF Durable!RecordNode
    <2> QED
      BY <1>2, <2>3 DEF Durable!Next
  <1> QED
    BY <1>1, <1>3, <1>4, <1>5, <1>6

\* With one process, the sidecar implements the durable lifecycle, for every
\* set of nodes, edits of the file, commands, batch sizes, kills and failing
\* writes: each save is one outcome of a node that could run, one retry, one
\* reset or one import, applied to what was on disk.
THEOREM SidecarImplementsLifecycle ==
    ASSUME OneProcess
    PROVE  Spec => ImplementsLifecycle
  <1>1. Init => Durable!Init
    BY DurableOperators DEF Init, Durable!Init
  <1>2. LifeInv /\ [Next]_vars => LifeInv' /\ [Durable!Next]_disk
    BY NextLife, StepImplements
  <1> QED
    BY <1>1, <1>2, InitLife, PTL DEF Spec, ImplementsLifecycle, Durable!Spec

-------------------------------------------------------------------------------
(***************************************************************************)
(* A run settles every node                                                *)
(*                                                                         *)
(* When no candidate is left, a pending node whose dependencies are all    *)
(* settled has one that is failed or blocked, or it would be ready; it     *)
(* would then be blocked too (BlockedTogether).  So each pending node has  *)
(* a pending dependency, which in a finite file without cycles means there *)
(* is no pending node.  That no node is in progress (OnlyBatchRuns) is     *)
(* what a kill, a failing write or a second process would break.           *)
(***************************************************************************)
Undisturbed == OneProcess /\ ~Crashes /\ ~IoErrors

Dispatched == {"agents", "record", "flush"}

OnlyBatchRuns ==
    /\ \A p \in Proc : \A n \in Node : tracker[p][n] = "in_progress" =>
          /\ n \in batch[p] /\ pc[p] \in Dispatched
          /\ pc[p] = "flush" => ~IsNextResult(p, n)
    /\ \A n \in Node : disk[n] = "in_progress" =>
          \E p \in Proc : pc[p] \in Dispatched /\ tracker[p][n] = "in_progress"

\* A node that waits, or that the table does not know yet, has no failed and no
\* blocked dependency.
NoneWaitsForBlocked(pl, st) ==
    \A n \in pl.nodes : st[n] \in {"pending", Absent} =>
        \A d \in Edges(pl, n) : st[d] \notin {"failed", "blocked"}

BlockedTogether ==
    /\ NoneWaitsForBlocked(plan, disk)
    /\ \A p \in Proc : NoneWaitsForBlocked(file[p], tracker[p])

WholeFile ==
    \A p \in Proc :
        /\ pc[p] = "retry" => cmd[p].op = "retry"
        /\ (pc[p] \in Dispatched \cup {"dispatch"} /\ cmd[p].op = "run" /\ cmd[p].targets = {})
              => execSet[p] = Node

\* The containment of failures, a single process that is not disturbed, files
\* of finitely many nodes, and imported tables that no running command wrote.
SettleAssumptions ==
    /\ ContainmentAssumptions
    /\ Undisturbed
    /\ \A pl \in Plans : IsFiniteSet(pl.nodes)
    /\ \A st \in Imports : \A n \in Node : st[n] # "in_progress"
    /\ \A st \in Imports, pl \in Plans : NoneWaitsForBlocked(pl, st)

SettleInv == ContainInv /\ OnlyBatchRuns /\ BlockedTogether /\ WholeFile

LEMMA TablesWaitForNoBlocked ==
    ASSUME NEW pl \in Plans, NEW st \in StatusMap, NoneWaitsForBlocked(pl, st)
    PROVE  /\ NoneWaitsForBlocked(pl, Reconcile(pl, st))
           /\ \A S \in SUBSET FailedNodes(st) : NoneWaitsForBlocked(pl, RetryNodes(st, S))
           /\ \A B \in SUBSET ReadyNodes(pl, st) : NoneWaitsForBlocked(pl, StartNodes(st, B))
  <1>1. /\ pl.nodes \subseteq Node
        /\ \A n : Edges(pl, n) \subseteq pl.nodes
    BY PlanFacts DEF Edges
  <1>2. NoneWaitsForBlocked(pl, Reconcile(pl, st))
    BY <1>1 DEF NoneWaitsForBlocked, Reconcile, Initial, Absent
  <1>3. \A S \in SUBSET FailedNodes(st) : NoneWaitsForBlocked(pl, RetryNodes(st, S))
    BY <1>1 DEF NoneWaitsForBlocked, RetryNodes, Absent
  <1>4. \A B \in SUBSET ReadyNodes(pl, st) : NoneWaitsForBlocked(pl, StartNodes(st, B))
    BY <1>1 DEF NoneWaitsForBlocked, StartNodes, Absent
  <1> QED
    BY <1>2, <1>3, <1>4

\* A recorded failure blocks with a node everything pending above that node.
LEMMA RecordWaitsForNoBlocked ==
    ASSUME NEW pl \in Plans, NEW st \in StatusMap, NoneWaitsForBlocked(pl, st),
           \A m \in pl.nodes : st[m] # Absent,
           NEW n \in Node, NEW success \in BOOLEAN
    PROVE  NoneWaitsForBlocked(pl, RecordOutcome(pl, st, n, success))
  <1> DEFINE new == RecordOutcome(pl, st, n, success)
  <1> SUFFICES ASSUME NEW m \in pl.nodes, new[m] \in {"pending", Absent},
                      NEW d \in Edges(pl, m), new[d] \in {"failed", "blocked"}
               PROVE  FALSE
    BY DEF NoneWaitsForBlocked
  <1>1. m \in Node /\ d \in Node /\ d \in pl.nodes
    BY PlanFacts DEF Edges
  <1>2. st[m] = "pending"
    BY <1>1 DEF RecordOutcome, MarkCompleted, MarkFailed, PropagateBlocked, StatusMap, Absent
  <1>3. st[d] \notin {"failed", "blocked"}
    BY <1>2 DEF NoneWaitsForBlocked
  <1>4. ~success /\ (d = n \/ d \in TransitiveDependents(pl, n))
    BY <1>1, <1>3 DEF RecordOutcome, MarkCompleted, MarkFailed, PropagateBlocked, StatusMap
  <1>5. d \in TransitiveDeps(pl, m)
    BY EdgesAreDeps
  <1>6. n \in TransitiveDeps(pl, m)
    BY <1>4, <1>5, DepsAreTransitive DEF TransitiveDependents
  <1>7. m # n
    BY <1>6 DEF TransitiveDeps
  <1>8. new[m] = "blocked"
    BY <1>1, <1>2, <1>4, <1>6, <1>7
       DEF RecordOutcome, MarkFailed, PropagateBlocked, TransitiveDependents, StatusMap
  <1> QED
    BY <1>8 DEF Absent
LEMMA NextBlockedTogether ==
    ASSUME ContainInv, BlockedTogether, SettleAssumptions, [Next]_vars
    PROVE  BlockedTogether'
  <1>0. /\ SoundInv /\ OrderInv /\ TypeOK /\ TypeOK' /\ EveryNodeKnown
        /\ ContainmentAssumptions
    BY NextTypes DEF ContainInv, SoundInv, OrderInv, SettleAssumptions
  <1>1. /\ \A q \in Proc : /\ file[q] = plan /\ file'[q] = plan /\ plan' = plan
                           /\ tracker[q] \in StatusMap
        /\ plan \in Plans /\ disk \in StatusMap
    BY <1>0 DEF TypeOK, ContainmentAssumptions
  <1>2. ASSUME NEW q \in Proc
        PROVE  NoneWaitsForBlocked(plan, tracker'[q])
    <2>0. /\ TableChange(q)
          /\ NoneWaitsForBlocked(plan, tracker[q]) /\ NoneWaitsForBlocked(plan, disk)
      BY <1>0, <1>1, NextTables DEF BlockedTogether
    <2>1. CASE tracker'[q] = tracker[q]
      BY <2>0, <2>1
    <2>2. CASE tracker'[q] = NoState
      BY <1>1, <2>2, PlanFacts DEF NoneWaitsForBlocked, NoState, Absent, Edges
    <2>3. CASE \E n \in Node, success \in BOOLEAN :
                /\ tracker[q][n] = "in_progress"
                /\ tracker'[q] = RecordOutcome(file[q], tracker[q], n, success)
      <3>1. tracker[q] # NoState
        BY <2>3 DEF NoState, Absent
      <3>2. pc[q] \in Opened
        BY <1>0, <3>1 DEF OrderInv, NoTableYet, TypeOK, PC, Opened
      <3>3. \A n \in plan.nodes : tracker[q][n] # Absent
        BY <1>0, <1>1, <3>2 DEF EveryNodeKnown
      <3> QED
        BY <1>1, <2>0, <2>3, <3>3, RecordWaitsForNoBlocked
    <2> QED
      BY <1>1, <2>0, <2>1, <2>2, <2>3, TablesWaitForNoBlocked DEF TableChange
  <1>3. NoneWaitsForBlocked(plan, disk')
    <2>1. CASE disk' = disk
      BY <2>1 DEF BlockedTogether
    <2>2. CASE \E q \in Proc : disk' = tracker'[q] /\ file'[q] = file[q] /\ plan' = plan
      BY <1>2, <2>2
    <2>3. CASE \E q \in Proc : /\ pc[q] = "reset" /\ plan' = plan
                              /\ disk' = ResetNodes(tracker[q], NodesToReset(q))
      <3>1. PICK q \in Proc : /\ pc[q] = "reset"
                              /\ disk' = ResetNodes(tracker[q], NodesToReset(q))
        BY <2>3
      <3>2. cmd[q] \in Commands /\ cmd[q].op \in {"reset", "reset_keep_completed"}
        BY <1>0, <3>1, SchedulerAssumption DEF TypeOK, OrderInv, StageMatchesCommand, Command
      <3>3. \/ Node \subseteq NodesToReset(q)
            \/ NodesToReset(q) = {n \in Node : tracker[q][n] # "completed"}
        BY <1>0, <3>2 DEF NodesToReset, ContainmentAssumptions
      <3>4. \A n \in Node : disk'[n] \notin {"failed", "blocked"}
        BY <3>1, <3>3 DEF ResetNodes, Absent
      <3> QED
        BY <1>1, <3>4, PlanFacts DEF NoneWaitsForBlocked, Edges
    <2>4. CASE disk' \in Imports /\ plan' = plan
      BY <1>1, <2>4 DEF SettleAssumptions
    <2> QED
      BY <1>0, <2>1, <2>2, <2>3, <2>4, NextTables DEF DiskChange
  <1> QED
    BY <1>0, <1>1, <1>2, <1>3 DEF BlockedTogether, TypeOK, ContainmentAssumptions

\* Once a process that has no node in progress is over, no table has any.
LEMMA ExitOnlyBatchRuns ==
    ASSUME OneProcess, TypeOK, NEW p \in Proc, NEW code, Exit(p, code),
           \A n \in Node : disk'[n] # "in_progress"
    PROVE  OnlyBatchRuns'
  <1>1. \A q \in Proc : q = p /\ tracker'[q] = NoState
    BY DEF OneProcess, Exit, TypeOK
  <1> QED
    BY <1>1 DEF OnlyBatchRuns, NoState, Absent

LEMMA StepOnlyBatchRuns ==
    ASSUME SettleAssumptions, TypeOK, OnlyBatchRuns, NEW p \in Proc, Step(p)
    PROVE  OnlyBatchRuns'
  <1>0. /\ OneProcess /\ \A q \in Proc : q = p
        /\ TypeOK' /\ file[p] \in Plans /\ tracker[p] \in StatusMap /\ disk \in StatusMap
        /\ batch[p] \subseteq Node
    BY StepTypes DEF SettleAssumptions, Undisturbed, OneProcess, TypeOK
  <1>a. pc[p] \notin Dispatched =>
           \A n \in Node : tracker[p][n] # "in_progress" /\ disk[n] # "in_progress"
    BY <1>0 DEF OnlyBatchRuns
  <1>1. CASE OpenState(p)
    <2>1. \A n \in Node : Reconcile(file[p], disk)[n] # "in_progress"
      BY <1>1, <1>a DEF OpenState, Reconcile, Initial, Absent, Dispatched
    <2>2. \A n \in Node : tracker'[p][n] # "in_progress" /\ disk'[n] # "in_progress"
      BY <1>1, <1>a, <2>1 DEF OpenState, shared, TypeOK, Dispatched
    <2> QED
      BY <1>0, <2>2 DEF OnlyBatchRuns
  <1>2. CASE OpenMemory(p)
    <2>1. \A n \in Node : tracker'[p][n] # "in_progress" /\ disk'[n] # "in_progress"
      BY <1>2, <1>a DEF OpenMemory, shared, Dispatched
    <2> QED
      BY <1>0, <2>1 DEF OnlyBatchRuns
  <1>3. CASE ResetUnknown(p) \/ RetryNothing(p) \/ Finish(p) \/ Reset(p) \/ Import(p)
    <2>1. \A n \in Node : disk'[n] # "in_progress"
      BY <1>3, <1>a
         DEF ResetUnknown, RetryNothing, Finish, shared, Reset, ResetNodes, Import,
             SettleAssumptions, Dispatched
    <2> QED
      BY <1>0, <1>3, <2>1, ExitOnlyBatchRuns
         DEF ResetUnknown, RetryNothing, Finish, Reset, Import
  <1>4. CASE Retry(p)
    <2>1. /\ tracker'[p] = RetryNodes(tracker[p], NodesToRetry(p))
          /\ disk' = RetryNodes(tracker[p], NodesToRetry(p))
          /\ pc[p] = "retry"
      BY <1>4 DEF Retry, TypeOK
    <2>2. \A n \in Node : tracker'[p][n] # "in_progress" /\ disk'[n] # "in_progress"
      BY <1>a, <2>1 DEF RetryNodes, Dispatched
    <2> QED
      BY <1>0, <2>2 DEF OnlyBatchRuns
  <1>5. CASE Dispatch(p)
    <2>1. PICK B \in BatchChoices(p) :
             /\ tracker' = [tracker EXCEPT ![p] = StartNodes(tracker[p], B)]
             /\ batch' = [batch EXCEPT ![p] = B]
      BY <1>5 DEF Dispatch
    <2>2. /\ pc[p] = "dispatch" /\ pc'[p] = "agents" /\ disk' = disk
          /\ tracker'[p] = StartNodes(tracker[p], B) /\ batch'[p] = B
      BY <1>0, <1>5, <2>1 DEF Dispatch, shared, Goto, TypeOK
    <2>3. \A n \in Node : /\ disk'[n] # "in_progress"
                          /\ tracker'[p][n] = "in_progress" => n \in B
      BY <1>a, <2>2 DEF StartNodes, Dispatched
    <2> QED
      BY <1>0, <2>2, <2>3 DEF OnlyBatchRuns, Dispatched
  <1>6. CASE JoinAgents(p) \/ \E n \in Node : AgentReturns(p, n)
    <2>1. /\ pc[p] = "agents" /\ pc'[p] \in {"agents", "record"}
          /\ UNCHANGED <<disk, tracker, batch>>
      BY <1>0, <1>6 DEF JoinAgents, AgentReturns, shared, Goto, TypeOK
    <2> QED
      BY <1>0, <2>1 DEF OnlyBatchRuns, Dispatched
  <1>7. CASE Record(p)
    <2>1. PICK n \in Node, success \in BOOLEAN :
             /\ IsNextResult(p, n)
             /\ tracker' = [tracker EXCEPT
                               ![p] = RecordOutcome(file[p], tracker[p], n, success)]
             /\ disk' = RecordOutcome(file[p], tracker[p], n, success)
      BY <1>7 DEF Record
    <2>2. /\ pc[p] = "record" /\ pc'[p] = "flush" /\ batch' = batch
          /\ tracker'[p] = RecordOutcome(file[p], tracker[p], n, success)
          /\ disk' = tracker'[p]
      BY <1>0, <1>7, <2>1 DEF Record, Goto, TypeOK
    <2>3. \A m \in Node : tracker'[p][m] = "in_progress" =>
             m # n /\ tracker[p][m] = "in_progress"
      BY <1>0, <2>2
         DEF RecordOutcome, MarkCompleted, MarkFailed, PropagateBlocked, StatusMap
    <2>4. \A m \in Node : tracker[p][m] = "in_progress" => m \in batch[p]
      BY DEF OnlyBatchRuns
    <2>5. \A m \in batch[p] \ {n} : ~IsNextResult(p, m)
      <3>1. n \in Nat /\ n \in batch[p] /\ \A m \in batch[p] : n <= m
        BY <2>1, NodeAssumption DEF IsNextResult
      <3>2. \A m \in batch[p] : m \in Nat
        BY <1>0, NodeAssumption
      <3> QED
        BY <3>1, <3>2, SMT DEF IsNextResult
    <2>6. \A m \in Node : tracker'[p][m] = "in_progress" =>
             m \in batch'[p] /\ ~IsNextResult(p, m)'
      BY <2>2, <2>3, <2>4, <2>5 DEF IsNextResult
    <2> QED
      BY <1>0, <2>2, <2>6 DEF OnlyBatchRuns, Dispatched
  <1>8. CASE Flush(p)
    <2>1. PICK n \in Node :
             /\ IsNextResult(p, n)
             /\ \/ batch[p] \ {n} = {} /\ Exit(p, ReportCode(p))
                \/ /\ batch' = [batch EXCEPT ![p] = batch[p] \ {n}]
                   /\ Goto(p, IF batch[p] \ {n} = {} THEN "dispatch" ELSE "record")
                   /\ UNCHANGED <<cmd, file, tracker>>
      BY <1>8 DEF Flush
    <2>2. disk' = disk /\ pc[p] = "flush"
      BY <1>8 DEF Flush
    <2>3. \A m \in Node : tracker[p][m] = "in_progress" => m \in batch[p] \ {n}
      BY <2>1, <2>2 DEF OnlyBatchRuns
    <2>4. \A m \in Node : disk[m] = "in_progress" => tracker[p][m] = "in_progress"
      BY <1>0 DEF OnlyBatchRuns
    <2>5. CASE batch[p] \ {n} = {} /\ Exit(p, ReportCode(p))
      BY <1>0, <2>2, <2>3, <2>4, <2>5, ExitOnlyBatchRuns
    <2>6. CASE /\ batch' = [batch EXCEPT ![p] = batch[p] \ {n}]
               /\ Goto(p, IF batch[p] \ {n} = {} THEN "dispatch" ELSE "record")
               /\ UNCHANGED <<cmd, file, tracker>>
      <3>1. /\ batch'[p] = batch[p] \ {n} /\ tracker' = tracker
            /\ pc'[p] = IF batch[p] \ {n} = {} THEN "dispatch" ELSE "record"
        BY <1>0, <2>6 DEF Goto, TypeOK
      <3> QED
        BY <1>0, <2>2, <2>3, <2>4, <3>1 DEF OnlyBatchRuns, Dispatched
    <2> QED
      BY <2>1, <2>5, <2>6
  <1> QED
    BY <1>1, <1>2, <1>3, <1>4, <1>5, <1>6, <1>7, <1>8 DEF Step
LEMMA NextOnlyBatchRuns ==
    ASSUME SettleAssumptions, TypeOK, OnlyBatchRuns, [Next]_vars
    PROVE  OnlyBatchRuns'
  <1>0. OneProcess /\ ~Crashes /\ ~IoErrors
    BY DEF SettleAssumptions, Undisturbed
  <1>1. CASE \E p \in Proc : Step(p)
    BY <1>1, StepOnlyBatchRuns
  <1>2. CASE \E p \in Proc : \E c \in Commands : Invoke(p, c)
    <2>1. PICK p \in Proc : \E c \in Commands : Invoke(p, c)
      BY <1>2
    <2>2. pc[p] = "idle" /\ UNCHANGED <<disk, tracker>> /\ \A q \in Proc : q = p
      BY <1>0, <2>1 DEF Invoke, shared, OneProcess
    <2> QED
      BY <2>2 DEF OnlyBatchRuns, Dispatched
  <1>3. CASE EditFile \/ UNCHANGED vars
    BY <1>3 DEF EditFile, vars, OnlyBatchRuns, IsNextResult
  <1> QED
    BY <1>0, <1>1, <1>2, <1>3 DEF Next, Crash, WriteFails

LEMMA NextWholeFile ==
    ASSUME TypeOK, WholeFile, [Next]_vars
    PROVE  WholeFile'
  <1>1. CASE UNCHANGED vars \/ EditFile
    BY <1>1 DEF vars, EditFile, WholeFile
  <1>2. CASE \E p \in Proc : \/ Step(p)
                             \/ \E c \in Commands : Invoke(p, c)
                             \/ Crash(p)
                             \/ WriteFails(p)
    <2>1. PICK p \in Proc : \/ Step(p)
                            \/ \E c \in Commands : Invoke(p, c)
                            \/ Crash(p)
                            \/ WriteFails(p)
      BY <1>2
    <2>2. \A q \in Proc : q # p => /\ pc'[q] = pc[q] /\ cmd'[q] = cmd[q]
                                   /\ execSet'[q] = execSet[q]
      BY <2>1
         DEF TypeOK, Step, OpenState, OpenMemory, ResetUnknown, Reset, Import, RetryNothing,
             Retry, Dispatch, JoinAgents, Record, Flush, Finish, AgentReturns, Invoke, Crash,
             WriteFails, Exit, Goto
    <2>3. /\ pc'[p] = "retry" => cmd'[p].op = "retry"
          /\ (/\ pc'[p] \in Dispatched \cup {"dispatch"}
              /\ cmd'[p].op = "run" /\ cmd'[p].targets = {}) => execSet'[p] = Node
      <3>1. CASE OpenMemory(p)
        BY <3>1 DEF OpenMemory, Goto, TypeOK, Dispatched, ExecutionSet
      <3>2. CASE Retry(p)
        BY <3>2 DEF Retry, WholeFile
      <3>3. CASE \/ OpenState(p) \/ ResetUnknown(p) \/ Reset(p) \/ Import(p)
                 \/ RetryNothing(p) \/ Finish(p) \/ Crash(p) \/ WriteFails(p)
                 \/ \E c \in Commands : Invoke(p, c)
        BY <3>3
           DEF TypeOK, OpenState, ResetUnknown, Reset, Import, RetryNothing, Finish, Crash,
               WriteFails, Invoke, Exit, Goto, Dispatched
      <3>4. CASE \/ Dispatch(p) \/ JoinAgents(p) \/ Record(p)
                 \/ \E n \in Node : AgentReturns(p, n)
        BY <3>4
           DEF TypeOK, Dispatch, JoinAgents, Record, AgentReturns, Goto, Dispatched, WholeFile
      <3>5. CASE Flush(p)
        BY <3>5 DEF TypeOK, Flush, Exit, Goto, Dispatched, WholeFile
      <3> QED
        BY <2>1, <3>1, <3>2, <3>3, <3>4, <3>5 DEF Step
    <2> QED
      BY <2>2, <2>3 DEF WholeFile
  <1> QED
    BY <1>1, <1>2 DEF Next

LEMMA InitSettle == Init => SettleInv
  <1>1. ASSUME Init PROVE SettleInv
    <2>1. plan \in Plans /\ \A q \in Proc : file[q] \in Plans
      BY <1>1 DEF Init
    <2>2. \A pl \in Plans : NoneWaitsForBlocked(pl, NoState)
      BY PlanFacts DEF NoneWaitsForBlocked, NoState, Absent, Edges
    <2>3. BlockedTogether
      BY <1>1, <2>1, <2>2 DEF Init, BlockedTogether
    <2>4. OnlyBatchRuns /\ WholeFile
      BY <1>1 DEF Init, OnlyBatchRuns, WholeFile, Dispatched, NoState, Absent
    <2> QED
      BY <1>1, <2>3, <2>4, InitContained DEF SettleInv
  <1> QED
    BY <1>1

\* Among finitely many nodes of the file, one depends on none of the others.
LEMMA SomeNodeComesFirst ==
    ASSUME NEW pl \in Plans, NEW S \in SUBSET pl.nodes, S # {}, IsFiniteSet(pl.nodes)
    PROVE  \E n \in S : Edges(pl, n) \cap S = {}
  <1> DEFINE T == {TransitiveDeps(pl, n) : n \in S}
             R == StrictSubsetOrdering(pl.nodes)
  <1>1. \A n \in pl.nodes : TransitiveDeps(pl, n) \in SUBSET pl.nodes
    BY DepsAreNodes
  <1>2. IsWellFoundedOn(R, SUBSET pl.nodes)
    BY FS_StrictSubsetOrderingWellFounded, FS_FiniteSubsetsOfFinite
  <1>3. T \subseteq SUBSET pl.nodes /\ T # {}
    BY <1>1
  <1> HIDE DEF T, R
  <1>4. PICK D \in T : \A E \in T : <<E, D>> \notin R
    BY <1>2, <1>3, WFMin
  <1>5. PICK n \in S : D = TransitiveDeps(pl, n)
    BY <1>4 DEF T
  <1>6. ASSUME NEW d \in Edges(pl, n), d \in S
        PROVE  FALSE
    <2>1. d \in TransitiveDeps(pl, n) /\ d \in pl.nodes
      BY <1>5, EdgesAreDeps DEF Edges
    <2>2. TransitiveDeps(pl, d) \subseteq D /\ d \notin TransitiveDeps(pl, d)
      BY <1>5, <2>1, DepsAreTransitive, DepsAreNodes
    <2>3. TransitiveDeps(pl, d) \in T
      BY <1>6 DEF T
    <2>4. <<TransitiveDeps(pl, d), D>> \in R
      BY <1>1, <1>3, <1>5, <2>1, <2>2, <2>3 DEF R, StrictSubsetOrdering
    <2> QED
      BY <1>4, <2>3, <2>4
  <1> QED
    BY <1>6

\* A table in which nothing is ready and nothing runs is settled.
LEMMA NothingToDo ==
    ASSUME NEW pl \in Plans, IsFiniteSet(pl.nodes), NEW st \in StatusMap,
           \A n \in pl.nodes : st[n] \notin {"in_progress", Absent},
           NoneWaitsForBlocked(pl, st), ReadyNodes(pl, st) = {}
    PROVE  \A n \in pl.nodes : st[n] \in Settled
  <1> DEFINE Waiting == {n \in pl.nodes : st[n] = "pending"}
  <1>1. \A n \in pl.nodes : n \in Node /\ st[n] \in Settled \cup {"pending"}
    BY PlanFacts DEF StatusMap, Status, Absent, Settled, ReadyNodes
  <1>2. ASSUME Waiting # {} PROVE FALSE
    <2>1. PICK n \in Waiting : Edges(pl, n) \cap Waiting = {}
      BY <1>2, SomeNodeComesFirst
    <2>2. \A d \in Edges(pl, n) : st[d] \in Done
      BY <1>1, <2>1 DEF NoneWaitsForBlocked, Edges, Settled, Done
    <2>3. n \in ReadyNodes(pl, st)
      BY <1>1, <2>2 DEF ReadyNodes, AllDepsSatisfied
    <2> QED
      BY <2>3
  <1> QED
    BY <1>1, <1>2

\* A run of the whole file that finds nothing more to do has settled every
\* node, for every file without cycles, batch size and outcome of the agents
\* and checks, and from every table that the commands can leave, if nothing is
\* killed, no write fails and no other command runs.
THEOREM RunsSettleEveryNode ==
    ASSUME SettleAssumptions
    PROVE  Spec => []RunSettlesEveryNode
  <1>1. SettleInv /\ [Next]_vars => SettleInv'
    <2> SUFFICES ASSUME SettleInv, [Next]_vars PROVE SettleInv'
      OBVIOUS
    <2>1. TypeOK /\ ContainmentAssumptions
      BY DEF SettleInv, ContainInv, SoundInv, OrderInv, SettleAssumptions
    <2> QED
      BY <2>1, NextContained, NextOnlyBatchRuns, NextBlockedTogether, NextWholeFile DEF SettleInv
  <1>2. SettleInv => RunSettlesEveryNode
    <2> SUFFICES ASSUME SettleInv, NEW p \in Proc,
                        pc[p] = "dispatch", Candidates(p) = {},
                        cmd[p].op = "run", cmd[p].targets = {}
                 PROVE  \A n \in file[p].nodes : tracker[p][n] \in Settled
      BY DEF RunSettlesEveryNode
    <2>1. file[p] \in Plans /\ tracker[p] \in StatusMap
      BY DEF SettleInv, ContainInv, SoundInv, OrderInv, TypeOK
    <2>2. IsFiniteSet(file[p].nodes) /\ NoneWaitsForBlocked(file[p], tracker[p])
      BY <2>1 DEF SettleAssumptions, SettleInv, BlockedTogether
    <2>3. \A n \in file[p].nodes : tracker[p][n] \notin {"in_progress", Absent}
      BY <2>1, PlanFacts
         DEF SettleInv, ContainInv, EveryNodeKnown, Opened, OnlyBatchRuns, Dispatched
    <2>4. ReadyNodes(file[p], tracker[p]) = {}
      BY DEF SettleInv, WholeFile, Candidates, ReadyNodes
    <2> QED
      BY <2>1, <2>2, <2>3, <2>4, NothingToDo
  <1> QED
    BY <1>1, <1>2, InitSettle, PTL DEF Spec
-------------------------------------------------------------------------------
(***************************************************************************)
(* Completed nodes are remembered                                          *)
(*                                                                         *)
(* A node is completed on disk before its upsert is: between Record and    *)
(* Flush the upsert is only in the cache, so the invariant says where each *)
(* completed writer is remembered, and that no cache loses what the file   *)
(* has (SameMemory), which the flush would then take away.                 *)
(***************************************************************************)
\* A single process that is not disturbed; an imported table comes without
\* the memory file, so it completes no writer.
MemoryAssumptions ==
    /\ Undisturbed
    /\ \A st \in Imports : \A n \in Writers : st[n] # "completed"

SameMemory ==
    \A p \in Proc :
        /\ pc[p] \in {"retry", "reset", "dispatch", "agents", "record"} => mem[p] = memDisk
        /\ pc[p] = "flush" => memDisk \subseteq mem[p]

Remembered(n) == n \in memDisk \/ \E p \in Proc : pc[p] = "flush" /\ n \in mem[p]

MemInv ==
    /\ TypeOK
    /\ SameMemory
    /\ \A n \in Writers :
          /\ disk[n] = "completed" => Remembered(n)
          /\ \A p \in Proc : tracker[p][n] = "completed" => Remembered(n)

LEMMA InitMem == Init => MemInv
  BY InitTypes, SchedulerAssumption DEF Init, MemInv, SameMemory, NoState, Absent

\* A process that ends with nothing left to flush.
LEMMA ExitMem ==
    ASSUME MemoryAssumptions, MemInv, TypeOK', NEW p \in Proc, NEW code, Exit(p, code),
           \A n \in Writers : disk'[n] = "completed" => n \in memDisk'
    PROVE  MemInv'
  <1>1. \A q \in Proc : q = p /\ tracker'[q] = NoState /\ pc'[q] = "idle"
    BY DEF MemoryAssumptions, Undisturbed, OneProcess, MemInv, TypeOK, Exit, Goto
  <1>2. \A n \in Writers : n \in Node
    BY SchedulerAssumption
  <1> QED
    BY <1>1, <1>2 DEF MemInv, SameMemory, Remembered, NoState, Absent

LEMMA StepMem ==
    ASSUME MemoryAssumptions, MemInv, NEW p \in Proc, Step(p)
    PROVE  MemInv'
  <1>0. /\ TypeOK /\ TypeOK' /\ \A q \in Proc : q = p
        /\ tracker[p] \in StatusMap /\ Writers \subseteq Node
    BY StepTypes, SchedulerAssumption
       DEF MemoryAssumptions, Undisturbed, OneProcess, MemInv, TypeOK
  <1>a. pc[p] # "flush" => \A n \in Writers :
           /\ disk[n] = "completed" => n \in memDisk
           /\ tracker[p][n] = "completed" => n \in memDisk
    BY <1>0 DEF MemInv, Remembered
  <1>1. CASE OpenState(p)
    <2>1. \A n \in Writers : tracker'[p][n] = "completed" => disk[n] = "completed"
      BY <1>0, <1>1 DEF OpenState, TypeOK, Reconcile, Initial, Absent
    <2> QED
      BY <1>0, <1>1, <1>a, <2>1
         DEF OpenState, shared, Goto, TypeOK, MemInv, SameMemory, Remembered
  <1>2. CASE OpenMemory(p)
    BY <1>0, <1>2, <1>a
       DEF OpenMemory, shared, Goto, TypeOK, MemInv, SameMemory, Remembered
  <1>3. CASE ResetUnknown(p) \/ RetryNothing(p) \/ Finish(p) \/ Reset(p) \/ Import(p)
    <2>1. \A n \in Writers : disk'[n] = "completed" => n \in memDisk'
      BY <1>0, <1>3, <1>a
         DEF ResetUnknown, RetryNothing, Finish, shared, Reset, ResetNodes, Import,
             MemoryAssumptions
    <2> QED
      BY <1>0, <1>3, <2>1, ExitMem
         DEF ResetUnknown, RetryNothing, Finish, Reset, Import
  <1>4. CASE Retry(p)
    <2>1. /\ disk' = RetryNodes(tracker[p], NodesToRetry(p)) /\ tracker'[p] = disk'
          /\ pc[p] = "retry" /\ pc'[p] = "dispatch" /\ UNCHANGED <<mem, memDisk>>
      BY <1>0, <1>4 DEF Retry, Goto, TypeOK
    <2>2. \A n \in Writers : disk'[n] = "completed" => tracker[p][n] = "completed"
      BY <1>0, <2>1 DEF RetryNodes
    <2> QED
      BY <1>0, <1>a, <2>1, <2>2 DEF MemInv, SameMemory, Remembered
  <1>5. CASE Dispatch(p)
    <2>1. PICK B : tracker' = [tracker EXCEPT ![p] = StartNodes(tracker[p], B)]
      BY <1>5 DEF Dispatch
    <2>2. /\ pc[p] = "dispatch" /\ pc'[p] = "agents" /\ UNCHANGED <<disk, mem, memDisk>>
          /\ \A n \in Writers : tracker'[p][n] = "completed" => tracker[p][n] = "completed"
      BY <1>0, <1>5, <2>1 DEF Dispatch, shared, Goto, TypeOK, StartNodes
    <2> QED
      BY <1>0, <1>a, <2>2 DEF MemInv, SameMemory, Remembered
  <1>6. CASE JoinAgents(p) \/ \E n \in Node : AgentReturns(p, n)
    <2>1. /\ pc[p] = "agents" /\ pc'[p] \in {"agents", "record"}
          /\ UNCHANGED <<disk, tracker, mem, memDisk>>
      BY <1>0, <1>6 DEF JoinAgents, AgentReturns, shared, Goto, TypeOK
    <2> QED
      BY <1>0, <1>a, <2>1 DEF MemInv, SameMemory, Remembered
  <1>7. CASE Record(p)
    <2>1. PICK n \in Node, checks \in BOOLEAN :
             LET success == response[p][n] = "success" /\ checks
                 st == RecordOutcome(file[p], tracker[p], n, success)
             IN  /\ tracker' = [tracker EXCEPT ![p] = st]
                 /\ disk' = st
                 /\ mem' = [mem EXCEPT ![p] = Remember(p, n)]
      BY <1>7 DEF Record
    <2>2. /\ pc[p] = "record" /\ pc'[p] = "flush" /\ memDisk' = memDisk
          /\ mem'[p] = Remember(p, n) /\ tracker'[p] = disk'
          /\ mem[p] = memDisk
      BY <1>0, <1>7, <2>1 DEF Record, Goto, TypeOK, MemInv, SameMemory
    <2>3. \A m \in Writers : disk'[m] = "completed" =>
             \/ tracker[p][m] = "completed"
             \/ m = n /\ response[p][n] = "success"
      BY <1>0, <2>1
         DEF RecordOutcome, MarkCompleted, MarkFailed, PropagateBlocked, StatusMap
    <2>4. \A m \in Writers : disk'[m] = "completed" => m \in mem'[p]
      BY <1>a, <2>2, <2>3 DEF Remember
    <2>5. memDisk' \subseteq mem'[p]
      BY <2>2 DEF Remember
    <2> QED
      BY <1>0, <2>2, <2>4, <2>5 DEF MemInv, SameMemory, Remembered
  <1>8. CASE Flush(p)
    <2>1. PICK n \in Node :
             \/ Exit(p, ReportCode(p))
             \/ /\ Goto(p, IF batch[p] \ {n} = {} THEN "dispatch" ELSE "record")
                /\ UNCHANGED <<tracker, mem>>
      BY <1>8 DEF Flush
    <2>2. disk' = disk /\ memDisk' = mem[p] /\ pc[p] = "flush" /\ memDisk \subseteq mem[p]
      BY <1>8 DEF Flush, MemInv, SameMemory
    <2>3. \A m \in Writers : /\ disk[m] = "completed" => m \in memDisk'
                             /\ tracker[p][m] = "completed" => m \in memDisk'
      BY <1>0, <2>2 DEF MemInv, Remembered
    <2>4. CASE Exit(p, ReportCode(p))
      BY <1>0, <2>2, <2>3, <2>4, ExitMem
    <2>5. CASE /\ Goto(p, IF batch[p] \ {n} = {} THEN "dispatch" ELSE "record")
               /\ UNCHANGED <<tracker, mem>>
      <3>1. pc'[p] \in {"dispatch", "record"} /\ UNCHANGED <<tracker, mem>>
        BY <1>0, <2>5 DEF Goto, TypeOK
      <3> QED
        BY <1>0, <2>2, <2>3, <3>1 DEF MemInv, SameMemory, Remembered
    <2> QED
      BY <2>1, <2>4, <2>5
  <1> QED
    BY <1>1, <1>2, <1>3, <1>4, <1>5, <1>6, <1>7, <1>8 DEF Step

LEMMA NextMem ==
    ASSUME MemoryAssumptions, MemInv, [Next]_vars
    PROVE  MemInv'
  <1>0. TypeOK /\ TypeOK' /\ OneProcess /\ ~Crashes /\ ~IoErrors
    BY NextTypes DEF MemInv, MemoryAssumptions, Undisturbed
  <1>1. CASE \E p \in Proc : Step(p)
    BY <1>1, StepMem
  <1>2. CASE \E p \in Proc : \E c \in Commands : Invoke(p, c)
    <2>1. PICK p \in Proc : \E c \in Commands : Invoke(p, c)
      BY <1>2
    <2>2. /\ pc[p] = "idle" /\ pc'[p] \in {"import", "open_state"} /\ \A q \in Proc : q = p
          /\ UNCHANGED <<disk, memDisk, tracker, mem>>
      BY <1>0, <2>1 DEF Invoke, Goto, shared, TypeOK, OneProcess
    <2> QED
      BY <1>0, <2>2 DEF MemInv, SameMemory, Remembered
  <1>3. CASE EditFile \/ UNCHANGED vars
    BY <1>0, <1>3 DEF EditFile, vars, MemInv, SameMemory, Remembered
  <1> QED
    BY <1>0, <1>1, <1>2, <1>3 DEF Next, Crash, WriteFails

\* What a completed node upserted is in the memory file whenever nothing is
\* left to flush, for every file and its edits, every batch size and outcome of
\* agents and checks, and every order of commands, if nothing is killed, no
\* write fails and no other command runs.
THEOREM UpsertsAreRemembered ==
    ASSUME MemoryAssumptions
    PROVE  Spec => []CompletedNodesAreRemembered
  <1>1. MemInv => CompletedNodesAreRemembered
    BY DEF MemInv, Remembered, CompletedNodesAreRemembered
  <1> QED
    BY <1>1, InitMem, NextMem, PTL DEF Spec
===============================================================================
