----------------------------- MODULE Orchestrator -----------------------------
(***************************************************************************)
(* `agm run --group`: run_orchestrated of                                  *)
(* crates/agm-cli/src/runtime/scheduler.rs.  An orchestration node lists   *)
(* groups of nodes; a run takes the groups in an order that respects their *)
(* `requires` lists and dispatches the nodes of a group in the order of    *)
(* the list, one by one or in chunks.  It never asks ready_nodes, so the   *)
(* order of the nodes is the author's business.                            *)
(*                                                                         *)
(* One process runs at a time, and may be killed at any step.  Between two *)
(* runs the other commands of Scheduler act on the sidecar: here each is   *)
(* what it leaves there, as Lifecycle has it.                              *)
(*                                                                         *)
(* A definition marked "variant" is not the code's: it is a plausible slip *)
(* in the definition after it, kept to show that a property notices it.    *)
(***************************************************************************)
EXTENDS StateTracker, SequencesExt

CONSTANTS
    File,       \* the plan in the .agm file
    Groups,     \* group names; numbers, in the order of the names
    Groupings,  \* the parallel_groups an orchestration node may hold
    Targets,    \* the sets of groups a run may be for, by RunConfig.target_group: one
                \* group as in `--group`, or all of them as in the unit tests of
                \* run_orchestrated, which give none
    Crashes     \* whether a run may be killed or fail to write

\* `width` is the concurrency that the strategy, max_concurrency and the
\* command line come to; 1 is the sequential strategy.
Grouping == [nodes : [Groups -> Seq(Node)], requires : [Groups -> SUBSET Groups],
             width : [Groups -> Nat \ {0}]]

ASSUME OrchestratorAssumption ==
    /\ ValidPlan(File)
    /\ Groups \subseteq Nat /\ IsFiniteSet(Groups)
    /\ Groupings \subseteq Grouping
    /\ \A gs \in Groupings, g \in Groups :
          gs.nodes[g] # <<>> /\ ToSet(gs.nodes[g]) \subseteq File.nodes
    /\ Targets # {} /\ Targets \subseteq SUBSET Groups
    /\ Crashes \in BOOLEAN

VARIABLES
    grouping,   \* parallel_groups of the orchestration node
    disk,       \* the statuses in the .agm.state sidecar
    tracker,    \* the status map of the run
    pc,         \* where the run is
    target,     \* the groups the run is for
    failFast,   \* RunConfig.fail_fast
    remaining,  \* groups the loop has not come to, the current one first
    completedGroups,
    todo,       \* nodes of the current group that are not dispatched yet
    batch,      \* nodes dispatched and not yet recorded
    hadFailure,
    outcome     \* how the last run ended

run == <<tracker, target, failFast, remaining, completedGroups, todo, batch, hadFailure>>
vars == <<grouping, disk, pc, outcome, run>>

TypeOK ==
    /\ grouping \in Groupings
    /\ disk \in StatusMap /\ tracker \in StatusMap
    /\ pc \in {"idle", "next_group", "in_group", "record"}
    /\ target \in Targets
    /\ failFast \in BOOLEAN /\ hadFailure \in BOOLEAN
    /\ remaining \in Seq(Groups)
    /\ completedGroups \subseteq Groups
    /\ todo \in Seq(Node) /\ batch \in Seq(Node)
    /\ outcome \in {"none", "0", "1", "requires", "cycle", "transition", "write", "killed"}

Init ==
    /\ grouping \in Groupings
    /\ disk = NoState /\ tracker = NoState
    /\ pc = "idle"
    /\ target = CHOOSE t \in Targets : TRUE
    /\ failFast = FALSE /\ hadFailure = FALSE
    /\ remaining = <<>> /\ completedGroups = {}
    /\ todo = <<>> /\ batch = <<>>
    /\ outcome = "none"

-------------------------------------------------------------------------------
(***************************************************************************)
(* resolve_group_order                                                     *)
(***************************************************************************)
\* A set of groups in name order: the k-th is the one with k of them up to it.
InNameOrder(S) ==
    [k \in 1 .. Cardinality(S) |-> CHOOSE g \in S : Cardinality({h \in S : h <= g}) = k]

\* The k-th group is taken out of the queue; those that wait for nothing more go in.
\* q is all that was ever put in.
TakeOut(requires, q, k) ==
    IF k > Len(q) THEN q
    ELSE LET taken == ToSet(SubSeq(q, 1, k))
         IN  q \o InNameOrder({g \in Groups \ ToSet(q) : requires[g] \subseteq taken})

\* Kahn's algorithm: first the groups without requirements, in name order; then
\* a group enters, in name order, when the last of its requirements is taken out.
GroupOrder(requires) ==
    LET Enqueued[k \in 0 .. Cardinality(Groups)] ==
            IF k = 0 THEN InNameOrder({g \in Groups : requires[g] = {}})
            ELSE TakeOut(requires, Enqueued[k - 1], k)
    IN  Enqueued[Cardinality(Groups)]

-------------------------------------------------------------------------------
(***************************************************************************)
(* The loop over the groups                                                *)
(***************************************************************************)
Group == Head(remaining)

\* The run is over and its memory is gone.
End(code) ==
    /\ pc' = "idle"
    /\ outcome' = code
    /\ tracker' = NoState
    /\ remaining' = <<>> /\ completedGroups' = {}
    /\ todo' = <<>> /\ batch' = <<>>
    /\ hadFailure' = FALSE
    /\ UNCHANGED <<target, failFast>>

\* build_report and the exit code of run.rs
ReportCode == IF hadFailure \/ \E n \in Node : tracker[n] = "blocked" THEN "1" ELSE "0"

\* A command starts, opens the tracker and orders the groups.
Run(t, ff) ==
    LET order == GroupOrder(grouping.requires) IN
    /\ pc = "idle"
    /\ target' = t /\ failFast' = ff
    /\ IF Len(order) = Cardinality(Groups)
       THEN /\ pc' = "next_group" /\ outcome' = "none"
            /\ tracker' = Reconcile(File, disk)
            /\ remaining' = order
       ELSE /\ outcome' = "cycle"
            /\ UNCHANGED <<pc, tracker, remaining>>
    /\ UNCHANGED <<grouping, disk, completedGroups, todo, batch, hadFailure>>

SkipGroup ==
    /\ pc = "next_group" /\ remaining # <<>>
    /\ Group \notin target
    /\ remaining' = Tail(remaining)
    /\ UNCHANGED <<grouping, disk, pc, outcome, tracker, target, failFast,
                   completedGroups, todo, batch, hadFailure>>

\* variant: no gate, since the order of the groups is right
OrderSuffices == TRUE

\* every required group was completed by this run
RequirementsMet == grouping.requires[Group] \subseteq completedGroups

RefuseGroup ==
    /\ pc = "next_group" /\ remaining # <<>>
    /\ Group \in target
    /\ ~RequirementsMet
    /\ End("requires")
    /\ UNCHANGED <<grouping, disk>>

Serial == grouping.width[Group] = 1

\* The startable nodes of a list, in its order: the k-th is the one with k
\* startable positions up to its own.
Startable(list) ==
    LET I == {i \in DOMAIN list : tracker[list[i]] \in {"pending", "ready"}}
    IN  [k \in 1 .. Cardinality(I) |->
            list[CHOOSE i \in I : Cardinality({j \in I : j <= i}) = k]]

\* The nodes a group starts with: a parallel group drops those that are not
\* startable now, once for all its chunks.
StartGroup ==
    /\ pc = "next_group" /\ remaining # <<>>
    /\ Group \in target
    /\ RequirementsMet
    /\ pc' = "in_group"
    /\ todo' = IF Serial THEN grouping.nodes[Group] ELSE Startable(grouping.nodes[Group])
    /\ UNCHANGED <<grouping, disk, outcome, tracker, target, failFast, remaining,
                   completedGroups, batch, hadFailure>>

Finish ==
    /\ pc = "next_group" /\ remaining = <<>>
    /\ End(ReportCode)
    /\ UNCHANGED <<grouping, disk>>

-------------------------------------------------------------------------------
(***************************************************************************)
(* execute_group                                                           *)
(***************************************************************************)
\* the nodes the next dispatch is for
Chunk ==
    SubSeq(todo, 1, IF Len(todo) < grouping.width[Group]
                    THEN Len(todo) ELSE grouping.width[Group])

\* variant: chunks_exact, which loses the nodes of a last short chunk
LoseShortChunk ==
    IF Len(todo) < 2 * grouping.width[Group] THEN <<>>
    ELSE SubSeq(todo, grouping.width[Group] + 1, Len(todo))

Rest == SubSeq(todo, Len(Chunk) + 1, Len(todo))

\* a sequential group leaves settled nodes alone
Passed == Serial /\ tracker[Head(todo)] \in Settled

\* variant: transitions to in_progress that are not validated
Unvalidated == TRUE

\* every transition to in_progress, in turn, is valid
CanStart == IsInjective(Chunk) /\ \A n \in ToSet(Chunk) : tracker[n] \in {"pending", "ready"}

PassNode ==
    /\ pc = "in_group" /\ todo # <<>>
    /\ Passed
    /\ todo' = Tail(todo)
    /\ UNCHANGED <<grouping, disk, pc, outcome, tracker, target, failFast, remaining,
                   completedGroups, batch, hadFailure>>

Dispatch ==
    /\ pc = "in_group" /\ todo # <<>>
    /\ ~Passed
    /\ CanStart
    /\ tracker' = StartNodes(tracker, ToSet(Chunk))
    /\ batch' = Chunk
    /\ todo' = Rest
    /\ pc' = "record"
    /\ UNCHANGED <<grouping, disk, outcome, target, failFast, remaining,
                   completedGroups, hadFailure>>

\* A node of the chunk cannot be started: the whole run ends in an error.
AbortRun ==
    /\ pc = "in_group" /\ todo # <<>>
    /\ ~Passed
    /\ ~CanStart
    /\ End("transition")
    /\ UNCHANGED <<grouping, disk>>

\* The agents of a chunk are done: the outcomes are recorded in the order of
\* the chunk, each with a save; after the last of them fail_fast may cut the
\* group short.
Record ==
    /\ pc = "record"
    /\ \E success \in BOOLEAN :
          LET failed == hadFailure \/ ~success
              last == Len(batch) = 1
              st == RecordOutcome(File, tracker, Head(batch), success)
          IN  /\ tracker' = st
              /\ disk' = st
              /\ hadFailure' = failed
              /\ todo' = IF last /\ failed /\ failFast THEN <<>> ELSE todo
              /\ pc' = IF last THEN "in_group" ELSE "record"
    /\ batch' = Tail(batch)
    /\ UNCHANGED <<grouping, outcome, target, failFast, remaining, completedGroups>>

EndGroup ==
    /\ pc = "in_group" /\ todo = <<>>
    /\ IF hadFailure /\ failFast
       THEN End(ReportCode)
       ELSE /\ remaining' = Tail(remaining)
            /\ completedGroups' = completedGroups \cup {Group}
            /\ pc' = "next_group"
            /\ UNCHANGED <<outcome, tracker, target, failFast, todo, batch, hadFailure>>
    /\ UNCHANGED <<grouping, disk>>

-------------------------------------------------------------------------------
Crash ==
    /\ Crashes /\ pc # "idle"
    /\ End("killed")
    /\ UNCHANGED <<grouping, disk>>

WriteFails ==
    /\ Crashes /\ pc = "record"
    /\ End("write")
    /\ UNCHANGED <<grouping, disk>>

\* The other commands, as Lifecycle has them: `agm run` or `agm retry` runs a
\* node, and may be killed while the rest of its batch is in progress; failed
\* nodes are made ready; every node is reset.
OtherCommand ==
    LET st == Reconcile(File, disk) IN
    /\ pc = "idle"
    /\ \/ \E B \in SUBSET ReadyNodes(File, st), success \in BOOLEAN :
             \E n \in B : disk' = RecordOutcome(File, StartNodes(st, B), n, success)
       \/ \E S \in SUBSET {n \in Node : st[n] = "failed"} : disk' = RetryNodes(st, S)
       \/ disk' = ResetNodes(st, Node)
    /\ outcome' = "none"
    /\ UNCHANGED <<grouping, pc, run>>

Step ==
    \/ SkipGroup \/ RefuseGroup \/ StartGroup \/ Finish
    \/ PassNode \/ Dispatch \/ AbortRun \/ Record \/ EndGroup

Next ==
    \/ \E t \in Targets, ff \in BOOLEAN : Run(t, ff)
    \/ Step
    \/ Crash \/ WriteFails \/ OtherCommand

Spec == Init /\ [][Next]_vars

-------------------------------------------------------------------------------
(***************************************************************************)
(* Properties                                                              *)
(***************************************************************************)
Started == ToSet(batch)

\* Section 13.10 of docs/spec, `requires`: when a node is given to an agent, no
\* node of a group that its group requires is still waiting or with an agent of
\* this run.  (A node that a killed run left in progress counts as gone: a
\* parallel group passes it over.)
RequiredGroupsWentFirst ==
    Started # {} =>
        \A r \in grouping.requires[Group] : \A m \in ToSet(grouping.nodes[r]) :
            tracker[m] \notin {"pending", "ready"} /\ m \notin Started

\* every dependency of a listed node is in a group that its group requires, or
\* before it in the same sequential group
WellGrouped(gs) ==
    \A g \in Groups : \A i \in DOMAIN gs.nodes[g] : \A d \in Edges(File, gs.nodes[g][i]) :
        \/ \E r \in gs.requires[g] : d \in ToSet(gs.nodes[r])
        \/ (gs.width[g] = 1 /\ \E j \in 1 .. i - 1 : gs.nodes[g][j] = d)

\* What "we trust the group ordering" (execute_group) rests on: if the groups
\* are listed well, a node is given to an agent only when each dependency is
\* done, or was left in progress by a killed run, whatever other commands did.
DependenciesWentFirst ==
    WellGrouped(grouping) =>
        \A n \in Started : \A d \in Edges(File, n) :
            \/ tracker[d] \in Done
            \/ (tracker[d] = "in_progress" /\ d \notin Started)

\* The chunks of a parallel group are fixed when it starts; a node that an
\* earlier chunk completed, failed or blocked since is not given to an agent.
NothingSettledIsStarted ==
    [][\A n \in ToSet(batch') : disk[n] \in Settled => n \in Started]_vars

\* A run that exits 0 has left no node of its groups waiting or blocked.
ExitZeroLeavesNothingToRun ==
    [][(pc # "idle" /\ outcome' = "0") =>
          \A g \in target :
             \A n \in ToSet(grouping.nodes[g]) :
                disk'[n] \notin {Absent, "pending", "ready", "blocked"}]_vars
===============================================================================
