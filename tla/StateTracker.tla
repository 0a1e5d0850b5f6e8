----------------------------- MODULE StateTracker -----------------------------
(***************************************************************************)
(* The execution state tracker of the agm runtime                          *)
(* (crates/agm-cli/src/runtime/state.rs) as pure operators over a status   *)
(* map.  A status map stands for the `nodes` table of a StateFile, the     *)
(* value kept in memory by ExecutionTracker and written to the             *)
(* `.agm.state` sidecar.  Every command of the CLI changes it through the  *)
(* operators below.                                                        *)
(*                                                                         *)
(* The status is the only field of a NodeState kept here: executed_by,     *)
(* executed_at, execution_log and retry_count follow it and are never read *)
(* back by the scheduler.                                                  *)
(*                                                                         *)
(* A definition marked "variant" is not the code's: it is a plausible slip *)
(* in the definition after it, kept to show that a property notices it.    *)
(***************************************************************************)
EXTENDS Naturals, FiniteSets

CONSTANTS
    Node,      \* node ids; numbers, whose order is the lexicographic order of the ids
    Imported   \* ids of nodes that live in imported packages, outside the file

ASSUME NodeAssumption == Node \subseteq Nat /\ Imported \subseteq Node

(***************************************************************************)
(* Status maps and plans                                                   *)
(***************************************************************************)
Status == {"pending", "ready", "in_progress", "completed", "failed", "blocked", "skipped"}

\* a node that has no entry in the table
Absent == "absent"

StatusMap == [Node -> Status \cup {Absent}]

NoState == [n \in Node |-> Absent]

\* statuses that satisfy a dependent, and statuses no run moves a node out of
Done == {"completed", "skipped"}
Settled == {"completed", "skipped", "failed", "blocked"}

\* what the runtime uses of a parsed and validated .agm file
Plan == [nodes : SUBSET (Node \ Imported), depends : [Node -> SUBSET Node]]

\* build_graph keeps a `depends` edge only when its target is a node of the file
Edges(pl, n) == pl.depends[n] \cap pl.nodes

\* The nodes reachable from n in one or more edges: the least set that holds
\* the edges of n and is closed under edges.
TransitiveDeps(pl, n) ==
    {m \in pl.nodes \ {n} :
        \A S \in SUBSET pl.nodes :
            (/\ Edges(pl, n) \subseteq S
             /\ \A x \in S : Edges(pl, x) \subseteq S) => m \in S}

TransitiveDependents(pl, n) == {m \in pl.nodes : n \in TransitiveDeps(pl, m)}

\* What validation lets through: every name of a `depends` list is a node of
\* the file or has the prefix of an imported package, and there is no cycle.
ValidPlan(pl) ==
    /\ pl \in Plan
    /\ \A n \in pl.nodes :
          /\ pl.depends[n] \subseteq pl.nodes \cup Imported
          /\ n \notin Edges(pl, n)
          /\ \A m \in TransitiveDeps(pl, n) : n \notin TransitiveDeps(pl, m)

(***************************************************************************)
(* The state machine                                                       *)
(***************************************************************************)
ValidTransition(from, to) ==
    <<from, to>> \in
        {<<"pending", "ready">>, <<"pending", "blocked">>, <<"pending", "skipped">>,
         <<"ready", "in_progress">>,
         <<"in_progress", "completed">>, <<"in_progress", "failed">>,
         <<"failed", "ready">>, <<"blocked", "ready">>}

\* a node the state file does not know yet
Initial(pl, n) == IF pl.depends[n] = {} THEN "ready" ELSE "pending"

\* Opening a tracker: entries of nodes that left the file are pruned, new
\* nodes are added, every other status is kept.  A missing sidecar is the
\* empty table, which makes this `initialize` as well.
Reconcile(pl, st) ==
    [n \in Node |-> IF n \notin pl.nodes THEN Absent
                    ELSE IF st[n] = Absent THEN Initial(pl, n)
                    ELSE st[n]]

\* variant: an unfinished dependency is enough if it has not gone wrong
NoDepFailed(pl, st, n) == \A d \in Edges(pl, n) : st[d] \notin {"failed", "blocked"}

AllDepsSatisfied(pl, st, n) == \A d \in Edges(pl, n) : st[d] \in Done

\* variants: without the promotion of pending nodes, and failed nodes at once again
ReadyOnly(pl, st) == {n \in Node : st[n] = "ready"}
ReadyOrFailed(pl, st) ==
    {n \in Node : \/ st[n] \in {"ready", "failed"}
                  \/ st[n] = "pending" /\ AllDepsSatisfied(pl, st, n)}

ReadyNodes(pl, st) ==
    {n \in Node : \/ st[n] = "ready"
                  \/ st[n] = "pending" /\ AllDepsSatisfied(pl, st, n)}

\* variant: the direct dependents only
BlockDirect(pl, st, f) ==
    [n \in Node |-> IF n \in pl.nodes /\ f \in Edges(pl, n) /\ st[n] \in {"pending", "ready"}
                    THEN "blocked" ELSE st[n]]

PropagateBlocked(pl, st, f) ==
    [n \in Node |-> IF /\ n \in TransitiveDependents(pl, f)
                       /\ st[n] \in {"pending", "ready"}
                    THEN "blocked" ELSE st[n]]

MarkCompleted(st, n) == [st EXCEPT ![n] = "completed"]

MarkFailed(st, n) == [st EXCEPT ![n] = "failed"]

\* ExecutionTracker::retry on each node of a set
RetryNodes(st, S) == [n \in Node |-> IF n \in S THEN "ready" ELSE st[n]]

\* NodeState::default for each node of a set that has an entry
ResetNodes(st, S) ==
    [n \in Node |-> IF n \in S /\ st[n] # Absent THEN "pending" ELSE st[n]]

(***************************************************************************)
(* The scheduler's use of the tracker                                      *)
(***************************************************************************)
\* promotion of Pending to Ready where needed, then Ready to InProgress
StartNodes(st, B) == [n \in Node |-> IF n \in B THEN "in_progress" ELSE st[n]]

\* what is recorded for node n once its agent and its checks are done
RecordOutcome(pl, st, n, success) ==
    IF success THEN MarkCompleted(st, n)
               ELSE PropagateBlocked(pl, MarkFailed(st, n), n)
===============================================================================
