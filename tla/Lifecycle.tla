------------------------------- MODULE Lifecycle -------------------------------
(***************************************************************************)
(* What the runtime promises of the execution state it records, whatever   *)
(* the commands, the dispatch order, the kills and the failing writes: the *)
(* record of a plan only ever changes by one node's outcome, a retry of    *)
(* failed nodes, a reset or an import.  There are no processes here, no    *)
(* copies in memory, and no step between a command's read and its write.   *)
(*                                                                         *)
(* It is the durable view of sections 26.4, 26.5 and 27.8 of docs/spec:    *)
(* Scheduler implements it with the state sidecar for `status`, as long as *)
(* one command runs at a time.                                             *)
(***************************************************************************)
EXTENDS StateTracker

CONSTANTS
    Plans,     \* versions of the .agm file
    Imports    \* state files a user may import

VARIABLE status

Init == status = NoState

\* nodes that may be with an agent when an outcome is recorded: the runnable
\* ones and those an earlier outcome of the same batch left in progress
MayRun(pl, st) == ReadyNodes(pl, st) \cup {n \in Node : st[n] = "in_progress"}

\* One node of a batch ends: its outcome is recorded, and with it that the
\* rest of the batch is in progress and, on failure, what is blocked.
RecordNode(pl) ==
    LET st == Reconcile(pl, status) IN
    \E B \in SUBSET MayRun(pl, st), success \in BOOLEAN :
        \E n \in B : status' = RecordOutcome(pl, StartNodes(st, B), n, success)

\* Failed nodes, and no others, become ready again.
RetryFailed(pl) ==
    LET st == Reconcile(pl, status) IN
    \E S \in SUBSET {n \in Node : st[n] = "failed"} :
        S # {} /\ status' = RetryNodes(st, S)

ResetSome(pl) ==
    LET st == Reconcile(pl, status) IN
    \E S \in SUBSET Node : status' = ResetNodes(st, S)

ImportAny == status' \in Imports

Next ==
    \/ \E pl \in Plans : RecordNode(pl) \/ RetryFailed(pl) \/ ResetSome(pl)
    \/ ImportAny

Spec == Init /\ [][Next]_status
===============================================================================
