----------------------------- MODULE MCScheduler -----------------------------
(***************************************************************************)
(* Small instances of Scheduler for TLC.  Node ids are chosen so that the  *)
(* id order disagrees with the dependency order: parallel batches are      *)
(* taken by id, serial runs by dependencies.                               *)
(***************************************************************************)
EXTENDS Scheduler

\* 4 is the root, 1 and 2 depend on it, 3 depends on both of them
DiamondEdges == [n \in Node |-> CASE n \in {1, 2} -> {4} [] n = 3 -> {1, 2} [] OTHER -> {}]
DiamondPlans == {[nodes |-> {1, 2, 3, 4}, depends |-> DiamondEdges]}

\* 3, then 1, then 2
ChainEdges == [n \in Node |-> CASE n = 1 -> {3} [] n = 2 -> {1} [] OTHER -> {}]
ChainPlans == {[nodes |-> {1, 2, 3}, depends |-> ChainEdges]}

\* the diamond, and the file before its last node was written
GrowingPlans == DiamondPlans \cup {[nodes |-> {1, 2, 4}, depends |-> DiamondEdges]}

NoNodes == {}
AllWriters == Node

Cmd(op, targets, k, ff) == [op |-> op, targets |-> targets, concurrency |-> k, fail_fast |-> ff]

Run(k) == Cmd("run", {}, k, FALSE)
RunNode(n) == Cmd("run", {n}, 1, FALSE)
FailFast(k) == Cmd("run", {}, k, TRUE)
RetryAll == Cmd("retry", {}, 1, FALSE)
RetryNode(n) == Cmd("retry", {n}, 1, FALSE)
ResetAll == Cmd("reset", {}, 1, FALSE)
ResetNode(n) == Cmd("reset", {n}, 1, FALSE)
KeepCompleted == Cmd("reset_keep_completed", {}, 1, FALSE)
ImportState == Cmd("import", {}, 1, FALSE)

\* every command but `state reset --node` of a dependency: nothing depends on 3
\* in the diamond
SafeCommands ==
    {Run(1), Run(2), RunNode(2), FailFast(1), FailFast(2), RetryAll, RetryNode(1),
     ResetAll, ResetNode(3), KeepCompleted, ImportState}
SharedCommands == {Run(1), Run(2), RunNode(1), RetryAll, KeepCompleted}
SettleCommands ==
    {Run(1), Run(2), Run(3), RunNode(2), FailFast(2), RetryAll, RetryNode(1), ResetAll,
     KeepCompleted}

\* a backup taken when the root was completed
Backups == {[n \in Node |-> IF n = 4 THEN "completed" ELSE "pending"]}
===============================================================================
