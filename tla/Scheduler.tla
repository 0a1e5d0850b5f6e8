------------------------------- MODULE Scheduler -------------------------------
(***************************************************************************)
(* Commands of the agm CLI that drive the execution of one .agm file:      *)
(* `agm run` (topological dispatch, serial or parallel), `agm retry`,      *)
(* `agm state reset` and `agm state import`, each in a process of its own, *)
(* over the two sidecars they share: the state file and the project        *)
(* memory file.                                                            *)
(*                                                                         *)
(* A process opens both sidecars, works on its private copies (the         *)
(* ExecutionTracker and the MemoryRuntime) and writes each copy back whole *)
(* by an atomic rename.  There is no lock between processes.  A process    *)
(* may be killed between any two steps, and the user may edit the file.    *)
(*                                                                         *)
(* A definition marked "variant" is not the code's: it is a plausible slip *)
(* in the definition after it, kept to show that a property notices it.    *)
(***************************************************************************)
EXTENDS StateTracker

CONSTANTS
    Proc,       \* CLI processes that may run at the same time
    Plans,      \* versions of the .agm file the user may have on disk
    Writers,    \* nodes with a project-scoped `memory: upsert` action
    Commands,   \* command lines the users issue
    Imports,    \* state files `agm state import` may be given
    Crashes,    \* whether a process may be killed
    IoErrors    \* whether a sidecar write may fail

\* A command line.  `targets` holds the --node argument, {} when it is absent
\* (`retry --all-failed`, `state reset` of every node); `concurrency` and
\* `fail_fast` are those of RunConfig.
Command == [op : {"run", "retry", "reset", "reset_keep_completed", "import"},
            targets : SUBSET Node, concurrency : Nat, fail_fast : BOOLEAN]

ASSUME SchedulerAssumption ==
    /\ Plans # {} /\ \A pl \in Plans : ValidPlan(pl)
    /\ Writers \subseteq Node
    /\ Commands # {} /\ Commands \subseteq Command
    /\ Imports \subseteq StatusMap
    /\ Crashes \in BOOLEAN /\ IoErrors \in BOOLEAN

VARIABLES
    plan,       \* the .agm file
    disk,       \* the statuses in the .agm.state sidecar
    memDisk,    \* the nodes whose upsert is in the .agm.mem sidecar
    pc,         \* where each process is
    cmd,        \* the command each process executes
    file,       \* the plan each process has parsed
    tracker,    \* the status map each process holds
    mem,        \* the nodes whose upsert each process holds in its cache
    execSet,    \* run_topological's execution_set
    batch,      \* nodes dispatched and not yet post-processed
    response,   \* what the agent of each dispatched node returned
    hadFailure, \* run_topological's had_failure, kept across batches
    exitCode    \* exit code of the last command of each process

vars == <<plan, disk, memDisk, pc, cmd, file, tracker, mem, execSet, batch,
          response, hadFailure, exitCode>>

\* what a process holds in memory, and what all of them share
shared == <<plan, disk, memDisk>>

PC == {"idle", "open_state", "open_memory", "retry", "reset", "import",
       "dispatch", "agents", "record", "flush"}

NoResponse == [n \in Node |-> "none"]

TypeOK ==
    /\ plan \in Plans
    /\ disk \in StatusMap
    /\ memDisk \subseteq Node
    /\ pc \in [Proc -> PC]
    /\ cmd \in [Proc -> Commands]
    /\ file \in [Proc -> Plans]
    /\ tracker \in [Proc -> StatusMap]
    /\ mem \in [Proc -> SUBSET Node]
    /\ execSet \in [Proc -> SUBSET Node]
    /\ batch \in [Proc -> SUBSET Node]
    /\ response \in [Proc -> [Node -> {"none", "success", "failure"}]]
    /\ hadFailure \in [Proc -> BOOLEAN]
    /\ exitCode \in [Proc -> {"none", "0", "1", "2", "killed"}]

Init ==
    /\ plan \in Plans
    /\ disk = NoState
    /\ memDisk = {}
    /\ pc = [p \in Proc |-> "idle"]
    /\ cmd = [p \in Proc |-> CHOOSE c \in Commands : TRUE]
    /\ file = [p \in Proc |-> plan]
    /\ tracker = [p \in Proc |-> NoState]
    /\ mem = [p \in Proc |-> {}]
    /\ execSet = [p \in Proc |-> {}]
    /\ batch = [p \in Proc |-> {}]
    /\ response = [p \in Proc |-> NoResponse]
    /\ hadFailure = [p \in Proc |-> FALSE]
    /\ exitCode = [p \in Proc |-> "none"]

-------------------------------------------------------------------------------
(***************************************************************************)
(* Starting and ending a process                                           *)
(***************************************************************************)
Goto(p, label) == pc' = [pc EXCEPT ![p] = label]

\* The process ends and its memory is gone.
Exit(p, code) ==
    /\ Goto(p, "idle")
    /\ exitCode' = [exitCode EXCEPT ![p] = code]
    /\ tracker' = [tracker EXCEPT ![p] = NoState]
    /\ mem' = [mem EXCEPT ![p] = {}]
    /\ execSet' = [execSet EXCEPT ![p] = {}]
    /\ batch' = [batch EXCEPT ![p] = {}]
    /\ response' = [response EXCEPT ![p] = NoResponse]
    /\ hadFailure' = [hadFailure EXCEPT ![p] = FALSE]
    /\ UNCHANGED <<cmd, file>>

\* A command starts and parses the file (`import` has no use for it) ...
Invoke(p, c) ==
    /\ pc[p] = "idle"
    /\ cmd' = [cmd EXCEPT ![p] = c]
    /\ exitCode' = [exitCode EXCEPT ![p] = "none"]
    /\ file' = [file EXCEPT ![p] = plan]
    /\ Goto(p, IF c.op = "import" THEN "import" ELSE "open_state")
    /\ UNCHANGED <<shared, tracker, mem, execSet, batch, response, hadFailure>>

\* ... opens the tracker ...
OpenState(p) ==
    /\ pc[p] = "open_state"
    /\ tracker' = [tracker EXCEPT ![p] = Reconcile(file[p], disk)]
    /\ Goto(p, "open_memory")
    /\ UNCHANGED <<shared, cmd, file, mem, execSet, batch, response, hadFailure, exitCode>>

\* targets and their transitive dependencies that are not done, every node
\* when the command names no target
ExecutionSet(pl, st, targets) ==
    IF targets = {} THEN Node
    ELSE targets \cup {d \in UNION {TransitiveDeps(pl, t) : t \in targets \cap pl.nodes} :
                           st[d] \notin Done}

\* ... and the memory runtime; `run` then computes its execution set.
OpenMemory(p) ==
    /\ pc[p] = "open_memory"
    /\ mem' = [mem EXCEPT ![p] = memDisk]
    /\ execSet' = [execSet EXCEPT ![p] =
                      IF cmd[p].op = "run"
                      THEN ExecutionSet(file[p], tracker[p], cmd[p].targets) ELSE {}]
    /\ Goto(p, CASE cmd[p].op = "run" -> "dispatch"
                 [] cmd[p].op = "retry" -> "retry"
                 [] OTHER -> "reset")
    /\ UNCHANGED <<shared, cmd, file, tracker, batch, response, hadFailure, exitCode>>

-------------------------------------------------------------------------------
(***************************************************************************)
(* agm state reset, agm state import, agm retry                            *)
(***************************************************************************)
NodesToReset(p) ==
    IF cmd[p].op = "reset_keep_completed"
    THEN {n \in Node : tracker[p][n] # "completed"}
    ELSE IF cmd[p].targets = {} THEN Node ELSE cmd[p].targets

\* The node named by --node has an entry.
CanReset(p) == cmd[p].op = "reset" => \A n \in cmd[p].targets : tracker[p][n] # Absent

ResetUnknown(p) ==
    /\ pc[p] = "reset"
    /\ ~CanReset(p)
    /\ Exit(p, "1")
    /\ UNCHANGED shared

Reset(p) ==
    /\ pc[p] = "reset"
    /\ CanReset(p)
    /\ disk' = ResetNodes(tracker[p], NodesToReset(p))
    /\ Exit(p, "0")
    /\ UNCHANGED <<plan, memDisk>>

\* The imported table replaces the sidecar without looking at the .agm file.
Import(p) ==
    /\ pc[p] = "import"
    /\ \E st \in Imports : disk' = st
    /\ Exit(p, "0")
    /\ UNCHANGED <<plan, memDisk>>

\* variants: also what a killed run left in progress, also what is blocked
FailedOrInterrupted(st) == {n \in Node : st[n] \in {"failed", "in_progress"}}
FailedOrBlocked(st) == {n \in Node : st[n] \in {"failed", "blocked"}}

FailedNodes(st) == {n \in Node : st[n] = "failed"}

NodesToRetry(p) ==
    IF cmd[p].targets = {} THEN FailedNodes(tracker[p]) ELSE cmd[p].targets

\* There is a node to retry, and the one named by --node is failed.
CanRetry(p) == NodesToRetry(p) # {} /\ NodesToRetry(p) \subseteq FailedNodes(tracker[p])

RetryNothing(p) ==
    /\ pc[p] = "retry"
    /\ ~CanRetry(p)
    /\ Exit(p, IF NodesToRetry(p) = {} THEN "0" ELSE "1")
    /\ UNCHANGED shared

\* Mark the nodes ready, save, and run them and their unfinished dependencies.
Retry(p) ==
    LET S == NodesToRetry(p)
        st == RetryNodes(tracker[p], S)
    IN  /\ pc[p] = "retry"
        /\ CanRetry(p)
        /\ tracker' = [tracker EXCEPT ![p] = st]
        /\ disk' = st
        /\ execSet' = [execSet EXCEPT ![p] = ExecutionSet(file[p], st, S)]
        /\ Goto(p, "dispatch")
        /\ UNCHANGED <<plan, memDisk, cmd, file, mem, batch, response, hadFailure, exitCode>>

-------------------------------------------------------------------------------
(***************************************************************************)
(* The dispatch loop of run_topological                                    *)
(***************************************************************************)
Candidates(p) == ReadyNodes(file[p], tracker[p]) \cap execSet[p]

\* The candidates that come first in some topological order: petgraph decides
\* among them.
TopoFirst(pl, C) == {n \in C : TransitiveDeps(pl, n) \cap C = {}}

\* the k first nodes of C in id order
TakeFirst(C, k) == {n \in C : Cardinality({m \in C : m < n}) < k}

BatchChoices(p) ==
    IF cmd[p].concurrency <= 1
    THEN {{n} : n \in TopoFirst(file[p], Candidates(p))}
    ELSE {TakeFirst(Candidates(p), cmd[p].concurrency)}

\* Phase 1: the whole batch goes to InProgress before any agent starts.  One
\* serial execute_node is a batch of one.
Dispatch(p) ==
    /\ pc[p] = "dispatch"
    /\ Candidates(p) # {}
    /\ \E B \in BatchChoices(p) :
          /\ tracker' = [tracker EXCEPT ![p] = StartNodes(tracker[p], B)]
          /\ batch' = [batch EXCEPT ![p] = B]
    /\ response' = [response EXCEPT ![p] = NoResponse]
    /\ Goto(p, "agents")
    /\ UNCHANGED <<shared, cmd, file, mem, execSet, hadFailure, exitCode>>

\* Phase 2: one scoped thread per node, in any order.
AgentReturns(p, n) ==
    /\ pc[p] = "agents"
    /\ n \in batch[p]
    /\ response[p][n] = "none"
    /\ \E r \in {"success", "failure"} : response' = [response EXCEPT ![p][n] = r]
    /\ UNCHANGED <<shared, pc, cmd, file, tracker, mem, execSet, batch, hadFailure, exitCode>>

JoinAgents(p) ==
    /\ pc[p] = "agents"
    /\ \A n \in batch[p] : response[p][n] # "none"
    /\ Goto(p, "record")
    /\ UNCHANGED <<shared, cmd, file, tracker, mem, execSet, batch, response, hadFailure, exitCode>>

\* results are processed in batch order, which is id order
IsNextResult(p, n) == n \in batch[p] /\ \A m \in batch[p] : n <= m

\* variant: the cache holds the last upsert only
LastUpsert(p, n) ==
    IF response[p][n] = "success" THEN {n} \cap Writers ELSE mem[p]

\* the memory cache once the upserts of a successful agent are applied
Remember(p, n) ==
    IF response[p][n] = "success" THEN mem[p] \cup ({n} \cap Writers) ELSE mem[p]

\* Phase 3, up to tracker.save: the upserts of a successful agent are applied,
\* then its checks run (`checks`), then the outcome is recorded and saved.
Record(p) ==
    /\ pc[p] = "record"
    /\ \E n \in Node, checks \in BOOLEAN :
          LET success == response[p][n] = "success" /\ checks
              st == RecordOutcome(file[p], tracker[p], n, success)
          IN  /\ IsNextResult(p, n)
              /\ tracker' = [tracker EXCEPT ![p] = st]
              /\ disk' = st
              /\ mem' = [mem EXCEPT ![p] = Remember(p, n)]
              /\ hadFailure' = [hadFailure EXCEPT ![p] = @ \/ ~success]
    /\ Goto(p, "flush")
    /\ UNCHANGED <<plan, memDisk, cmd, file, execSet, batch, response, exitCode>>

\* build_report and the exit codes of run.rs and retry.rs; hadFailure says
\* whether the report has a failed node
ReportCode(p) ==
    IF \/ hadFailure[p]
       \/ cmd[p].op = "run" /\ \E n \in Node : tracker[p][n] = "blocked"
    THEN "1" ELSE "0"

\* memory.flush ends the processing of one node: go on with the batch, stop
\* on --fail-fast, or look for more work.
Flush(p) ==
    /\ pc[p] = "flush"
    /\ memDisk' = mem[p]
    /\ UNCHANGED <<plan, disk>>
    /\ \E n \in Node :
          LET rest == batch[p] \ {n}
              stop == rest = {} /\ hadFailure[p] /\ cmd[p].fail_fast
          IN  /\ IsNextResult(p, n)
              /\ \/ stop /\ Exit(p, ReportCode(p))
                 \/ /\ ~stop
                    /\ batch' = [batch EXCEPT ![p] = rest]
                    /\ Goto(p, IF rest = {} THEN "dispatch" ELSE "record")
                    /\ UNCHANGED <<cmd, file, tracker, mem, execSet, response,
                                   hadFailure, exitCode>>

\* no candidate is left
Finish(p) ==
    /\ pc[p] = "dispatch"
    /\ Candidates(p) = {}
    /\ Exit(p, ReportCode(p))
    /\ UNCHANGED shared

-------------------------------------------------------------------------------
(***************************************************************************)
(* The environment: kills, failing writes, edits of the file               *)
(***************************************************************************)
Crash(p) ==
    /\ Crashes
    /\ pc[p] # "idle"
    /\ Exit(p, "killed")
    /\ UNCHANGED shared

\* A write fails before its rename: the sidecar is as it was.
WriteFails(p) ==
    /\ IoErrors
    /\ \/ /\ \/ pc[p] = "retry" /\ CanRetry(p)
             \/ pc[p] = "reset" /\ CanReset(p)
             \/ pc[p] = "import"
          /\ Exit(p, "2")
       \/ /\ pc[p] \in {"record", "flush"}
          /\ Exit(p, "1")
    /\ UNCHANGED shared

EditFile ==
    /\ plan' \in Plans \ {plan}
    /\ UNCHANGED <<disk, memDisk, pc, cmd, file, tracker, mem, execSet, batch,
                   response, hadFailure, exitCode>>

-------------------------------------------------------------------------------
\* what a process does by itself once it has been invoked
Step(p) ==
    \/ OpenState(p) \/ OpenMemory(p)
    \/ ResetUnknown(p) \/ Reset(p) \/ Import(p)
    \/ RetryNothing(p) \/ Retry(p)
    \/ Dispatch(p) \/ JoinAgents(p) \/ Record(p) \/ Flush(p) \/ Finish(p)
    \/ \E n \in Node : AgentReturns(p, n)

Next ==
    \/ \E p \in Proc :
          \/ Step(p)
          \/ \E c \in Commands : Invoke(p, c)
          \/ Crash(p)
          \/ WriteFails(p)
    \/ EditFile

Spec == Init /\ [][Next]_vars

\* A process that runs keeps running, and agents return (each command of a
\* shell agent is bounded by its timeout).
FairSpec == Spec /\ \A p \in Proc : WF_vars(Step(p))

-------------------------------------------------------------------------------
(***************************************************************************)
(* Properties                                                              *)
(***************************************************************************)
\* Statuses a node has only when it may be, or has been, given to an agent.
Eligible == {"ready", "in_progress", "failed"}

Ordered(pl, st) ==
    \A n \in Node : st[n] \in Eligible =>
        \A d \in pl.depends[n] \ Imported : st[d] \in Done

\* docs/spec section 26.4: a node is in progress only when everything in its
\* `depends` list that belongs to the file is completed or skipped.  It has to
\* hold of ready and failed nodes too, since ready nodes are dispatched without
\* a look at their dependencies and `agm retry` makes failed nodes ready; and
\* of the sidecar, where the next command starts, after a kill at any step.
DependencyOrder ==
    /\ Ordered(plan, disk)
    /\ \A p \in Proc : Ordered(file[p], tracker[p])

Contained(pl, st) ==
    \A f \in Node : st[f] = "failed" =>
        \A n \in TransitiveDependents(pl, f) : st[n] = "blocked"

\* Sections 24.5 and 26.5: everything that transitively depends on a failed
\* node is blocked, so none of it can be given to an agent, in every table.
FailureContained ==
    /\ Contained(plan, disk)
    /\ \A p \in Proc : Contained(file[p], tracker[p])

\* Section 27.2, step 9: the loop over the whole file ends only when every
\* node is completed, failed, skipped or blocked.
RunSettlesEveryNode ==
    \A p \in Proc :
        (/\ pc[p] = "dispatch" /\ Candidates(p) = {}
         /\ cmd[p].op = "run" /\ cmd[p].targets = {})
        => \A n \in file[p].nodes : tracker[p][n] \in Settled

\* A status change a scheduler step makes is a path of section 26.4: the
\* promotion of a pending node and its start are one step here.
LegalChange(from, to) ==
    \/ from = to
    \/ ValidTransition(from, to)
    \/ from = "pending" /\ to = "in_progress"

\* No step of the dispatch loop or of `retry` takes a node along a transition
\* the state machine refuses (propagate_blocked does not ask it).
TransitionsAreLegal ==
    [][\A p \in Proc :
          (pc[p] \in {"retry", "dispatch", "record"} /\ pc'[p] # "idle")
          => \A n \in Node : LegalChange(tracker[p][n], tracker'[p][n])]_vars

\* Section 28.5: what a completed node upserted in project scope is in the
\* memory file by the time nothing is left to flush.
CompletedNodesAreRemembered ==
    \A n \in Writers :
        (disk[n] = "completed" /\ \A p \in Proc : pc[p] # "flush") => n \in memDisk

\* Every command ends: the loop cannot dispatch for ever, and no state of the
\* sidecars makes it wait.
CommandsEnd == \A p \in Proc : pc[p] # "idle" ~> pc[p] = "idle"

\* With one process, the sidecar implements the durable lifecycle: each write
\* is one outcome of a runnable node, one retry, one reset or one import,
\* applied to what was on disk, for every batch size and kill.
Durable == INSTANCE Lifecycle WITH status <- disk
ImplementsLifecycle == Durable!Spec
===============================================================================
