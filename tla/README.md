# Verification of the agm runtime

This directory is the formal model of `agm`, the tool that parses, validates and
*executes* `.agm` files. An `.agm` file is a graph of nodes; `agm run` gives the nodes
to an agent in dependency order, records what became of each in a state sidecar
(`.agm.state`), and keeps a memory across runs in a second sidecar (`.agm.mem`) and
in a global store. The modules are TLA+, checked with TLC on small instances and,
where noted, proved with TLAPS for all instances. Paths below are relative to the
repository (`crates/...`, `docs/...`); "spec" is `docs/spec/agm_spec_v1.2.0.md`.

1. [The system](#1-the-system)
2. [The modules and the code](#2-the-modules-and-the-code)
3. [What is checked](#3-what-is-checked)
4. [What is proved](#4-what-is-proved)
5. [Where code and documents disagree](#5-where-code-and-documents-disagree)
6. [What is not modelled](#6-what-is-not-modelled)
7. [Plan](#7-plan)

## 1. The system

The workspace has three crates: `agm-core` (documents: parsing, validation, graphs,
rendering, the memory store), `agm-cli` (the commands and the runtime that executes
files) and `agm-lsp` (a language server). State, order and failure are in the runtime,
in the memory store, and in the few pieces with threads or callbacks. Most of `agm-core`
is functions from text to text or diagnostics; what is hard about those is that they
must agree: what one writes another reads, and what one accepts another runs.

### Inventory

| component | state | operations | made correct by |
|---|---|---|---|
| **state tracker** `agm-cli/src/runtime/state.rs` | one status per node, in memory and in the sidecar | open + reconcile, transition, complete, fail, block, retry, ready_nodes, save | statuses move along spec 26.4; nothing runs before what it depends on; failures block exactly what depends on them |
| **topological scheduler** `runtime/scheduler.rs` 97-595 | execution set, current batch, had_failure | serial and parallel dispatch, post-processing, report | a run ends, and ends with every node settled; the sidecar survives a kill at any step |
| **orchestrated scheduler** `runtime/scheduler.rs` 597-916 | groups completed by this call, chunks of the group | order groups, gate on `requires`, dispatch a group | required groups go first; settled nodes are not started again; exit 0 means nothing of the group is left |
| **runtime commands** `commands/{run,retry,state_cmd,helpers}.rs` | one process each, no lock | run, retry, state reset / import / export / show | exit codes say what happened; two commands over one file do no harm |
| **context builder, shell agent, verifier** `runtime/{context,agent,verifier}.rs` | child processes, a time budget per node, the working directory | collect what a node asks for; run its code blocks until one fails; run its checks | edits of completed nodes survive; a node sees what it depends on; only nodes out of time are killed; success means the checks passed |
| **memory runtime** `runtime/memory.rs` | four scopes: node, session (in the process), project (file sidecar), global (user's home) | get, upsert, delete, list, search, expire, flush | an entry written to a durable scope stays until deleted or expired |
| **memory store** `agm-core/src/memory/store` | a mem file, its signature, a cache | open, save, merge, sign, verify | a saved file verifies; a signature belongs to its text; cache and file agree after a save |
| **sidecar formats** `agm-core/src/{parser,renderer}/{state,mem}.rs`, `parser/sidecar.rs` | none | parse, render | what was saved is what is loaded |
| **bench runner** `agm-cli/src/bench` | worker threads, counting semaphore, counters, cassettes | run a suite live, recording or replaying | never more requests than permits, none lost; a report tells its suite; a replay repeats a recording |
| **parsers** `agm-core/src/parser` | lines consumed; the streaming parser buffers across calls | lex, parse, push, finish | the streaming result is that of the whole text |
| **renderers** `agm-core/src/renderer` | none | canonical text, canonical JSON | what is written reads back |
| **validator, schema, imports** `agm-core/src/{validator,schema,import}` | visited set and stacks of searches | per-file and per-node passes; resolve imports; circular imports | what the runtime relies on is checked before |
| **normalize, ingest, builders** `agm-core/src/{normalize,ingest,builder}` | none | rename synonyms; JSON objects to nodes | no member is lost; what is written is valid |
| **repair** `agm-core/src/repair` | none | rewrite texts of language models by a list of rules | repairing settles, keeps nodes and edges |
| **graph, loader, diff, compiler** `agm-core/src/{graph,loader,diff,compiler}` | none | edges, walks, cycles; parts of a file; differences; Markdown to AGM | cycle finders agree; a part is closed; a difference is told at its weight; a compiled file reads back |
| **document commands** `agm-cli/src/commands` | the file and its sidecars on disk | validate, lint, render, load, diff, graph, repair, fix, normalize, compile, ingest, state and mem commands | a rewritten file is the same file |
| **language server** `agm-lsp/src` | table of open documents | open/change/save/close, publish diagnostics | the last diagnostics a client sees belong to the last text |
| **command line, corpus, self-update** | none | arguments, static texts, `cargo install` | - |

### How the parts interact

```
 .agm file --parse/validate--> plan (nodes, depends, memory, verify, groups)
                                 |
   run / retry / reset / import  |   one process per command, nothing locks a file
          |                      v
          |  open   +---------------------+   ready_nodes   +-----------+
          +-------> | ExecutionTracker    | <-------------> | scheduler |
                    +---------------------+                 +-----------+
                      ^  save (tmp+rename)                    |       |
                      v                                execute|       |upsert, flush
                 .agm.state                                   v       v
                                                      agent threads  MemoryRuntime
                                                       + verifier      |      |
                                                                 .agm.mem  ~/.agm/global.mem
```

A process reads each sidecar once, when it starts, and writes it back *whole* after
every node. Per node the scheduler builds a context, marks the node in progress, calls
the agent, applies the memory upserts if the agent succeeded, runs the checks, records
the outcome, blocks dependents on failure, saves the state and then flushes the memory.
In parallel mode a batch is put in progress together, its agents run on scoped threads
that share nothing, and all results are post-processed afterwards in id order.

### What is hard about it

- **Kills and failing writes.** Two sidecars per file, one write after the other, and
  a batch of nodes in progress between them: the next command starts from whatever
  reached the disk.
- **Processes that overwrite each other.** No lock on either sidecar or on the global
  memory; each process writes back its own copy.
- **Stale tables.** The sidecar describes an older file: nodes came, went or
  changed their dependencies. A `Ready` status is trusted without another look at
  the dependencies.
- **Long legal command sequences.** run, retry, reset (one node, all, all but
  completed) and import in any order around a failure.
- **Two schedulers with different rules.** `--group` never asks `ready_nodes`: it
  relies on the author's listing.
- **Termination.** The dispatch loop has no counter; it ends when no node is ready.

- **Work outside the tables.** Agents of one batch edit the same files without a lock;
  a rewrite empties its file before it writes, so that others see the empty file and a
  failing or killed rewrite leaves less than there was; a retry applies again what a
  failed attempt has applied, child processes fill or hold their pipes, and a node's
  time is shared by its commands.
- **Texts that pass through several hands.** A file is parsed, repaired, normalized,
  compiled, rendered and parsed again; a text may hold a line that looks like a field.

`hazards` in `PROJECT.json` lists each at the line where it bites, with the properties
that watch it.

## 2. The modules and the code

| module | models | extends |
|---|---|---|
| `StateTracker` | `state.rs` and the graph queries, as operators over a status map | |
| `Lifecycle` | *abstract*: how the recorded state of a plan may ever change | `StateTracker` |
| `Scheduler` | topological `run`, `retry`, `state reset`, `state import` as processes over the sidecars | `StateTracker`; instantiates `Lifecycle` |
| `Orchestrator` | `run --group`, with the other commands in between as `Lifecycle` has them | `StateTracker` |
| `NodeExecution` | context, agent, memory and checks of the nodes of a batch, on one working directory | |
| `MemoryRuntime` | processes over project and global memory files | |
| `MemoryStore` | signed stores: handles over one file and its signature | |
| `Bench` | suites of threads under a semaphore, with cassettes | |
| `Parser` | lines and the batch parser of AGM files | |
| `Canonical` | the canonical text of a file | `Parser` |
| `StreamParser` | the push parser, as a state machine beside the batch parser | `Canonical` |
| `Schema` | the table of node types, its enforcement, and JSON schemas | `Parser` |
| `Validator` | the passes of `validate`, imports | `Schema` |
| `Normalizer` | synonyms of types and fields | `Canonical`, `Schema` |
| `Ingest` | JSON objects to a file that is written or not | `Normalizer`, `Validator` |
| `Graph` | building, walks, cycles, topological orders | `Validator` |
| `Loader` | modes, filters, load profiles | `Graph` |
| `Diff` | differences of two files and their weight | `Validator` |
| `Repair` | the repair rules and their safety net | `Canonical` |
| `Compiler` | Markdown to a file | `Graph` |
| `JsonFile` | canonical JSON and back | `Parser` |
| `Sidecars` | the texts of `.agm.state` and `.agm.mem` and back | `Canonical` |
| `Workbench` | a file and its sidecars on disk under the document commands | all of the above that are about documents |
| `SchedulerProofs` | theorems: types, dependency order, legal transitions, containment of failures; with one process the refinement of `Lifecycle`, settled runs, remembered upserts | `Scheduler` |
| `OrchestratorProofs`, `NodeExecutionProofs`, `StreamParserProofs` | theorems about the modules of that name | their module, `ListTheorems` |
| `MemoryStoreProofs`, `BenchProofs`, `MemoryRuntimeProofs` | theorems about the modules of that name | their module |
| `ListTheorems` | lemmas about lists, joined and flattened lists, numbered sets, sums and least numbers that several proofs need | |
| `MCScheduler`, `MCOrchestrator`, `MCMemory`, `MCNode`, `MCStore`, `MCBench`, `MCTexts`, `MCIngest`, `MCWorkbench` | constants of the TLC instances | their module |

A definition with the comment **variant** is not the code's. It is a plausible slip
in the definition after it (a dropped guard, one level of a closure, a reset that is
forgotten) and serves to show that a property notices it; `mutants` in `PROJECT.json`
pairs each property with one. No specification uses a variant.

### StateTracker

A *status map* gives each node id a status or `absent`. It is the `nodes` table of a
`StateFile`, the content of both `ExecutionTracker` and the sidecar. The other fields
of a `NodeState` (who, when, log, retry count) are dropped: they are written with the
status and no decision reads them. A *plan* is what the runtime takes from a validated
file: the node ids and the `depends` lists.

| operator | code |
|---|---|
| `Edges` | `build_graph`: an edge exists only if its target is a node of the file |
| `TransitiveDeps`, `TransitiveDependents` | the graph queries, defined as a least closed set rather than by the code's DFS |
| `ValidPlan` | what validation guarantees before the runtime starts |
| `ValidTransition` | `is_valid_transition` |
| `Reconcile`, `Initial` | opening a tracker (an absent sidecar is the empty table, so this is `initialize` too) |
| `ReadyNodes`, `AllDepsSatisfied` | `ready_nodes` and its helper |
| `PropagateBlocked`, `MarkCompleted`, `MarkFailed`, `RetryNodes` | the operations of that name |
| `ResetNodes` | `NodeState::default` on the entries that `state reset` selects |
| `StartNodes`, `RecordOutcome` | the two changes the scheduler makes to the table |

Node ids are numbers whose order is the lexicographic order of the real ids (the
tables are ordered maps; parallel batches are taken in that order).

### Scheduler

Variables: the `.agm` file on disk (`plan`), the two sidecars (`disk`, `memDisk`), and
for each process where it is, its command, the file it parsed, its tracker, its memory
cache, its execution set, its batch, the answers of its agents, `had_failure` and its
exit code.

| action | code |
|---|---|
| `Invoke` | process start; parses the file that is on disk *now* |
| `OpenState`, `OpenMemory` | tracker and memory runtime are opened; `run` computes its execution set |
| `Retry`, `RetryNothing` | `retry.rs`: check, mark ready, save, run the retried nodes and their unfinished dependencies; or nothing to do |
| `Reset`, `ResetUnknown`, `Import` | `state_cmd.rs` |
| `Dispatch` | the top of the loop: candidates, a batch, all of it to in progress |
| `AgentReturns`, `JoinAgents` | agent threads, in any order, each with any answer |
| `Record` | the processing of the next result up to `tracker.save()` |
| `Flush` | `memory.flush()`, then next result, next batch, or stop for `--fail-fast` |
| `Finish` | nothing is ready: report and exit code |
| `Crash`, `WriteFails`, `EditFile` | environment |

A save or flush is one atomic step because the code writes a temporary file and
renames it; that the temporary file has one fixed name, which two simultaneous saves
would share, is not in this model. That a saved table reads back is taken for granted here;
`Sidecars` shows when it is true (logs of one line without tabs, see section 5). The steps between are separate
actions because a kill or another process can come between. Serial dispatch
is a batch of one, taken from the candidates that are first in some topological order:
which one depends on `petgraph`. `memDisk` holds which nodes' upserts are in the memory
file; the details of entries are in `MemoryRuntime`.

### Lifecycle

The abstract promise: one variable, the recorded table, which changes only by the
outcome of one node that may run, a retry of failed nodes, a reset, or an import. It
has no processes, copies, batches or kills. `Scheduler` with one process implements it
under the refinement `status <- disk` (property `ImplementsLifecycle`).

### Orchestrator

Models `run_orchestrated`, `resolve_group_order` and `execute_group`: the queue of
groups (Kahn's algorithm with sorted names), the filter on the target group, the gate
on `requires`, sequential groups that pass over settled nodes, parallel groups that
fix their eligible nodes once and dispatch them in chunks, the abort when a
transition is refused, `fail_fast`, and the reports. `width` stands for what the strategy,
`max_concurrency` and the command line come to. Agents are inside `Record` here: the
order in which they return has no effect, since results are taken in chunk order
(`Scheduler` has that interleaving explicitly). One process runs at a time;
`OtherCommand` leaves in the sidecar what one write of another command would.

`target` is a set of groups so that both users of the code are covered: `agm run --group` always
names one group (`run.rs` takes this path only then); the unit tests of
`run_orchestrated` give none, which runs all.

### MemoryRuntime

Models processes, each with the project store of its file and the global store, both
loaded at the start in two steps and written back whole in two steps after each node and after `mem gc`.
Entries keep their time to live and both time stamps, not their value. `Expire` works
on `updated_at` and removes only `duration` entries. A clock ticks between any two
steps up to `MaxTime`.

### NodeExecution

`Scheduler` takes what happens between dispatch and outcome as one answer. This module
has the inside: a file is a sequence of pieces, each written by one code block of one
node, so that a property can ask who wrote what is there. A piece that is torn is dropped:
it is nobody's any more. A command is how long it
takes, whether it fills the pipe that nobody reads while it runs, whether it leaves a
process behind that keeps the pipe open, and how it exits. What a command of a check prints is the set of texts
that occur in it, and a regular expression the set of texts it matches.

`fs::write` opens and empties a file and then writes from its start. Between the two
steps, and before them while an agent holds what it has read, the other agents of the batch read
the empty file, empty it too, append to it or write their own text there. A later text then lies over what is there
(`Overlay`): the pieces under it are gone, one may be torn, the ones behind it stay. `lost` is a history variable: the pieces that a
rewrite which failed or was killed has read, taken out of the file and not put back.

| action or operator | code |
|---|---|
| `BuildContext` (`FileSections`, `MemorySections`, `DefaultContext`, `TruncateToBudget`) | `context.rs`: before any node of the batch has run |
| `StartBatch` | `dispatch_parallel`: contexts of all, then all in progress |
| `AppendBlock` | a block that appends; it may fail, with the file created or a part of its text in it |
| `ReadTarget`, `EmptyTarget`, `WriteTarget` | every other block: look at the target (exists, read, anchor), empty it, write. Each may fail and end the node; `WriteTarget` then leaves a part of the text (`PartsOver`) |
| `Spawn`, `Tick`, `Kill`, `ChildExits`, `ReadOutput` | the poll loop of `agent.rs`; time passes only while commands run |
| `Stop`, `GiveUp`, `Answer` | the first error ends the node; all blocks done |
| `RecordResult` (`VerifyNode`) | memory actions, checks against the tracker as it is, outcome, in id order |
| `Retry`, `Release` | the user's `retry` and `state reset`, up to `MaxAttempts`; a new process, without the session memory of the last |
| `Crash` | the run is killed while agents work or results are recorded: what an agent has not written back is lost, and the nodes of the batch are in the sidecar as the last save has them |

One call that reads or writes is one step, and an append (open and write) is one. The nodes that a kill leaves unrecorded all have the same status. A kill
between the save of the state and the flush of the memory is in `Scheduler`, not here.

### MemoryStore

Handles with an active key, accepted keys, a verify mode and an envelope open one file,
change a cache and save it whole. A signature is the pair of the key and the text it was
made from, which is what the algorithms are trusted for. `ApplySigning` and `WriteBody`
are the two renames of a save with a separate signature; any step may be followed by
`Close` (an end or a kill) or `WriteFails`. `Merge` goes over the incoming entries in
order and stops at an oversized one with what it has already put into the cache.
`RuntimeFlush` is `agm run`, which writes the same file unsigned.

### Bench

One thread per case: `Acquire` (with `WakeSpuriously`, because a condition variable may),
`Send` or a cassette, `Record` in a bucket and two counters, `Release` and `Notify`.
Suites follow each other over one directory of cassettes. `OpenCassette` empties the file
(`EmptyTape`), `FillCassette` writes from its start: where another thread of the same path has written
since it was emptied, its text may be the longer one, and its tail stays (`TornTape`, a file that does
not parse). `CassetteFails` and `Crash` may leave any file torn that was being written (`Tear`). One write is one step; the part of a
text that a failing write puts over another's text is taken not to fit it, although one that stops exactly behind
the hash of the request would. The answer of a provider is reduced to how it parses, validates and fits.

### Parser, Canonical, StreamParser

A line is its indentation and its tokens; a token is a word or one of the marks the
lexer looks at. Every parse function takes the lines and a position and answers with the
position after what it has consumed, as the code's do with their cursor. How far a list, a block or a
body reaches is the least position at which it stops (`Reach`); a loop is a round for each
position, and what its rounds find and report, put together (`Rounds`); the loops over a node and over the header take a
round for each line at most. There is no recursive operator among them, so that they can be reasoned about. A file is a
header and nodes; a node has typed fields (`text`, `list`, `items` of objects) and extra
fields. Errors are sequences of codes without positions. `BadWords` are words that no
enumeration accepts, `KeyOrder` the order of keys in ordered maps.

`StreamParser` has the parser's state of `stream.rs` and pushes a document in chunks cut
anywhere; the text of a chunk ends where a constant says, so that lines are cut in the
middle. `Canonical` also says which texts survive (`NodeSurvives`): those are the
condition of the round trips below, and section 5 lists what it leaves out.

### Schema, Validator, Normalizer, Ingest

`Validate` gives the set of diagnostics of the code's passes, in each of its levels.
Searches with colours (`Visit`, `VisitAll`) follow the code step by step because the
set of reported edges depends on the order. `Ingest` is a state machine: a call, one
`IngestNext` per element (schema check, builder, extraction of members, normalizer), then
`Conclude`, where the file is assembled, validated and rendered, or nothing is written.

### Workbench and the document modules

`Workbench` has one file, its two sidecars and the last command with its exit code. A
command reads what is on disk, and writes it over or prints. A write that fails
leaves the old text, or the first half of the new. `Prompt` stands between two commands.
Tables and entries that a run saves are constants (`Tables`, `Memories`).

| action | code |
|---|---|
| `Reads(ask)` with `Answer` | `validate`, `lint`, `render`, `load`, `graph`, `diff` and the `mem` commands: which exit code a command of this file gives, nothing is changed |
| `RepairCommand`, `NormalizeCommand`, `Fix` | the commands of that name: checked, printed or written over (`Puts`), asked about first where the code asks (`Confirmed`) |
| `CompileCommand` | `agm compile` |
| `RunSaves` | what a run leaves beside a valid file |
| `StateReads(ask)`, `StateImport` | the `state` commands |
| `Ask` | the user is asked for the next command |

Its operators are those of `Loader`, `Diff`, `Repair`, `Compiler`, `JsonFile`, `Sidecars`
and `Normalizer`, which are pure. The Markdown library is external: `Events` says which
events it reports of a block.

## 3. What is checked

Each run answers one question. Eleven runs pass; `log` produces the shortest trace of a
disagreement (section 5).

| run | instance | question |
|---|---|---|
| `one_process` (23,628 states) | diamond 4 -> {1,2} -> 3 or the same without 3 (file edited at any time), all commands but the reset of a node others depend on, serial and parallel, fail-fast, imports, kills, failing writes | `DependencyOrder`, `TransitionsAreLegal`, `ImplementsLifecycle`, `CommandsEnd` |
| `two_procs` (287,164) | chain of three, two processes with run / run --node / retry / keep-completed reset at once, kills | `FailureContained` although tables overwrite each other |
| `settle` (4,106) | diamond, one process at a time, runs, retries and resets of everything, concurrency 1-3, no kills | `RunSettlesEveryNode`, `CompletedNodesAreRemembered` |
| `groups` (16,182) | four nodes, three groups, four listings: phases, one sequence with a repeated node elsewhere, a dependency between two chunks, circular `requires`; kills and other commands in between | `RequiredGroupsWentFirst`, `DependenciesWentFirst`, `NothingSettledIsStarted`, `ExitZeroLeavesNothingToRun` |
| `nodes` (321,818) | diamond whose nodes create, append to and rewrite two shared files, run commands of one or two ticks (one fills its pipe, one may leave a process behind), check files, nodes, exit codes and outputs; any write may fail or stop halfway, any batch may be killed; timeout 2, batches of 2, two attempts | `CompletedEditsSurvive`, `EditsAtMostOncePerAttempt`, `ContextSeesDependencies`, `PassedChecksStillHold`, `KillsAreEarned`, `AgentsReturn` |
| `memory` (about 4.2 million) | two processes on two files, nodes that fail, write an expiring entry, or write in both scopes; garbage collection, clock to 2, kills | `ProjectMemoryIsDurable`, `NoStaleEntryReturns` |
| `store` (498,326) | a strict handle with a rotated key and a handle with a separate signature over one file of two keys, incoming files with and without an oversized value, `agm run` in between, kills and failing writes | `TrailerSignsItsBody`, `SavedFileVerifies`, `CacheIsOnDisk` |
| `bench` (265,597) | three cases with one cassette that they may write over each other, two permits, two suites in any mode, failing writes, kills | `PermitsAddUp`, `ReportTellsTheSuite`, `ReplayRepeatsRecording`, `SuitesEnd` |
| `texts` (197,061) | every sequence of up to three lines of a pool after a header, and nodes of every two of the listed fields under five headers, in chunks of 1, 5 and 16 | `AgreesWithBatch`, `EventsTellTheFile`, `FmtKeepsTheFile` |
| `ingest` (479,771) | objects of every type with up to two more members of a list, right and wrong, arrays of two, with calls of every strictness, with and without the check and the normalizer | `WrittenFileIsValid`, `EveryMemberIsKept` |
| `documents` (63,337) | good files of format 1.0 and 1.2, files that differ in one thing, cycles, synonyms, imports, what models do wrong; every document command after every other, writes that fail half way | `RewritesKeepTheNodes`, `RepairsSettle`, `CyclesAgree`, `DependenciesLead`, `DebugLoadIsClosed`, `DifferencesAreTold`, `CompiledFilesReadBack`, `SidecarsReadBack`, `JsonReadsBack` |
| `log` (violation) | `documents` with logs of several lines and with a tab | `StateReadsBack` |

`TypeOK` of each module is documentation for the runs; it is proved in `Scheduler`, `Orchestrator`,
`NodeExecution`, `MemoryStore`, `Bench` and `MemoryRuntime`.

**Properties worth a comment.**

- `DependencyOrder` says more than spec 26.4: it also demands finished dependencies of
  *ready* and *failed* nodes, in every copy of the table and on disk. It has to,
  because `ready_nodes` returns ready nodes unseen and `retry` makes failed nodes ready.
  It is the weakest form that a following command cannot break.
- `FailureContained` speaks of the whole transitive closure, while the code blocks only
  pending and ready dependents; it holds because a dependent of a node that has just failed
  can be nothing else - a consequence of the order, not of the code of `propagate_blocked`.
- `CompletedEditsSurvive` says which edits are safe by saying which are not. Appends of one batch survive each other.
  An edit can be gone if a later block replaces it on purpose, or an unordered node
  writes the file back (`MayErase`); if two unordered nodes rewrite the file, since one reads it when the other has
  emptied it (`MayMix`), and then the edits of *earlier* batches go as well; if a rewrite stopped after it had emptied the file (`lost`);
  and while an agent is between the two steps with the piece in hand (`IsBeingWritten`). `EditsAtMostOncePerAttempt` has only the second
  exception: of two texts written over each other the tail of the longer repeats what the shorter has.
- `ContextSeesDependencies` has the same exceptions for files; no agent writes while contexts are built. Topics
  count only if a later process can read them: those in the session store end with the run.
- `PassedChecksStillHold` is about checks that nothing may undo. Contents of files can be
  changed by a later node on purpose, so they are not in it.
- `KillsAreEarned` excuses a command that fills its pipe: it is killed although it would
  have had time. `AgentsReturn` excuses one that leaves a process behind, whose pipe is read
  outside the timeout (`agent.rs:371`); that state is `held`. It is stated for the whole batch: again and again no agent of it is at work.
- `SavedFileVerifies` speaks of the time until someone else writes. A kill between the two
  renames leaves a file that does not verify; the handle is closed then.
- `AgreesWithBatch` compares errors as bags, because the batch parser sorts none; where the
  lexer refuses a line the batch parser stops and the push parser goes on, and only the
  verdict and the lexer's errors are compared.
- `ReplayRepeatsRecording` speaks of the last text that came out *whole* in a cassette. Threads that
  write one file over each other may leave none, and then every case of that file must get an error.
- `FmtKeepsTheFile`, `CompiledFilesReadBack` and `WrittenFileIsValid` hold of files whose
  texts survive (`NodeSurvives`, `ReadsBack`), `JsonReadsBack` of files whose nodes are `JsonKeeps`; it
  says of the version of the format only that the major number comes back (`SameMajor`), and of everything else that it is the same.
  `SidecarsReadBack` holds of `LogKeeps` and `ValueKeeps`. These conditions are as weak as the runs allow; what they exclude is in section 5.
- `RepairsSettle` asks for no *third* repair: a second one may find quotes that the first uncovered.
- `NoStaleEntryReturns` is about whole-file flushes: an entry that was collected or
  updated between load and flush must not be written back in its old form.

**Bounds.** Four nodes in a diamond have what the rules distinguish: independent
siblings, a join, a dependency at distance two. Ids run against the dependencies
so that an error in either order shows. Concurrency 1, 2 and 3 are "serial", "batch smaller than
the candidates" and "no limit" (a diamond never has more than two candidates). Two processes suffice for lost updates, which need one
overwriting another. Nothing in `Scheduler` or `Orchestrator` counts, so their runs are over *all* sequences
of commands of any length, not up to a depth.
The bounds on behaviours are `MaxTime` of `MCMemory` (two ticks let an entry expire and be written again),
`MaxAttempts` and `Timeout` of `NodeExecution` (a second attempt shows what a first has left;
with a timeout of 2 a node of two commands fits or not), and `MaxSuites` of `Bench` (record, then replay). The cases of `bench` all share one cassette: a file of its own is the case in which
the others fail, and the theorem is about any sharing.
`Documents` and `Chunks` of `StreamParser`, `Inputs` and `Calls` of `Ingest`, and `Versions`, `RuleChoices`, `Loads`,
`Markdown`, `Tables` and `Memories` of `Workbench` bound the data: texts of one to three lines of one to
three tokens, since every parse function decides by one line and the one after it. `RunFiles` limits `documents`:
once there are sidecars, only the good files are looked at, because commands on files do not
touch sidecars. `ProseWindow` is 3 instead of 20 lines and `SummaryWords` 2 instead of 100 characters, so that short texts reach
beyond them. A failed write leaves half of the text: any piece would do, the next command parses what is there.
Symmetry is not used: ids and keys are ordered.

**Where assumptions narrow a run.** `one_process` leaves out `state reset --node` of
a dependency and edits that give an existing node new dependencies: both break
`DependencyOrder` (section 5). `two_procs`
has no fail-fast and no file edits, for size. `settle` has no kills because a kill in a parallel batch
breaks `RunSettlesEveryNode`; `CompletedNodesAreRemembered` needs no kill between
save and flush. `memory` gives the processes files of their own: two runs over one
file lose entries as the global store does. `Bench` assumes a concurrency above 0.
`CyclesAgree` is about files whose ids differ: of two nodes with one id each algorithm takes another.

**Fairness.** `CommandsEnd` is checked under `FairSpec` of `Scheduler`: weak fairness of each process's
own steps. The operating system schedules a live process, and every wait of the code
is bounded: an agent's commands are polled against the node's timeout and
killed, checks likewise, and nothing waits for a lock. `NodeExecution` shows the one
exception, a process left behind that holds the pipe. Its own `FairSpec` is weak fairness of the steps of each agent
(its thread runs and its clock ticks), with nothing for the user or the scheduler between batches. `Bench` has weak fairness of each
thread and of the report: a thread that waits is woken by `notify_one` or not at all, so no fairness helps a lost wake-up.
Nothing is assumed of kills, edits, failing writes or the user. All other properties are safety and need none.

**Deadlock** is checked wherever the system never stops: there is always another command to issue.
`nodes`, `texts` and `ingest` switch it off, because an attempt limit, a document or an input comes to its end there.

**Mutants.** For each property of each passing run, `PROJECT.json` names a variant of a
definition with which the same run fails.

## 4. What is proved

TLAPS checks the theorems below for every value of the constants that meets the assumption of the
module (plans are valid, commands and imports are well formed, lists are lists) and, where a theorem
needs more, a named assumption over constants. The instances of TLC show that these assumptions can be
met: `settle` meets those of all theorems about `Scheduler`, `one_process`
meets `OneProcess`, `OrderAssumptions` and `SoundAssumptions`, `two_procs` meets `OrderAssumptions`,
`SoundAssumptions` and `ContainmentAssumptions`.

Few of the properties are inductive. Each proof module states the invariant that is, proves one
step of it per action, and names what it adds and why. Every module begins with its types.

### Scheduler, any number of processes

**`TypeCorrect`**. Step lemmas for one process (`StepTypes`) and for
the environment (`NextTypes`), over lemmas that every tracker operator maps tables to
tables and that execution sets and batches are sets of nodes.

**`DependencyOrderHolds`**, under `OrderAssumptions`:

- versions of the file agree on `depends` (nodes may come and go);
- `state reset` with a target, or of everything under the plain `reset` command, names no
  node that another depends on (the reset of all nodes has no target and is included);
- imported tables are ordered themselves.

The first two are necessary: section 5 describes what happens without them.
`OrderInv` adds to the property what is known of a process from where it is:

- `KnownNodes`: a tracker has entries only for nodes of the file its process parsed.
  `Edges` drops dependencies outside the file; for a known node nothing that
  is needed is dropped.
- `BatchInProgress`: what is still in the batch is in progress in the tracker. Recording
  a completion then cannot be the loss of a finished dependency, and recording a
  failure cannot be that of a node somebody relied on.
- `StageMatchesCommand` and `NoTableYet`: a process that resets is a reset command, and an
  idle or starting process has the empty table, which is trivially ordered.

One lemma per change of a table (`ReconcileOrdered`, `RetryOrdered`, `StartOrdered`,
`RecordOrdered`, `ResetOrdered`) carries the argument: *reconcile* keeps the order because a
pruned dependency takes its dependents along; *start* because pending candidates have finished dependencies
and ready ones had them; *record* because the node was not done before; *block* and *reset* because
they only take nodes out of the eligible statuses. No part of the argument looks at other processes:
writing a whole ordered table over another ordered table leaves an ordered table. That is why
the property survives the missing locks.

**`TransitionsStayLegal`**, under `SoundAssumptions` (`OrderAssumptions`, and imports are sound).
The step that could break it is `propagate_blocked`, which sets statuses without
asking the state machine. A table is `Sound` if no node in it is eligible, running or done
above a failed or blocked one; `SoundInv` is `OrderInv` with every table sound. In a sound and
ordered table the node that fails has only pending or blocked nodes above it, so no
ready node is blocked.

**`FailuresStayContained`**, under `ContainmentAssumptions`: `SoundAssumptions`, one version of
the file, no reset of named nodes, and imports that are contained. `ContainInv` is `SoundInv`, the property, and
`EveryNodeKnown` (an open tracker knows every node of the file): without the last a node that comes
back into the file would be pending above a failure. Processes overwrite each other's tables
here as well, and again each table is right by itself.

### Scheduler, one process at a time

**`SidecarImplementsLifecycle`** (`OneProcess`): every step is one of `Lifecycle` or leaves the
sidecar as it is, kills, failing writes and edits of the file included. The invariant `LifeInv` says what the
tracker is at each stage in terms of the sidecar (`InStep`): what reconciling it gives, with the
batch put in progress while its agents run, and the sidecar itself between save and flush.

**`RunsSettleEveryNode`** (`SettleAssumptions`: one process, no kills or failing writes, finite
plans, contained imports without nodes in progress, where what is blocked has a failed or blocked dependency).
`SettleInv` adds to `ContainInv` that only nodes of the batch are in progress, that
dependents of a blocked node are blocked (`BlockedTogether`), and that a run over the
whole file has all its nodes in its execution set. When a run ends and a node waits, take
one of the waiting nodes with none of them below it - there is one because `depends` has no
cycles and the plan is finite. Its dependencies are settled, none failed or blocked, so it
is ready and the run would not have ended.

**`UpsertsAreRemembered`** (`MemoryAssumptions`: one process, no kills or failing writes, and no import completes a node that has
upserts). `SameMemory` says that the process's cache of the memory and the file differ only between
a record and its flush.

### Orchestrator

No assumption beyond that of the module, for all groupings and widths.

- **`SettledStaySettled`** needs `CacheInv`: the tracker is the sidecar, reconciled, with the chunk put in progress.
- **`RequiredGroupsGoFirst`** needs `GroupInv`: a group that counts as completed has no node waiting or with an agent,
  and what the current one has gone past is not waiting.
- **`DependenciesGoFirst`** needs `SeqInv` (what a sequential group has left is the rest of its list, and
  what came before is not waiting) and `TableInv`. `WellGrouped`, that a grouping respects
  `depends`, is the property's own antecedent: section 5 has what happens otherwise.
- **`ZeroLeavesNothing`** needs that a group order as long as the list of groups names every one (`GroupOrder`). It is shown
  by a least counterexample over the steps of the recursive function, since the queue has each group at most once.
- **`TypeCorrect`** rests on the same fact.

### NodeExecution

No assumption beyond that of the module, except for `ContextsSeeDependencies`. `TypeInv` and `BlockInv` (an
agent that writes or waits is at a block of that kind, and what it has read still has the
place its edit needs) hold of every agent; `AgentSteps` reduces the ten steps of an agent
to five kinds: it reads a file, empties it, puts its piece into it, drops what it has read, or changes no text.
What a step leaves in a file is said by lemmas over texts: an edit adds its piece and takes away only what it replaces
(`EditKeeps`), a text over another has at most the pieces of both (`OverlayKeeps`), a part of it no more than that (`PartsKeep`).

- **`PassedChecksLast`** needs `CheckInv`, the property with "and the node of the check exists"; it is
  stable because a completed node stays completed and no write removes a file.
- **`EditsAddUp`** needs `CountInv`: the count of a piece is bounded in *every* text that an edit can end
  up in, the file and what agents have read of it, by the attempts that may already have applied the
  block (`Allowed`), and the *sum* of both for an agent that has emptied the file and will put its text over what others append
  meanwhile. Without the texts in memory a stale write-back would go unnoticed.
- **`CompletedEditsStay`** needs `OrderInv` (dependencies of what runs are completed, so the nodes of a batch are
  unordered), `DoneInv` (an agent that succeeded is past its last block) and `SurviveInv`: every block that
  an agent is past is excused (`MayErase`, `MayMix` or `lost`), or it is in the file, or in the hands of an agent about to write it,
  *and in every text read for the file*. The second part is what carries it over an emptied file: the one that
  empties has the piece in what it has read. Whoever else rewrites the file then is in the same batch, and so unordered: `MayMix`.
  A kill or a failing write while the file is empty puts the piece into `lost`, until its node has written it again.
- **`KillsAreSound`** needs `TimeInv`: the time that an agent has spent is at most what its commands so far need, as sums over its blocks.
- **`ContextsSeeDependencies`** under `SizeAssumptions`: sizes are numbers, and no text of a file is longer
  than the property reckons with. It needs `StoreInv` (what completed nodes upsert for later runs is in the stores), `OrderInv` and
  `CompletedEditsSurvive`, which is a theorem here: a ready node has all its ancestors completed. The rest is about lists:
  the prompt that is built has no section that the reckoned one lacks, in the same order and none
  longer (`SmallerPrompt`, `PartOfTotal`), so one that fits is not cut (`NothingTruncated`).

### MemoryStore, Bench, MemoryRuntime

- **`TrailersSignTheirBody`** is inductive with the types: a trailer is written only together with the body it signs.
- **`CachesAreOnDisk`** and **`SavedFilesVerify`** need `SaveInv`: a handle signs and writes the cache it has, and
  the last writer's file is what it saved. The second assumes `OneSeparateSignature`; two handles with one
  separate signature file overwrite each other's (section 5).
- **`PermitsAlwaysAddUp`** needs `PermitInv`: free permits and threads in flight add up to the concurrency, counted as a finite set.
- **`ReplaysRepeat`** needs `TapeInv`: what a case has on record is what its cassette still gives it, also when cases share one, empty it,
  write over each other and fail or are killed meanwhile; a torn file gives nobody anything (`TearTapes`).
- **`ReportsTellTheSuite`** needs `ResInv`: one result per case that has recorded, and the two counters are counts of results.
  The median is a matter of counting (`OrderStatistic`): at least k results do not exceed the k-th latency and fewer
  than k are under it, so the rounded index splits them (`Percentiles`).
- **`ProjectMemoryLasts`** and **`NoEntryReturns`** assume `OnePerFile`: no two processes on one file. TLC finds both
  violated when there are. `CacheInv`: a cache has the entries of the file except while it is flushed, and then only newer ones.

### StreamParser

No assumption beyond those of the module: documents are finite lists of lines, chunks are counted in half lines.
The theorems hold for every document, well formed or not, and every cutting into chunks.

The push parser calls the functions of the batch parser on the lines it has buffered, the batch parser on the lines of the
whole file; `stream.rs:95` promises that this comes to the same, and tests look at a few documents. The proof has three parts.

- **A section is parsed from its own lines** (`ParseHeaderMoves`, `ParseNodeMoves`). `Window(ls, w, d)`: w are the lines
  of ls after the first d, up to the end or to a node declaration. Each function of the parser, from `Reach` up to
  the loops over a node, gives in w at p what it gives in ls at d + p, and stops inside w or just after it
  (the lemmas `...Moves`, one per function). This is where it matters that every look-ahead (after blank lines,
  for the indentation of a block, for the first item of a list) stops at a node declaration: one that looked further would see the
  next node in the file and the end of the buffer in the push parser.
- **Between two lines** (`Good`). What is buffered is one section. What has been parsed, put before what the batch parser makes of the file
  from the buffered section on, is what it makes of the whole file (`AllOf`). The events tell of as many nodes and errors as have been parsed,
  with a started node exactly while one is buffered (`Tells`). Of the lines that the lexer refused, no error is missing (`AtLeast`).
- **At the end** (`Ends`). `finish` feeds a last line without its newline, closes the section, and reports an empty file: the header, the nodes
  and, of each code, the number of errors are the batch parser's. Only the number, because the batch parser reports
  an empty file after the errors of the header and `finish` does so before those of a header that was never begun.

`IInv` is `Good` while chunks arrive, with as many lines taken as the text that was sent has line ends, and `Ends` after `finish`.
From it follow **`TypeCorrect`**, **`PushAgreesWithBatch`** (property `AgreesWithBatch`) and **`ToldTheFile`** (`EventsTellTheFile`).
The property itself is not inductive: it says nothing before the end.

`ListTheorems` has what several of these keep needing: lists and the sets of their elements, the
list of a set of numbers in order (`InIdOrder`, `InNameOrder`), sums, and that a set of numbers has a least
one, which stands in for induction.

### What is only model-checked

- *Liveness*: `CommandsEnd`, `AgentsReturn`, `SuitesEnd`. Fairness and ENABLED are out of the prover's reach.
- *Round trips*: `FmtKeepsTheFile` of `StreamParser`. It compares a file with what the parser makes of the text that the renderer makes of it, for some
  thirty forms of fields. A proof would be an induction over the fields of a node and the lines of each text; induction over data is
  out of the provers' reach, and the step for each form would be a proof as long as that of the parser.
- *`Ingest`*: `WrittenFileIsValid` and `EveryMemberIsKept`. They reach `Validator`, whose search for circular references is the
  code's depth-first search as a RECURSIVE operator, and no theorem can be stated in a module that reaches one. The first also contains a round trip.
- *`Workbench`*: all its properties. They compare results of recursive operators (`Validator`, `Graph`, `Repair`, `Compiler`) and of round trips.

## 5. Where code and documents disagree

One disagreement has a run, `log`. The scheduler saves what the agent printed, a line
`---` and the log of the checks as the execution log of a node, and `render_state` writes it after
`execution_log:` as it is, against its comment that what it writes reads back. With two lines the
second is lost. A line like `retry_count: 7` changes another field, a line `state c` adds a node
or makes the sidecar unreadable, and so does a tab: the next command then refuses the file.

The others below came up while modelling. They are what the preconditions of sections 3
and 4 exclude.

*Runtime.*

- `state reset --node` puts a finished dependency back to pending and leaves its dependents; after `retry`
  a failed dependent runs while its dependency is pending (`state_cmd.rs:161`, `retry.rs:61`, `state.rs:440`; spec 26.4:
  "MUST NOT transition a node to `in_progress` unless all nodes in its `depends` list are `completed` or `skipped`").
- A kill in a parallel batch leaves siblings `in_progress` on disk; they are never ready
  again and the next run ends without them (`scheduler.rs:386`; spec 27.2: loop until all are settled).
- After a successful retry what was blocked stays blocked (`retry.rs:61`; spec 26.4: "blocked -> ready (when failed dependency is
  retried and succeeds)").
- When a leaf failed in an earlier run, `agm run` does nothing and exits 0 (`run.rs:83`; `docs/api.md:398`: all nodes succeeded).
- `--group` starts a node whose dependency in another group is pending (`scheduler.rs:829`; spec 26.4).
- `--group` of a group with `requires` is always refused, because only groups of the same call count
  (`scheduler.rs:668`; spec 13.10).
- Each process writes back its own copy of the global store and erases what others stored
  (`memory.rs:679`; spec 28.5).
- A node that a kill leaves in progress makes a later sequential `--group` fail with an
  invalid transition (`AbortRun`), which ends the whole run without `--fail-fast`,
  against the comment on `RunConfig.fail_fast`.
- `docs/api.md` says that on `--fail-fast` the remaining nodes keep their state; the
  dependents of the failed node are blocked before the run stops (`scheduler.rs:212`).
- Adding a dependency to a node that is already ready has no effect: the node is dispatched as it is.
- A dependency on an imported node has no edge in the graph of a run (`graph/build.rs:169`), so nobody waits for it.
- A kill between `tracker.save()` and `memory.flush()` leaves a completed node whose upserts are lost, and
  the node is never run again. Two concurrent runs can give one node to two agents.
- `propagate_blocked` takes ready nodes to blocked, which `ValidTransition` does not
  have. A reset of a dependency, or an import, is needed to reach it.
- Entries with time to live `session` never expire in the project and global stores,
  although the documents say they expire when the run completes.
- The `delete` and `list` memory actions of a node are parsed and never executed.
- An agent empties a file before it writes it (`agent.rs:228-309`, `fs::write`). A write that fails, or a kill, leaves it
  without the edits of nodes that are completed and will not run again; `agm retry` then works on what is left. Another agent
  of the batch that reads the file just then writes it back without them, and both succeed. The sidecars are written to a temporary file
  and renamed; the files that nodes edit are not.
- The comment on the `Agent` trait says that the scheduler enforces the timeout as well; it does not. A process left in the background makes
  the node wait beyond any timeout.

*Memory store and bench.*

- Two handles that keep their signatures in the same separate file can leave the body of one under the signature of the
  other, when both are between the two renames of a save (`filesystem.rs:54`).
- A kill between the rename of `.agm.mem.sig` and that of the body makes a strict store unopenable
  (`filesystem.rs:54`: "Writes are atomic"). `agm run` drops the trailing signature of a file.
- A value with a blank line does not read back from `.agm.mem`.
- The structured answer of a tool call is JSON and is handed to the parser of AGM texts, so it never parses.
- `schema_rate` leaves out cases that fit the schema and fail later; exit code 4 is never returned; exit code 2 stands for "all failed" even
  when some were errors; `max_retries` is unused; a concurrency of 0 hangs; the cases `a/b` and `a_b` share a cassette,
  and when both are recorded at once the shorter text can lie over the longer: the file does not parse and the replay of both is an error (`cassette.rs:126`).

*Texts.*

- The canonical form does not keep every file (`canonical.rs:4`): a text block holding a line like `key: value`, a comment or a node
  declaration is read back as something else, an empty summary and an empty list disappear, texts in objects are
  written on the line of their key whatever they hold, the last block list of a group takes the dash of the next group.
- `parse` reports only the lexer's errors when there are any, the push parser all.
- A comment inside a structured list or object ends it; `agent_context:` without sub-fields swallows the node fields that follow.
- A list or block given for a field that takes a scalar becomes an extra field of that name and is then written twice (P006).
- Lines of a block indented less than its first lose their leading characters. Tabs are refused everywhere, in texts too.
- `agm ingest --type entity` is refused at `standard` and `strict`, whatever the object holds: the builder puts `fields` into the extra
  fields (`one.rs:226`), and the check of required fields looks at the typed ones only (`enforcement.rs:14`), so that V024 is reported.
- `agm ingest` loses members: fields a type's builder does not set, the second of two synonyms, a line range
  in `load_files` (it becomes "full"). Types without a builder put relations and structured values into extra fields, whose synonyms are then not known.
  A check of an unknown type becomes a command. `IngestConfig.enforcement` is unused.
- A profile filter on `tags` never matches tags with capitals.
- The compiler loses text before the first heading and the outer text of nested lists, writes the order of relations in that of a hash map, makes the invalid id
  `prefix.` of an empty heading, loses code and relations of nodes it merges, and `--validate` looks at the tree and not at the text.
- JSON drops the fields of tickets and the minor number of the format (`agm: 1.2` comes back as 1.0, `json_canonical.rs:216`, `:408`); block-valued extra fields come back as scalars, "007" as "7"; an extra field
  named like a known key overwrites it.
- Repair: a header that begins with `title:` loses lines to the rule against prose; prose before a fenced document is
  rolled back; quotes inside a fence and a body that begins with `*` are rewritten only the second time; bullets in a
  block turn text into a list. `repair --check` answers 1 even when the repair would be rolled back, `normalize --check` 0 although
  the file would be reformatted. `.agm-normalize.yaml` is not read by `agm fix`.
- Diff leaves out the fields of tickets, the order of most lists, and the order and duplication of nodes.
- The longest package name that fits decides a reference, so one package can hide another's node; the search for circular
  imports goes by name and misses a cycle through a second version.

## 6. What is not modelled

- *The language server*: it answers each request from the text last received; the order
  in which it publishes is decided by its library.
- *The fixed name of the temp file* of two simultaneous saves: a save is one step.
- *Signature algorithms, HTTP, the Markdown library, regular expressions, version constraints* - their answers are constants or symbols.
- *Characters*: words stand for runs of them, so what happens inside a word (escapes, Unicode,
  truncation in the middle of a character) is not looked at.
- *Positions and wording* of diagnostics and reports.
- The *node and session memory scopes*: no other process can see them.
- *Markdown, graph and table output, argument parsing, corpus, self-update, dry runs*: nothing reads them back.

## 7. Plan

Done: all the modules above, and the theorems of section 4: every safety property of the runtime, the memory store, the bench runner
and the push parser that a run checks is proved, but for the round trip. Left, in this order:

1. `Ingest`: with the searches of `Validator` as recursive functions, or with `Validate` as a constant operator, that nothing is written
   before it was validated and that every member is kept can be proved; neither depends on what validation finds.
2. `Canonical`: the round trip of one form of field at a time, as lemmas, beginning with scalars and lists.
3. `StateSave`: two processes in `save_state` with the fixed temporary name, against an atomic cell.
4. The language server, once what its library runs at once is settled.

A violation run gives way when a deeper question needs its place.
