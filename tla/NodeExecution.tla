----------------------------- MODULE NodeExecution -----------------------------
(***************************************************************************)
(* What happens between the dispatch of a node and its new status: the     *)
(* context builder, the shell agent, the memory actions and the verifier   *)
(* (crates/agm-cli/src/runtime: context.rs, agent.rs, verifier.rs and the  *)
(* middle of scheduler.rs).  Scheduler takes all of this as one answer,    *)
(* success or failure; here the agents of a batch run at the same time,    *)
(* one block after the other, on the same working directory.               *)
(*                                                                         *)
(* A file is a sequence of pieces of text; a block writes one piece, its   *)
(* own <<node, block>>.  To rewrite a file an agent empties it and then    *)
(* writes it from its start; the others can read and write in between, and *)
(* each step may fail and end the node.                                    *)
(*                                                                         *)
(* A command is what it does to the agent: how long it takes, whether it   *)
(* fills the pipe nobody reads while it runs, whether it leaves a process  *)
(* behind that keeps the pipe open, and how it exits.                      *)
(*                                                                         *)
(* A definition marked "variant" is not the code's: it is a plausible slip *)
(* in the definition after it, kept to show that a property notices it.    *)
(***************************************************************************)
EXTENDS Integers, Sequences, SequencesExt, FiniteSetsExt

CONSTANTS
    Node,         \* node ids, as integers in the order of the ids
    Depends,      \* the `depends` of each node
    Blocks,       \* `code` and `code_blocks` of each node
    Checks,       \* `verify` of each node
    Upserts,      \* `memory` of each node: the pairs <<scope, topic>> it upserts
    AgentContext, \* `agent_context` of each node
    File,         \* targets in the working directory
    SizeOf(_),    \* the length of the text of a section of a prompt
    Timeout,      \* config.timeout
    Concurrency,  \* config.concurrency
    MaxAttempts   \* bound on the attempts of a node

FileAction ==
    {"create", "full", "append", "prepend", "replace", "insert_before", "insert_after"}

ASSUME NodeExecutionAssumption ==
    /\ Node \subseteq Nat /\ IsFiniteSet(Node) /\ Depends \in [Node -> SUBSET Node]
    /\ \A n \in Node : \A d \in Depends[n] : d < n
    /\ Timeout \in Nat /\ Concurrency \in Nat \ {0} /\ MaxAttempts \in Nat \ {0}
    /\ \A n \in Node : Blocks[n] \in Seq(ToSet(Blocks[n]))
    /\ \A n \in Node : \A b \in ToSet(Blocks[n]) :
          IF b.action = "command" THEN b.needs \in Nat
                                  ELSE b.action \in FileAction /\ b.target \in File
    /\ \A n \in Node : \A check \in ToSet(Checks[n]) :
          check.kind = "file_exists" => check.file \in File
    /\ \A n \in Node : \A wanted \in ToSet(AgentContext[n]) :
          /\ AgentContext[n] = <<wanted>> /\ wanted.max_tokens \in Nat
          /\ wanted.system_hint \in Seq(ToSet(wanted.system_hint))
          /\ wanted.load_nodes \in Seq(ToSet(wanted.load_nodes))
          /\ wanted.load_files \in Seq(ToSet(wanted.load_files))
          /\ wanted.load_memory \in Seq(ToSet(wanted.load_memory))

VARIABLES
    fs,        \* the working directory: each file's pieces, or NoFile
    status,    \* status of each node in the tracker
    attempts,  \* how often each node was dispatched
    batch,     \* the nodes of the running batch not yet recorded, in order
    agent,     \* the agent working on each node
    memory,    \* the pairs <<scope, topic>> in the stores of the running process
    context,   \* the prompt each node was dispatched with
    lost       \* history: pieces that a rewrite which failed or was killed has dropped

vars == <<fs, status, attempts, batch, agent, memory, context, lost>>

NoFile == <<<<0, 0>>>>
IsThere(f) == fs[f] # NoFile

Occurrences(text, piece) == {i \in DOMAIN text : text[i] = piece}

(***************************************************************************)
(* Context.                                                                *)
(***************************************************************************)
Sections(kind, refs) == [i \in DOMAIN refs |-> <<kind, refs[i]>>]

\* A set of nodes in the order of the ids: the k-th is the one with k of them up to it.
InIdOrder(S) ==
    [k \in 1 .. Cardinality(S) |-> CHOOSE n \in S : Cardinality({m \in S : m <= n}) = k]

\* The nodes that a node depends on, over one or more others too: the least set
\* that holds its `depends` and is closed under `depends`.
Ancestors ==
    [n \in Node |->
        {m \in Node :
            \A S \in SUBSET Node :
                (Depends[n] \subseteq S /\ \A x \in S : Depends[x] \subseteq S) => m \in S}]

\* A missing file gives a section too: the text of the error.
FileSections(files) == [i \in DOMAIN files |-> <<"file", files[i], fs[files[i]]>>]

KnownTopics == {u[2] : u \in memory}

\* variant: a topic without entries ends the list
TopicsUpToMissing(topics) ==
    Sections("memory", SelectSeq(topics, LAMBDA t :
        \A i \in 1 .. Min(Occurrences(topics, t)) : topics[i] \in KnownTopics))

\* A topic without entries gives no section.
MemorySections(topics) ==
    LET found == InIdOrder({i \in DOMAIN topics : topics[i] \in KnownTopics})
    IN  Sections("memory", [k \in DOMAIN found |-> topics[found[k]]])

DefaultContext(n) == <<<<"node", n>>>> \o Sections("dependency", InIdOrder(Depends[n]))

Total(numbers) ==
    LET upTo[k \in 0 .. Len(numbers)] == IF k = 0 THEN 0 ELSE upTo[k - 1] + numbers[k]
    IN  upTo[Len(numbers)]

\* A token is taken for four bytes.
TotalSize(sections) == Total([k \in DOMAIN sections |-> SizeOf(sections[k])]) \div 4

\* The last sections go first, and the first one never does.
TruncateToBudget(sections, budget) ==
    SubSeq(sections, 1,
           Max({1} \cup {k \in DOMAIN sections :
                            TotalSize(SubSeq(sections, 1, k)) <= budget}))

ExplicitContext(n, wanted) ==
    LET loaded == ToSet(wanted.load_nodes) \cup {n}
    IN  TruncateToBudget(
            Sections("hint", wanted.system_hint)
              \o <<<<"node", n>>>>
              \o Sections("dependency", wanted.load_nodes)
              \o Sections("summary", InIdOrder(Ancestors[n] \ loaded))
              \o FileSections(wanted.load_files)
              \o MemorySections(wanted.load_memory),
            wanted.max_tokens)

\* `agent_context` is a sequence of at most one.
BuildContext(n) ==
    IF AgentContext[n] = <<>> THEN DefaultContext(n)
                              ELSE ExplicitContext(n, AgentContext[n][1])

(***************************************************************************)
(* Dispatch: the first ready nodes, in the order of their ids, get their   *)
(* contexts and then their agents.                                         *)
(***************************************************************************)

NewAgent == [block |-> 1, phase |-> "next", buffer |-> <<>>, spent |-> 0, ran |-> 0, ok |-> TRUE]

Ready == {n \in Node : /\ status[n] \in {"pending", "ready"}
                       /\ \A d \in Depends[n] : status[d] = "completed"}

StartBatch ==
    /\ batch = <<>> /\ Ready # {}
    /\ LET order == InIdOrder(Ready)
           chosen == SubSeq(order, 1, Min({Concurrency, Len(order)}))
           started == ToSet(chosen)
       IN  /\ batch' = chosen
           /\ status' = [n \in Node |-> IF n \in started THEN "in_progress" ELSE status[n]]
           /\ attempts' = [n \in Node |-> IF n \in started THEN attempts[n] + 1 ELSE attempts[n]]
           /\ agent' = [n \in Node |-> IF n \in started THEN NewAgent ELSE agent[n]]
           /\ context' = [n \in Node |-> IF n \in started THEN BuildContext(n) ELSE context[n]]
    /\ UNCHANGED <<fs, memory, lost>>

(***************************************************************************)
(* The shell agent.                                                        *)
(***************************************************************************)
Working(n) == n \in ToSet(batch) /\ agent[n].phase # "done"
Block(n) == Blocks[n][agent[n].block]
AtBlock(n, phase) == Working(n) /\ agent[n].phase = phase /\ agent[n].block \in DOMAIN Blocks[n]

Proceed(n) == [agent[n] EXCEPT !.block = @ + 1, !.phase = "next", !.buffer = <<>>, !.ran = 0]

\* variant: the agent starts over
StartOver(n) == NewAgent

\* variant: the agent tries the block again
TryAgain(n) == [agent[n] EXCEPT !.phase = "next"]

Stop(n) == [agent[n] EXCEPT !.phase = "done", !.ok = FALSE]

GiveUp(n) == agent' = [agent EXCEPT ![n] = Stop(n)]

\* What a file action needs of its target: `create` a name that is free,
\* `replace` its text exactly once, the insertions an anchor.
Applies(b) ==
    CASE b.action = "create" -> ~IsThere(b.target)
      [] b.action = "replace" -> /\ IsThere(b.target)
                                 /\ Cardinality(Occurrences(fs[b.target], b.at)) = 1
      [] b.action \in {"insert_before", "insert_after"} ->
            IsThere(b.target) /\ Occurrences(fs[b.target], b.at) # {}
      [] OTHER -> TRUE

\* What it writes, given what it has read.
Edited(b, text, piece) ==
    CASE b.action \in {"create", "full"} -> <<piece>>
      [] b.action = "append" -> Append(text, piece)
      [] b.action = "prepend" -> <<piece>> \o text
      [] b.action = "replace" -> ReplaceAt(text, Min(Occurrences(text, b.at)), piece)
      [] b.action = "insert_before" -> InsertAt(text, Min(Occurrences(text, b.at)), piece)
      [] b.action = "insert_after" -> InsertAt(text, Min(Occurrences(text, b.at)) + 1, piece)

TextOf(f) == IF IsThere(f) THEN fs[f] ELSE <<>>

\* variant: `append` reads the file and writes it back, as `prepend` does
NeverInPlace(b) == FALSE

\* `append` opens the file for appending and is a single write.
AppendsInPlace(b) == b.action = "append"

Own(n) == <<n, agent[n].block>>

\* An append that fails may have made the file, or left less than its piece in it.
AppendBlock(n) ==
    /\ AtBlock(n, "next") /\ AppendsInPlace(Block(n))
    /\ LET f == Block(n).target
       IN  \/ /\ fs' = [fs EXCEPT ![f] = Append(TextOf(f), Own(n))]
              /\ agent' = [agent EXCEPT ![n] = Proceed(n)]
              /\ lost' = lost \ {Own(n)}
           \/ /\ fs' \in {fs, [fs EXCEPT ![f] = TextOf(f)]}
              /\ GiveUp(n)
              /\ UNCHANGED lost
    /\ UNCHANGED <<status, attempts, batch, memory, context>>

\* Every other file action looks at its target first and writes it later, unless it
\* does not apply or the file cannot be read.
ReadTarget(n) ==
    /\ AtBlock(n, "next") /\ Block(n).action \in FileAction /\ ~AppendsInPlace(Block(n))
    /\ \/ /\ Applies(Block(n))
          /\ agent' = [agent EXCEPT ![n].phase = "write", ![n].buffer = TextOf(Block(n).target)]
       \/ GiveUp(n)
    /\ UNCHANGED <<fs, status, attempts, batch, memory, context, lost>>

\* Opening a file to write it empties it.
EmptyTarget(n) ==
    /\ AtBlock(n, "write")
    /\ \/ /\ fs' = [fs EXCEPT ![Block(n).target] = <<>>]
          /\ agent' = [agent EXCEPT ![n].phase = "writing"]
       \/ UNCHANGED fs /\ GiveUp(n)
    /\ UNCHANGED <<status, attempts, batch, memory, context, lost>>

\* A text written from the start of a file takes the place of what others have put there
\* since it was emptied, as far as it goes: the piece at its end is torn.
Overlay(text, under) ==
    {text \o SubSeq(under, k + 1, Len(under)) :
        k \in {i \in 0 .. Len(under) : i = 0 => text = <<>> \/ under = <<>>}}

\* Only a part of the text is written.
PartsOver(text, under) ==
    UNION {Overlay(SubSeq(text, 1, j), under) : j \in 0 .. Len(text) - 1}

WriteTarget(n) ==
    /\ AtBlock(n, "writing")
    /\ LET f == Block(n).target
           text == Edited(Block(n), agent[n].buffer, Own(n))
       IN  \/ /\ \E new \in Overlay(text, TextOf(f)) : fs' = [fs EXCEPT ![f] = new]
              /\ agent' = [agent EXCEPT ![n] = Proceed(n)]
              /\ lost' = lost \ {Own(n)}
           \/ /\ \E new \in PartsOver(text, TextOf(f)) :
                    /\ fs' = [fs EXCEPT ![f] = new]
                    /\ lost' = lost \cup (ToSet(agent[n].buffer) \ ToSet(new))
              /\ GiveUp(n)
    /\ UNCHANGED <<status, attempts, batch, memory, context>>

\* A command gets what is left of the time of its node.
Spawn(n) ==
    /\ AtBlock(n, "next") /\ Block(n).action = "command"
    /\ agent' = [agent EXCEPT ![n].phase = "polling"]
    /\ UNCHANGED <<fs, status, attempts, batch, memory, context, lost>>

\* variant: the agent sleeps once more before it looks
SeenLate(n) == agent[n].ran > Block(n).needs /\ ~Block(n).fills

\* A child that fills a pipe waits for a reader that comes after its exit.
HasExited(n) == agent[n].ran >= Block(n).needs /\ ~Block(n).fills

OverTime(n) == agent[n].spent > Timeout

Tick(n) ==
    /\ AtBlock(n, "polling") /\ ~HasExited(n) /\ ~OverTime(n)
    /\ agent' = [agent EXCEPT ![n].spent = @ + 1, ![n].ran = @ + 1]
    /\ UNCHANGED <<fs, status, attempts, batch, memory, context, lost>>

Kill(n) ==
    /\ AtBlock(n, "polling") /\ ~HasExited(n) /\ OverTime(n)
    /\ GiveUp(n)
    /\ UNCHANGED <<fs, status, attempts, batch, memory, context, lost>>

ChildExits(n) ==
    /\ AtBlock(n, "polling") /\ HasExited(n)
    /\ \E held \in Block(n).holds :
          agent' = [agent EXCEPT ![n].phase = IF held THEN "held" ELSE "reading"]
    /\ UNCHANGED <<fs, status, attempts, batch, memory, context, lost>>

\* wait_with_output reads to the end of the pipe, without a time limit: a
\* process that the command has left behind holds it open.
ReadOutput(n) ==
    /\ AtBlock(n, "reading")
    /\ \E code \in Block(n).exits :
          agent' = [agent EXCEPT ![n] = IF code = 0 THEN Proceed(n) ELSE Stop(n)]
    /\ UNCHANGED <<fs, status, attempts, batch, memory, context, lost>>

Answer(n) ==
    /\ Working(n) /\ agent[n].phase = "next" /\ agent[n].block \notin DOMAIN Blocks[n]
    /\ agent' = [agent EXCEPT ![n].phase = "done"]
    /\ UNCHANGED <<fs, status, attempts, batch, memory, context, lost>>

(***************************************************************************)
(* The verifier.                                                           *)
(***************************************************************************)
\* What a shell command shows: an exit code and an output, or that it was killed.  An
\* output is the set of the texts that occur in the part of it that is kept, a regular
\* expression the set of the texts that it matches, and what is none matches nothing.
CommandPasses(check) ==
    /\ ~check.fills /\ check.needs <= Timeout
    /\ CASE check.expect = "exit_code_0" -> check.exit = 0
         [] check.expect = "exit_code_nonzero" -> check.exit # 0
         [] check.expect = "output_contains" -> check.text \in check.output
         [] check.expect = "output_matches" -> check.regex \cap check.output # {}
         [] OTHER -> FALSE

\* A file that cannot be read contains nothing.
HasText(f, piece) == IsThere(f) /\ Occurrences(fs[f], piece) # {}

\* variant: a check on a node that has not run yet passes
StatusNotFailed(check) == check.node \in Node /\ status[check.node] # "failed"

NodeStatusPasses(check) == check.node \in Node /\ status[check.node] = check.status

Passes(check) ==
    CASE check.kind = "command" -> CommandPasses(check)
      [] check.kind = "file_exists" -> IsThere(check.file)
      [] check.kind = "file_contains" -> HasText(check.file, check.pattern)
      [] check.kind = "file_not_contains" -> ~HasText(check.file, check.pattern)
      [] check.kind = "node_status" -> NodeStatusPasses(check)

VerifyNode(n) == \A check \in ToSet(Checks[n]) : Passes(check)

(***************************************************************************)
(* The third phase: once every agent has answered, the results are         *)
(* recorded one node after the other.  What the node of a successful agent *)
(* upserts is kept whatever the verifier says.                             *)
(***************************************************************************)
Dependents(n) == {m \in Node : n \in Ancestors[m]}

\* The node's own store is emptied before anyone can read it.
Remembered(n) == {u \in Upserts[n] : u[1] # "node"}

AllAnswered == \A n \in ToSet(batch) : agent[n].phase = "done"

RecordResult ==
    /\ batch # <<>> /\ AllAnswered
    /\ LET n == Head(batch)
           passed == agent[n].ok /\ VerifyNode(n)
       IN  /\ memory' = IF agent[n].ok THEN memory \cup Remembered(n) ELSE memory
           /\ status' = [m \in Node |->
                 IF m = n THEN (IF passed THEN "completed" ELSE "failed")
                 ELSE IF /\ ~passed /\ m \in Dependents(n)
                         /\ status[m] \in {"pending", "ready"}
                      THEN "blocked" ELSE status[m]]
    /\ batch' = Tail(batch)
    /\ UNCHANGED <<fs, attempts, agent, context, lost>>

\* The session store is gone with the process of the run.
EndOfSession == memory' = {u \in memory : u[1] # "session"}

\* `agm retry`.
Retry(n) ==
    /\ batch = <<>> /\ status[n] = "failed" /\ attempts[n] < MaxAttempts
    /\ status' = [status EXCEPT ![n] = "ready"]
    /\ EndOfSession
    /\ UNCHANGED <<fs, attempts, batch, agent, context, lost>>

\* `agm state reset --node` of a node that a failure had blocked, or that a killed run
\* has left in progress.
Release(n) ==
    /\ batch = <<>> /\ status[n] \in {"blocked", "in_progress"} /\ attempts[n] < MaxAttempts
    /\ \A d \in Depends[n] : status[d] = "completed"
    /\ status' = [status EXCEPT ![n] = "pending"]
    /\ EndOfSession
    /\ UNCHANGED <<fs, attempts, batch, agent, context, lost>>

\* The pieces that an agent has read, taken out of its file and not written back.
InHand(n) ==
    IF AtBlock(n, "writing") THEN ToSet(agent[n].buffer) \ ToSet(TextOf(Block(n).target)) ELSE {}

\* The run is killed while agents work or between two results.  The nodes of the batch
\* that are not recorded are in the sidecar as they were before it or, if another one
\* was saved since, in progress.
Crash ==
    /\ batch # <<>> /\ \A n \in ToSet(batch) : attempts[n] < MaxAttempts
    /\ batch' = <<>>
    /\ \E left \in {"pending", "ready", "in_progress"} :
          status' = [n \in Node |-> IF n \in ToSet(batch) THEN left ELSE status[n]]
    /\ lost' = lost \cup UNION {InHand(n) : n \in Node}
    /\ EndOfSession
    /\ UNCHANGED <<fs, attempts, agent, context>>

AgentStep(n) ==
    \/ AppendBlock(n) \/ ReadTarget(n) \/ EmptyTarget(n) \/ WriteTarget(n)
    \/ Spawn(n) \/ Tick(n) \/ Kill(n) \/ ChildExits(n) \/ ReadOutput(n)
    \/ Answer(n)

Init ==
    /\ fs = [f \in File |-> NoFile]
    /\ status = [n \in Node |-> IF Depends[n] = {} THEN "ready" ELSE "pending"]
    /\ attempts = [n \in Node |-> 0]
    /\ batch = <<>>
    /\ agent = [n \in Node |-> [NewAgent EXCEPT !.phase = "done"]]
    /\ memory = {} /\ lost = {}
    /\ context = [n \in Node |-> <<>>]

Next ==
    \/ StartBatch
    \/ \E n \in Node : AgentStep(n)
    \/ RecordResult
    \/ Crash
    \/ \E n \in Node : Retry(n) \/ Release(n)

Spec == Init /\ [][Next]_vars

\* A thread that can go on does, and so does time.
FairSpec == Spec /\ \A n \in Node : WF_vars(AgentStep(n))

-------------------------------------------------------------------------------
Status == {"pending", "ready", "in_progress", "completed", "failed", "blocked"}

\* Every variable has its type (the structures of agent.rs and context.rs).
TypeOK ==
    /\ \A f \in File : IsThere(f) => \A i \in DOMAIN fs[f] : fs[f][i] \in Node \X Nat
    /\ status \in [Node -> Status] /\ attempts \in [Node -> 0 .. MaxAttempts]
    /\ batch \in Seq(Node) /\ Len(batch) <= Concurrency
    /\ \A n \in Node :
          /\ agent[n].block \in 1 .. Len(Blocks[n]) + 1
          /\ agent[n].phase \in {"next", "write", "writing", "polling", "reading", "held", "done"}
          /\ {agent[n].spent, agent[n].ran} \subseteq Nat /\ agent[n].ok \in BOOLEAN
          /\ n \in ToSet(batch) => status[n] = "in_progress"
    /\ lost \subseteq Node \X Nat

IsFileBlock(n, i) == i \in DOMAIN Blocks[n] /\ Blocks[n][i].action \in FileAction
Unordered(n, m) == n # m /\ n \notin Ancestors[m] /\ m \notin Ancestors[n]

\* The nodes with a block that takes the text of block i of n away on purpose, or that
\* may run at the same time as n and write back a text they have read before.
Erasers ==
    [n \in Node |-> [i \in DOMAIN Blocks[n] |->
        {m \in Node : \E j \in DOMAIN Blocks[m] :
            LET b == Blocks[m][j]
            IN  /\ IsFileBlock(n, i) /\ IsFileBlock(m, j) /\ b.target = Blocks[n][i].target
                /\ \/ b.action = "full" /\ <<m, j>> # <<n, i>>
                   \/ b.action = "replace" /\ b.at = <<n, i>>
                   \/ b.action # "append" /\ Unordered(n, m)}]]

MayErase(n, i) == \E m \in Erasers[n][i] : attempts[m] > 0

WritesBack(b) == b.action \in {"prepend", "replace", "insert_before", "insert_after"}

Rewriters ==
    [f \in File |-> {m \in Node : \E j \in DOMAIN Blocks[m] :
                        WritesBack(Blocks[m][j]) /\ Blocks[m][j].target = f}]

\* Two nodes that may run at the same time have rewritten a file: one of them can have
\* read it when it was empty, or have written its text over that of the other.
MayMix(f) ==
    \E m1, m2 \in Rewriters[f] : Unordered(m1, m2) /\ attempts[m1] > 0 /\ attempts[m2] > 0

\* The node whose agent has the piece in hand is about to write it.
IsBeingWritten(f, piece) ==
    \E m \in Node : AtBlock(m, "writing") /\ Block(m).target = f /\ piece \in ToSet(agent[m].buffer)

\* What a completed node has written is in the working directory, although
\* agents of a batch edit the same files at the same time, writes fail, runs are
\* killed and nodes are retried: appends of one batch do not lose each other, and no
\* edit is lost except to a block that replaces it, to unordered nodes that rewrite the
\* file, or to a rewrite that stopped after it had emptied the file.
CompletedEditsSurvive ==
    \A n \in Node : status[n] = "completed" =>
        \A i \in DOMAIN Blocks[n] : IsFileBlock(n, i) =>
            LET f == Blocks[n][i].target
            IN  \/ MayErase(n, i) \/ MayMix(f) \/ <<n, i>> \in lost
                \/ IsBeingWritten(f, <<n, i>>)
                \/ HasText(f, <<n, i>>)

\* Attempts add up: a retry applies the blocks before the one that failed
\* again, but an attempt applies no block twice (agent.rs stops at the first
\* error and does not start over), unless unordered nodes write one text over another.
EditsAtMostOncePerAttempt ==
    \A n \in Node : \A i \in DOMAIN Blocks[n] : IsFileBlock(n, i) =>
        LET f == Blocks[n][i].target
        IN  IsThere(f) /\ ~MayMix(f) => Cardinality(Occurrences(fs[f], <<n, i>>)) <= attempts[n]

\* The whole prompt of a node fits its budget, whatever it will load.
Fits(n, wanted) ==
    TotalSize(Sections("hint", wanted.system_hint) \o <<<<"node", n>>>>
                \o Sections("dependency", wanted.load_nodes)
                \o Sections("summary", InIdOrder(Ancestors[n] \ ToSet(wanted.load_nodes)))
                \o Sections("file", wanted.load_files)
                \o Sections("memory", wanted.load_memory)) <= wanted.max_tokens

Fitting == [n \in Node |-> {wanted \in ToSet(AgentContext[n]) : Fits(n, wanted)}]

\* What later runs can read too.
Lasting(n) == {u[2] : u \in {v \in Upserts[n] : v[1] \notin {"node", "session"}}}

\* A node is dispatched with what its dependencies have left for it, unless its
\* budget is too small: the topics they have upserted for other runs to see, and their
\* edits in the files it loads, except those that CompletedEditsSurvive excuses.
ContextSeesDependencies ==
    \A n \in Node : \A wanted \in Fitting[n] :
        attempts[n] > 0 => \A d \in Ancestors[n] :
            /\ \A t \in Lasting(d) \cap ToSet(wanted.load_memory) :
                  <<"memory", t>> \in ToSet(context[n])
            /\ \A i \in DOMAIN Blocks[d] :
                  IsFileBlock(d, i) /\ Blocks[d][i].target \in ToSet(wanted.load_files) =>
                      \/ MayErase(d, i) \/ MayMix(Blocks[d][i].target) \/ <<d, i>> \in lost
                      \/ \E s \in ToSet(context[n]) :
                            s[1] = "file" /\ s[2] = Blocks[d][i].target
                              /\ <<d, i>> \in ToSet(s[3])

\* What a completed node was checked for and cannot be undone still holds: the
\* files are there, and the nodes that had to be completed are.
PassedChecksStillHold ==
    \A n \in Node : status[n] = "completed" =>
        \A check \in ToSet(Checks[n]) :
            /\ check.kind = "file_exists" => IsThere(check.file)
            /\ check.kind = "node_status" /\ check.status = "completed" =>
                  status[check.node] = "completed"

Needs(b) == IF b.action = "command" THEN b.needs ELSE 0

TimeNeeded(n) == Total([k \in DOMAIN Blocks[n] |-> Needs(Blocks[n][k])])

\* A command is killed only when the commands of its node really need more time
\* than it has, or when it has filled its pipe.
KillsAreEarned ==
    [][\A n \in Node :
          agent[n].phase = "polling" /\ agent'[n].phase = "done" =>
              Block(n).fills \/ TimeNeeded(n) > Timeout]_vars

\* Every agent answers, unless a process that one of its commands has left
\* behind holds the pipe: time goes on and every failing command ends its node, so that
\* again and again no agent of the batch is at work.
AgentsReturn == []<>(\A n \in ToSet(batch) : agent[n].phase \in {"done", "held"})
===============================================================================
