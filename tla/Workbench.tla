------------------------------ MODULE Workbench ------------------------------
(* A file and its sidecars on disk, and the commands a user runs on them one *)
(* after the other (agm-cli/src/commands).  Between two commands nothing is  *)
(* kept but the files.                                                       *)
EXTENDS Loader, Diff, Normalizer, Repair, Compiler, JsonFile, Sidecars

CONSTANTS
    Versions,       \* texts that people and language models hand over
    Levels,         \* levels of enforcement
    RuleChoices,    \* arguments of repair: [disable, only, net]; nothing in `only` is no such argument
    RuleFiles,      \* rule files: a sequence with a rule set, or none in it for a file that is no good
    Loads,          \* arguments of load: [mode, profile, nodes]
    Markdown,       \* documents to compile: [blocks, options, check]
    Ranks,          \* the orders in which a hash table may give the ids
    Tables,         \* states of nodes that a run saves
    Memories        \* memories that a run saves

VARIABLES
    text,           \* the file
    state, memory,  \* its sidecars
    table, entries, \* what was saved in them
    last            \* the command that has just run; Prompt when the user is asked for one

vars == <<text, state, memory, table, entries, last>>
sidecars == <<state, memory, table, entries>>

Absent == <<Raw(0, <<"absent">>)>>
Prompt == [command |-> "none"]

Done(command, code, args) == [command |-> command, code |-> code] @@ args

IsFile(parsed) == "errors" \notin DOMAIN parsed

Init ==
    /\ text \in Versions \cup {Absent}
    /\ state = Absent /\ memory = Absent
    /\ table = <<>> /\ entries = <<>>
    /\ last = Prompt

FileIsValid(file, level) == Errors(Validate(file, level, FALSE, FALSE)) = {}

ValidateCommand(file, level) == IF FileIsValid(file, level) THEN 0 ELSE 1

\* Fields that the count of a node's fields knows.
CountPopulatedFields(node) ==
    Cardinality({k \in DOMAIN node.fields \ ({"type", "summary"} \cup TicketOnly) :
                    "list" \in DOMAIN node.fields[k] => node.fields[k].list # <<>>})
    + Cardinality(DOMAIN node.extra)

\* Hints on summaries that are alike and on nodes with many fields.
LintQualityChecks(file) ==
    LET same(i) == \E j \in 1..(i - 1) : Text(file.nodes[j], "summary") = Text(file.nodes[i], "summary")
    IN {Diag("L002", "info", file.nodes[i].id) : i \in {k \in DOMAIN file.nodes : same(k)}}
       \cup {Diag("L003", "info", n.id) : n \in {m \in ToSet(file.nodes) : CountPopulatedFields(m) > 15}}

Lint(file, level) ==
    IF Errors(Validate(file, level, FALSE, FALSE) \cup LintQualityChecks(file)) = {} THEN 0 ELSE 1

\* A profile goes before a mode, a mode before a choice of nodes.
Loaded(file, call) ==
    IF call.profile # NoText THEN LoadProfile(file, call.profile)
    ELSE IF call.mode \notin ToSet(LoadModes) THEN [error |-> "mode"]
    ELSE IF call.nodes # {} THEN LoadNodes(file, call.mode, call.nodes)
    ELSE Load(file, call.mode)

LoadCommand(file, call) == IF "error" \in DOMAIN Loaded(file, call) THEN 2 ELSE 0

Topo(file) == IF TopologicalSort(BuildGraph(file)) = {} THEN 1 ELSE 0

\* Compared with an older file, which has to parse too.
ReportCode(report) == IF IsEmpty(report) THEN 0 ELSE IF report.breaking THEN 2 ELSE 1
ShownOf(report, breakingOnly) == IF breakingOnly THEN BreakingOnly(report) ELSE report
Compare(file, older, breakingOnly) ==
    IF IsFile(older) THEN ReportCode(ShownOf(DiffFiles(older, file), breakingOnly)) ELSE 1

\* The commands on memory want a valid file and read both sidecars before they look at a key.
StateBeside == IF state = Absent THEN <<>> ELSE ParseState(state)
MemoryBeside == IF memory = Absent THEN [entries |-> <<>>] ELSE ParseMem(memory)
MemAnswer(ask, sf, mem) ==
    CASE "errors" \in DOMAIN sf \cup DOMAIN mem -> 2
      [] IsFile(sf) /\ IsFile(mem) /\ ask.command = "mem get" -> IF ask.key \in DOMAIN mem.entries THEN 0 ELSE 1
      [] IsFile(sf) /\ IsFile(mem) /\ ask.command = "mem export" -> IF ask.format \in {"json", "agm"} THEN 0 ELSE 1
      [] OTHER -> 0
MemCommand(file, ask) ==
    IF FileIsValid(file, "standard") THEN MemAnswer(ask, StateBeside, MemoryBeside) ELSE 1

Questions ==
    [command : {"validate", "lint"}, level : Levels] \cup [command : {"render", "graph", "mem list"}]
    \cup [command : {"load"}, call : Loads] \cup [command : {"diff"}, older : Versions, breakingOnly : BOOLEAN]
    \cup [command : {"mem get"}, key : Topics] \cup [command : {"mem export"}, format : {"json", "agm", "sql"}]

\* The exit code of a command of a file that parses.
Answer(ask, file) ==
    CASE ask.command = "validate" -> ValidateCommand(file, ask.level)
      [] ask.command = "lint" -> Lint(file, ask.level)
      [] ask.command = "render" -> 0
      [] ask.command = "load" -> LoadCommand(file, ask.call)
      [] ask.command = "graph" -> Topo(file)
      [] ask.command = "diff" -> Compare(file, Parse(ask.older), ask.breakingOnly)
      [] ask.command \in {"mem list", "mem get", "mem export"} -> MemCommand(file, ask)
AnswerTo(ask, parsed) == IF IsFile(parsed) THEN Answer(ask, parsed) ELSE 1

\* 2 if the file is not there, 1 if it does not parse.
Reads(ask) ==
    /\ last = Prompt
    /\ last' = [code |-> IF text = Absent THEN 2 ELSE AnswerTo(ask, Parse(text))] @@ ask
    /\ UNCHANGED <<text, sidecars>>

-----------------------------------------------------------------------------
(* Commands that write.  The new text goes to standard output or over the    *)
(* old one; a write that fails leaves the old text or a piece of the new.    *)

Ends(command, code, args) ==
    /\ last' = Done(command, code, args)
    /\ UNCHANGED <<text, sidecars>>

Puts(command, how, new, ioError, args) ==
    /\ UNCHANGED sidecars
    /\ \/ text' = (IF how = "in_place" THEN new ELSE text) /\ last' = Done(command, 0, args)
       \/ how = "in_place" /\ text' \in {text, SubSeq(new, 1, Len(new) \div 2)} /\ last' = Done(command, ioError, args)

Outputs == {"check", "in_place", "print"}
Replies == {"unasked", "yes", "no", "no terminal"}

\* The user is asked before a file is written over.
Confirmed(command, how, answer, new, args) ==
    CASE how = "in_place" /\ answer = "no terminal" -> Ends(command, 3, args)
      [] how = "in_place" /\ answer = "no" -> Ends(command, 0, args)
      [] OTHER -> Puts(command, how, new, 3, args)

\* Named rules run whatever is disabled.
Rules(choice) == IF choice.only # {} THEN NamedRules(choice.only) ELSE DefaultRules(choice.disable)
RulesAreKnown(choice) == choice.disable \cup choice.only \subseteq ToSet(BuiltinRules)

RepairCommand(choice, how, answer) ==
    LET args == [how |-> how, choice |-> choice, answer |-> answer]
    IN /\ last = Prompt /\ (how # "in_place" => answer = "unasked")
       /\ \E done \in {RepairText(text, Rules(choice), choice.net)} :
             CASE ~RulesAreKnown(choice) -> Ends("repair", 2, args)
               [] RulesAreKnown(choice) /\ text = Absent -> Ends("repair", 3, args)
               [] RulesAreKnown(choice) /\ text # Absent /\ how = "check" ->
                     Ends("repair", IF done.report = <<>> THEN 0 ELSE 1, args)
               [] RulesAreKnown(choice) /\ text # Absent /\ how # "check" /\ done.rolled_back ->
                     Ends("repair", 2, args)
               [] OTHER -> Confirmed("repair", how, answer, done.text, args)

\* The rule set of the builder with those of the files merged into it.
RulesWith(files) == FoldLeft(LAMBDA rules, f : IF f = <<>> THEN rules ELSE Merge(rules, f[1]), Builtin, files)

\* `.agm-normalize.yaml` is taken in when it is any good, a file named on the command line has to be.
NormalizeCommand(localRules, files, how) ==
    LET args == [how |-> how, rules |-> localRules \o files]
        named == <<>> \notin ToSet(files)
    IN /\ last = Prompt
       /\ \E done \in {NormalizeText(text, RulesWith(localRules \o files), TRUE, TRUE)} :
             CASE text = Absent -> Ends("normalize", 2, args)
               [] text # Absent /\ ~named -> Ends("normalize", 3, args)
               [] text # Absent /\ named /\ ~IsFile(done) -> Ends("normalize", 2, args)
               [] text # Absent /\ named /\ IsFile(done) /\ how = "check" ->
                     Ends("normalize", IF done.rewrites = <<>> THEN 0 ELSE 1, args)
               [] OTHER -> Puts("normalize", how, done.text, 2, args)

\* Repair, then normalisation; a repair that was undone ends the command.
Fix(choice, files, how, answer) ==
    LET args == [how |-> how, choice |-> choice, answer |-> answer, rules |-> files]
        bad(repaired, done) ==
            \/ ~RulesAreKnown(choice)
            \/ text # Absent /\ (<<>> \in ToSet(files) \/ repaired.rolled_back \/ ~IsFile(done))
    IN /\ last = Prompt /\ (how # "in_place" => answer = "unasked")
       /\ \E repaired \in {RepairText(text, Rules(choice), choice.net)} :
          \E done \in {NormalizeText(repaired.text, RulesWith(files), TRUE, TRUE)} :
             CASE bad(repaired, done) -> Ends("fix", 2, args)
               [] ~bad(repaired, done) /\ text = Absent -> Ends("fix", 3, args)
               [] ~bad(repaired, done) /\ text # Absent /\ how = "check" ->
                     Ends("fix", IF repaired.report = <<>> /\ done.rewrites = <<>> THEN 0 ELSE 1, args)
               [] OTHER -> Confirmed("fix", how, answer, done.text, args)

\* Nothing is written when no node was made, nor when the file is to be checked and is found wrong.
IsRefused(file, check) == file.nodes = <<>> \/ (check /\ ~FileIsValid(file, "standard"))

CompileCommand(doc, ranks) ==
    /\ last = Prompt
    /\ \E file \in {Compile(doc.blocks, doc.options, ranks)} :
          LET args == [file |-> file, check |-> doc.check]
          IN IF IsRefused(file, doc.check) THEN Ends("compile", 1, args)
             ELSE Puts("compile", "in_place", RenderCanonical(file), 2, args)

-----------------------------------------------------------------------------
(* Sidecars.  A run saves them beside a file that is valid.                  *)

MayRun(file, new) ==
    /\ IsFile(file) /\ FileIsValid(file, "standard")
    /\ DOMAIN new.nodes = {n.id[1] : n \in ToSet(file.nodes)}

RunSaves(new, mem) ==
    /\ last = Prompt
    /\ text # Absent /\ MayRun(Parse(text), new)
    /\ state' = RenderState(new) /\ table' = new
    /\ memory' = RenderMem(mem) /\ entries' = mem
    /\ last' = Done("run", 0, <<>>)
    /\ UNCHANGED text

\* Without a state file, or with one that cannot be read, 2; otherwise what is asked of it decides.
StateQuestions ==
    [command : {"state list"}] \cup [command : {"state get"}, id : NodeIds]
    \cup [command : {"state export"}, format : {"json", "agm", "sql"}]

StateAnswer(ask, sf) ==
    CASE ~IsFile(sf) -> 2
      [] IsFile(sf) /\ ask.command = "state list" -> 0
      [] IsFile(sf) /\ ask.command = "state get" -> IF ask.id \in DOMAIN sf.nodes THEN 0 ELSE 1
      [] IsFile(sf) /\ ask.command = "state export" -> IF ask.format \in {"json", "agm"} THEN 0 ELSE 1

StateReads(ask) ==
    /\ last = Prompt
    /\ last' = [code |-> IF state = Absent THEN 2 ELSE StateAnswer(ask, ParseState(state))] @@ ask
    /\ UNCHANGED <<text, sidecars>>

\* Another state file takes the place of this one, whatever file it is of.
StateImport(from) ==
    /\ last = Prompt
    /\ \E sf \in {ParseState(from)} :
          \/ ~IsFile(sf) /\ Ends("state import", 1, <<>>)
          \/ /\ IsFile(sf)
             /\ state' = RenderState(sf) /\ table' = sf
             /\ last' = Done("state import", 0, <<>>)
             /\ UNCHANGED <<text, memory, entries>>

\* The next command.
Ask == last # Prompt /\ last' = Prompt /\ UNCHANGED <<text, sidecars>>

Next ==
    \/ \E ask \in Questions : Reads(ask)
    \/ \E choice \in RuleChoices, how \in Outputs, answer \in Replies : RepairCommand(choice, how, answer)
    \/ \E localRules, files \in RuleFiles, how \in Outputs : NormalizeCommand(localRules, files, how)
    \/ \E choice \in RuleChoices, files \in RuleFiles, how \in Outputs, answer \in Replies :
          Fix(choice, files, how, answer)
    \/ \E doc \in Markdown, ranks \in Ranks : CompileCommand(doc, ranks)
    \/ \E new \in Tables, mem \in Memories : RunSaves(new, mem)
    \/ \E ask \in StateQuestions : StateReads(ask)
    \/ \E from \in {RenderState(t) : t \in Tables} \cup Versions : StateImport(from)
    \/ Ask

Spec == Init /\ [][Next]_vars

-----------------------------------------------------------------------------
(* Properties.                                                               *)

RepairAgain(doc, choice) == RepairText(doc, Rules(choice), choice.net)

\* What `agm repair --in-place` wrote needs no third repair: the rules, which are applied once each in a fixed
\* order, undo nothing of each other's work (repair/mod.rs).
RepairsSettle ==
    (last.command = "repair" /\ last.code = 0 /\ last.how = "in_place" /\ last.answer # "no") =>
        RepairAgain(RepairAgain(text, last.choice).text, last.choice).report = <<>>

OrderedIds(file) == [i \in DOMAIN file.nodes |-> file.nodes[i].id]

AllSurvive(file) == \A n \in ToSet(file.nodes) : NodeSurvives(n)
SameNodes(command, old, new) ==
    /\ IsFile(new)
    /\ IsFile(old) => OrderedIds(new) = OrderedIds(old)
    /\ (IsFile(old) /\ command = "repair") => BuildGraph(new) = BuildGraph(old)

\* A file that parses still parses after any repair, fix or normalisation that ended well, with the same nodes
\* in the same order; a repair moves no edge of its graph either.  A file that did not parse is left alone or
\* does so now.  Normalisation writes the file anew: what it says holds of nodes that canonical form keeps.
RewritesKeepTheNodes ==
    [][/\ last'.command \in {"repair", "fix", "normalize"} /\ last'.code = 0 /\ text' # text
       /\ IF last'.command = "repair" THEN last'.choice.net
          ELSE AllSurvive(Parse(IF last'.command = "fix" THEN RepairAgain(text, last'.choice).text ELSE text))
       => SameNodes(last'.command, Parse(text), Parse(text'))]_vars

AgreeOnCycles(graph, reported) ==
    /\ reported <=> TopologicalSort(graph) = {}
    /\ reported <=> DetectCycles(graph) # {}
CyclesAgreeIn(file) ==
    (IsFile(file) /\ IsInjective(OrderedIds(file))) =>
        AgreeOnCycles(BuildGraph(file), \E d \in Validate(file, "standard", FALSE, FALSE) : d.code = "V005")

\* The validator, the topological order of the scheduler and the cycle finder of the graph, written apart,
\* say the same of every file whose nodes have ids of their own: a file that validates can be run.
CyclesAgree == last = Prompt => CyclesAgreeIn(Parse(text))

HasFailed(n) == Text(n, "execution_status") \in {Word("failed"), Word("blocked")}
HoldsFailures(file, loaded) ==
    \A n \in ToSet(file.nodes) :
        /\ HasFailed(n) => n.id \in loaded
        /\ n.id \in loaded => ToSet(List(n, "depends")) \cap Ids(file.nodes) \subseteq loaded
LoadedWith(file) == HoldsFailures(file, Ids(Loaded(file, last.call).nodes))

\* What is loaded to look into failures holds every node that failed or is blocked, and with each of its nodes
\* whatever that node depends on.
DebugLoadIsClosed ==
    (last.command = "load" /\ last.code = 0 /\ last.call.profile = Word("debug")) => LoadedWith(Parse(text))

DependencyNames(graph) == {<<NamesAt(graph, {e[1]}), NamesAt(graph, {e[2]})>> : e \in DependsSubgraph(graph)}
Gist(file) == [ids |-> Ids(file.nodes), depends |-> DependencyNames(BuildGraph(file)),
               code |-> {n.id : n \in {m \in ToSet(file.nodes) : BlocksOf(m) # {}}}]
IsTold(old, new) ==
    /\ \A k \in DOMAIN old : old[k] \subseteq new[k]
    /\ (last.code = 0 /\ ~last.breakingOnly) => old = new
DifferenceIsTold(old, new) ==
    (IsFile(old) /\ IsFile(new)) =>
        /\ IsTold(Gist(old), Gist(new))
        /\ (last.code = 0 /\ ~last.breakingOnly) => FileIsValid(old, "standard") = FileIsValid(new, "standard")

\* A difference that is not reported as breaking takes no node away, no dependency and no code; and without
\* any difference both files have one graph and are valid together.
DifferencesAreTold ==
    (last.command = "diff" /\ last.code \in {0, 1} /\ text # Absent) =>
        DifferenceIsTold(Parse(last.older), Parse(text))

\* A compiled file that was checked and written reads back as the file it was made of, if its texts stay
\* themselves in canonical form; all its nodes have ids of their own and all its relations lead to nodes.
CompiledFilesReadBack ==
    (last.command = "compile" /\ last.code = 0 /\ last.check) =>
        /\ IsInjective(OrderedIds(last.file))
        /\ \A n \in ToSet(last.file.nodes) : \A k \in RelationFields : ToSet(List(n, k)) \subseteq Ids(last.file.nodes)
        /\ AllSurvive(last.file) => Parse(text) = last.file

\* The sidecars read back as what was saved in them, as long as logs are one line without tabs and values have
\* no blank lines.
SidecarsReadBack ==
    /\ state # Absent /\ LogKeeps(table) => ParseState(state) = table
    /\ memory # Absent /\ ValueKeeps(entries) => ParseMem(memory) = entries

\* The comment of render_state: what it writes reads back as what was saved.
StateReadsBack == state # Absent => ParseState(state) = table

IsKept(file) ==
    (IsFile(file) /\ \A n \in ToSet(file.nodes) : JsonKeeps(n)) =>
        LET back == JsonToAgm(AgmToJson(file))
        IN [back EXCEPT !.header.agm = file.header.agm] = file /\ SameMajor(file.header.agm.text, back.header.agm.text)

\* A file whose nodes JSON keeps comes back from its canonical JSON with all that is in its header and its nodes,
\* except that the version of the format (`agm: 1.2`) keeps only its major number (1.0).
JsonReadsBack == last = Prompt => IsKept(Parse(text))

Leads(file, graph) ==
    LET from(n) == VertexOf(graph.names, Name(n.id))
    IN \A n \in ToSet(file.nodes) : \A ref \in ToSet(List(n, "depends")) :
          \E e \in graph.edges : e[1] = from(n) /\ e[2] = "depends" /\ graph.names[e[3]] = Name(ref)
LeadsIfValid(file) ==
    (IsFile(file) /\ Errors(Validate(file, "standard", FALSE, TRUE)) = {}) =>
        Leads(file, BuildGraphWithImports(file, Files(Resolved(Valid(Imports(file.header))))))

\* When the validator finds nothing wrong with a file and its imports, every dependency of its nodes is an edge
\* of the graph with the imported nodes.
DependenciesLead == last = Prompt => LeadsIfValid(Parse(text))
=============================================================================
