------------------------------ MODULE Validator ------------------------------
(* What `agm validate` says of a parsed file (agm-core/src/validator), with  *)
(* the packages it imports (agm-core/src/import).                            *)
EXTENDS Schema

CONSTANTS
    UnsafeWords,    \* words that make a path absolute or lead out of the tree
    SecretWords,    \* words that look like a credential
    LongWords,      \* words that make a text longer than its limit
    Topics,         \* words that are valid memory keys and topics
    Segments,       \* the dotted parts of words with dots: [STRING -> Seq(STRING)]
    ImportOf,       \* [word -> [package, versions]]: an import entry; no versions, a bad constraint
    VersionOf,      \* [word -> Nat]: the words that are versions, by precedence
    Shelf           \* files below the search paths: sequence of [dir, file]

Text(node, key) == IF key \in DOMAIN node.fields THEN node.fields[key].text ELSE NoText
List(node, key) == IF key \in DOMAIN node.fields THEN node.fields[key].list ELSE <<>>
WordsOf(text) == UNION {ToSet(text[i].parts) : i \in DOMAIN text}
Trimmed(text) == WordsOf(text) = {}

Ids(nodes) == {nodes[i].id : i \in DOMAIN nodes}

ValidateFile(file) ==
    {Diag("P001", "error", <<>>) : k \in {f \in FormattedHeaderFields : Trimmed(file.header[f].text)}}
    \cup (IF file.nodes = <<>> THEN {Diag("P008", "error", <<>>)} ELSE {})

ValidateNodeIds(nodes) ==
    {Diag("V003", "error", nodes[i].id) : i \in {j \in DOMAIN nodes : \E k \in 1..(j - 1) : nodes[k].id = nodes[j].id}}
    \cup {Diag("V021", "error", id) : id \in {j \in Ids(nodes) : ~(Len(j) = 1 /\ j[1] \in NodeIds)}}

\* An empty summary is reported alone.
ValidateNode(node) ==
    LET summary == Text(node, "summary")
        reports(bad, code, severity) == IF bad THEN {Diag(code, severity, node.id)} ELSE {}
        both == {"valid_from", "valid_until"} \subseteq DOMAIN node.fields
    IN IF summary = NoText THEN {Diag("V002", "error", node.id)}
       ELSE reports(Trimmed(summary), "V011", "warning")
            \cup reports(WordsOf(summary) \cap LongWords # {}, "V012", "warning")
            \cup reports(/\ both
                         /\ KeyOrder[Text(node, "valid_from")[1].parts[1]]
                               > KeyOrder[Text(node, "valid_until")[1].parts[1]], "V007", "error")
            \cup reports(/\ Text(node, "status") \in {Word("deprecated"), Word("superseded")}
                         /\ "replaces" \notin DOMAIN node.fields, "V014", "warning")

Unsafe(text) == WordsOf(text) \cap UnsafeWords # {}

ValidateBlock(block, id) ==
    LET missing(key) == key \notin DOMAIN block
    IN (IF \/ missing("lang")
           \/ Trimmed(block.body)
           \/ block.action = Word("replace") /\ missing("old")
           \/ block.action \in {Word("insert_before"), Word("insert_after")} /\ missing("anchor")
           \/ WordsOf(block.body) \cap SecretWords # {}
        THEN {Diag("V008", "error", id)} ELSE {})
       \cup (IF ~missing("target") /\ Unsafe(block.target) THEN {Diag("V015", "error", id)} ELSE {})

BlocksOf(node) ==
    (IF "code" \in DOMAIN node.fields THEN {node.fields["code"].code} ELSE {})
    \cup (IF "code_blocks" \in DOMAIN node.fields THEN ToSet(node.fields["code_blocks"].code_blocks) ELSE {})

ValidateCode(node) == UNION {ValidateBlock(b, node.id) : b \in BlocksOf(node)}

\* A check of the status of a node that is not in the file is an error too, unless
\* the node is looked at on its own.
ValidateVerify(node, ids, alone) ==
    LET checks == IF "verify" \in DOMAIN node.fields THEN ToSet(node.fields["verify"].verify) ELSE {}
        required(check) == ToSet(VerifyFields(check.type[1].parts[1])) \ {"status"}
        lost(check) == /\ check.type = Word("node_status") /\ ~Trimmed(check.node)
                       /\ ~alone /\ check.node[1].parts \notin ids
    IN {Diag("V009", "error", node.id) :
          c \in {d \in checks : lost(d) \/ \E k \in required(d) : k \notin DOMAIN d \/ Trimmed(d[k])}}

TopicsOf(nodes) ==
    UNION {{e.topic : e \in ToSet(nodes[i].fields["memory"].memory)} :
              i \in {j \in DOMAIN nodes : "memory" \in DOMAIN nodes[j].fields}}

ValidTopic(item) == Len(item) = 1 /\ item[1] \in Topics

ValidateContext(node, ids, topics, alone) ==
    LET context == IF "agent_context" \in DOMAIN node.fields
                   THEN node.fields["agent_context"].context ELSE <<>>
        items(key) == IF key \in DOMAIN context THEN ToSet(context[key].list) ELSE {}
        files == IF "load_files" \in DOMAIN context THEN ToSet(context["load_files"].files) ELSE {}
    IN (IF ~alone /\ ~(items("load_nodes") \subseteq ids) THEN {Diag("V004", "error", node.id)} ELSE {})
       \cup (IF \E f \in files : Unsafe(f.path) THEN {Diag("V015", "warning", node.id)} ELSE {})
       \cup {IF ~ValidTopic(t) THEN Diag("V025", "error", node.id) ELSE Diag("V026", "warning", node.id) :
               t \in {u \in items("load_memory") : ~ValidTopic(u) \/ OneLine(u) \notin topics}}

-----------------------------------------------------------------------------
(* Cycles: a depth-first search with three colours, of the groups of an      *)
(* orchestration and of the dependencies of a file.  A search state is what  *)
(* is gray, what is black and the edges that closed a cycle.                 *)

RECURSIVE Visit(_, _, _), VisitAll(_, _, _, _)
Visit(id, next, search) ==
    LET inside == VisitAll(id, next[id], next, [search EXCEPT !.gray = @ \cup {id}])
    IN [inside EXCEPT !.gray = @ \ {id}, !.black = @ \cup {id}]

VisitAll(id, deps, next, search) ==
    IF deps = <<>> THEN search
    ELSE LET dep == Head(deps)
             after == IF dep \in search.gray THEN [search EXCEPT !.cycles = @ \cup {<<id, dep>>}]
                      ELSE IF dep \in search.black THEN search
                      ELSE Visit(dep, next, search)
         IN VisitAll(id, Tail(deps), next, after)

\* Every root that is not black yet is searched, in order.
Search(roots, next) ==
    FoldSeq(LAMBDA id, search : IF id \in search.black THEN search ELSE Visit(id, next, search),
            [gray |-> {}, black |-> {}, cycles |-> {}], Reverse(roots))

DependsOnOthers(nodes) ==
    [id \in Ids(nodes) |->
        LET i == Max({j \in DOMAIN nodes : nodes[j].id = id})
        IN SelectSeq(List(nodes[i], "depends"), LAMBDA d : d \in Ids(nodes) \ {id})]

\* The dependencies of each node that are nodes of the file; of two nodes with one id, the later's.
DependsGraph(nodes) ==
    [id \in Ids(nodes) |->
        LET i == Max({j \in DOMAIN nodes : nodes[j].id = id})
        IN SelectSeq(List(nodes[i], "depends"), LAMBDA d : d \in Ids(nodes))]

ValidateCycles(nodes) ==
    LET search == Search([i \in DOMAIN nodes |-> nodes[i].id], DependsGraph(nodes))
    IN {Diag("V005", "error", edge[2]) : edge \in search.cycles}

GroupName(group) == group.texts["group"]
Requires(group) == IF "requires" \in DOMAIN group.lists THEN group.lists["requires"] ELSE <<>>

DetectRequiresCycles(groups, id) ==
    LET names == [i \in DOMAIN groups |-> GroupName(groups[i])]
        next == [n \in ToSet(names) |->
                    LET i == Max({j \in DOMAIN names : names[j] = n})
                        known == SelectSeq(Requires(groups[i]), LAMBDA r : OneLine(r) \in ToSet(names))
                    IN [k \in DOMAIN known |-> OneLine(known[k])]]
    IN IF Search(names, next).cycles = {} THEN {} ELSE {Diag("V019", "error", id)}

ValidateOrchestration(node, ids, alone) ==
    LET groups == node.fields["parallel_groups"].groups
        names == {GroupName(g) : g \in ToSet(groups)}
        bad(g) == \/ Trimmed(GroupName(g))
                  \/ g.lists["nodes"] = <<>>
                  \/ ~alone /\ ~(ToSet(g.lists["nodes"]) \subseteq ids)
                  \/ \E r \in ToSet(Requires(g)) : OneLine(r) \notin names
    IN IF "parallel_groups" \notin DOMAIN node.fields
       THEN IF TypeOf(node) = "orchestration" THEN {Diag("V018", "error", node.id)} ELSE {}
       ELSE {Diag("V018", "error", node.id) : g \in {h \in ToSet(groups) : bad(h)}}
            \cup DetectRequiresCycles(groups, node.id)

-----------------------------------------------------------------------------
(* The passes over one node, and over all of them.                           *)

ValidateExecution(node) ==
    LET stamped == "executed_at" \in DOMAIN node.fields
    IN (IF stamped /\ ~Parses(Text(node, "executed_at")) THEN {Diag("V006", "warning", node.id)} ELSE {})
       \cup (IF /\ Text(node, "execution_status") = Word("completed")
                /\ ~({"executed_by", "executed_at"} \subseteq DOMAIN node.fields)
             THEN {Diag("V010", "warning", node.id)} ELSE {})

ValidateMemoryEntry(entry, id) ==
    LET needs(action, key) == entry.action = Word(action) /\ key \notin DOMAIN entry
    IN (IF ValidTopic(entry.key[1].parts) THEN {} ELSE {Diag("V022", "error", id)})
       \cup (IF ValidTopic(entry.topic[1].parts) THEN {} ELSE {Diag("V025", "error", id)})
       \cup (IF needs("upsert", "value") \/ needs("search", "query") THEN {Diag("V023", "error", id)} ELSE {})
       \cup (IF "value" \in DOMAIN entry /\ WordsOf(entry.value) \cap LongWords # {}
             THEN {Diag("V027", "error", id)} ELSE {})

ValidateMemory(node) ==
    IF "memory" \in DOMAIN node.fields
    THEN UNION {ValidateMemoryEntry(e, node.id) : e \in ToSet(node.fields["memory"].memory)} ELSE {}

ValidateTicket(node) ==
    IF TypeOf(node) # "ticket" THEN {}
    ELSE (IF /\ "action" \in DOMAIN node.fields /\ Text(node, "action") # Word("create")
             /\ "ticket_id" \notin DOMAIN node.fields
          THEN {Diag("V031", "error", node.id)} ELSE {})
         \cup (IF WordsOf(Text(node, "title")) \cap LongWords # {} THEN {Diag("V032", "warning", node.id)} ELSE {})

RelationFields == {"depends", "related_to", "replaces", "conflicts", "see_also"}

Dotted(word) == IF word \in DOMAIN Segments THEN Segments[word] ELSE <<word>>
\* Whether ref begins with the name of package and a dot.
StartsWith(ref, package) == Len(ref) = 1 /\ IsStrictPrefix(Dotted(package), Dotted(ref[1]))

Imports(header) == IF "imports" \in DOMAIN header
                   THEN [i \in DOMAIN header["imports"].list |-> ImportOf[header["imports"].list[i][1]]] ELSE <<>>
LooksLikeCrossPackageRef(ref, file) ==
    \E import \in ToSet(Imports(file.header)) : StartsWith(ref, import.package)

ValidateReferences(file) ==
    {Diag("V004", "error", n.id) :
        n \in {m \in ToSet(file.nodes) :
                 \E k \in RelationFields : \E ref \in ToSet(List(m, k)) :
                    ref \notin Ids(file.nodes) /\ ~LooksLikeCrossPackageRef(ref, file)}}

IsActive(node) == Text(node, "status") \in {NoText, Word("active")}

\* Pairs of active nodes one of which declares a conflict with the other; each is reported once.
ValidateCompatibility(nodes) ==
    LET last(id) == nodes[Max({i \in DOMAIN nodes : nodes[i].id = id})]
        clash(i, id) == /\ id \in ToSet(List(nodes[i], "conflicts")) /\ id # nodes[i].id
                        /\ IsActive(nodes[i]) /\ IsActive(last(id))
        pairs == {{nodes[i].id, id} : i \in DOMAIN nodes, id \in Ids(nodes)}
    IN {Diag("V013", "warning",
             nodes[Min({i \in DOMAIN nodes : nodes[i].id \in pair /\ \E id \in pair : clash(i, id)})].id) :
          pair \in {p \in pairs : \E i \in DOMAIN nodes : nodes[i].id \in p /\ \E id \in p : clash(i, id)}}

-----------------------------------------------------------------------------
(* Imports: an entry names a package and the versions it accepts; the best   *)
(* file on the shelf answers it.                                             *)

FindCandidates(package) ==
    SelectSeq(Shelf, LAMBDA s : /\ s.dir = package
                                /\ "errors" \notin DOMAIN s.file
                                /\ s.file.header["package"].text = Word(package))

VersionIn(s) == LET w == s.file.header["version"].text[1].parts[1]
                IN IF w \in DOMAIN VersionOf THEN VersionOf[w] ELSE 0

SelectBestMatch(candidates, import) ==
    LET fits == {i \in DOMAIN candidates : VersionIn(candidates[i]) \in import.versions}
        best == Max({VersionIn(candidates[i]) : i \in fits})
    IN IF fits = {} THEN <<>>
       ELSE <<candidates[Min({i \in fits : VersionIn(candidates[i]) = best})].file>>

\* The file an import stands for, or the code of the error.
MatchOr(import, candidates, best) ==
    IF candidates = <<>> THEN [error |-> "I001"]
    ELSE IF best = <<>> THEN [error |-> "I002"]
    ELSE [package |-> import.package, file |-> best[1]]
ResolveAmong(import, candidates) == MatchOr(import, candidates, SelectBestMatch(candidates, import))

Resolve(import) == ResolveAmong(import, FindCandidates(import.package))

Valid(imports) == SelectSeq(imports, LAMBDA i : i.versions # {})
Resolved(imports) == [i \in DOMAIN imports |-> Resolve(imports[i])]
Files(resolved) == SelectSeq(resolved, LAMBDA r : "file" \in DOMAIN r)

\* A search that stops at the first package that is on its own path.
RECURSIVE ImportsLoop(_, _, _)
OffPath(package, s) == [s EXCEPT !.onPath = @ \ {package}]
ImportsOnward(r, s) ==
    IF s.loop \/ "error" \in DOMAIN r THEN s
    ELSE ImportsLoop(r.package, Valid(Imports(r.file.header)), s)

ImportsLoop(package, imports, s) ==
    IF package \in s.onPath THEN [s EXCEPT !.loop = TRUE]
    ELSE IF package \in s.visited THEN s
    ELSE OffPath(package,
                 FoldLeft(LAMBDA t, import : ImportsOnward(Resolve(import), t),
                          [s EXCEPT !.visited = @ \cup {package}, !.onPath = @ \cup {package}], imports))

DetectCircularImports(package, imports) ==
    ImportsLoop(package, imports, [visited |-> {}, onPath |-> {}, loop |-> FALSE]).loop

ResolvePackageOnly(ref, packages) == \E i \in DOMAIN packages : StartsWith(ref, packages[i].package)

\* The longest imported package name that the reference starts with decides.
ResolveCrossPackageRef(ref, packages) ==
    LET fits == {i \in DOMAIN packages : StartsWith(ref, packages[i].package)}
        size(i) == Len(Dotted(packages[i].package))
        longest == {i \in fits : \A j \in fits : size(j) <= size(i)}
        p == packages[Min(longest)]
        local == SubSeq(Dotted(ref[1]), size(Min(longest)) + 1, Len(Dotted(ref[1])))
    IN fits # {} /\ \E n \in ToSet(p.file.nodes) : Dotted(n.id[1]) = local

CheckDeprecated(packages) ==
    {Diag("I005", "warning", <<>>) :
        p \in {q \in ToSet(packages) : /\ "status" \in DOMAIN q.file.header
                                       /\ q.file.header["status"].text = Word("deprecated")}}

CollectAllRefs(node) ==
    UNION {ToSet(List(node, k)) : k \in RelationFields}
    \cup (IF /\ "agent_context" \in DOMAIN node.fields
             /\ "load_nodes" \in DOMAIN node.fields["agent_context"].context
          THEN ToSet(node.fields["agent_context"].context["load_nodes"].list) ELSE {})

Dangling(file, packages) ==
    {n \in ToSet(file.nodes) :
        \E ref \in CollectAllRefs(n) \ Ids(file.nodes) :
            LooksLikeCrossPackageRef(ref, file) /\ ~ResolveCrossPackageRef(ref, packages)}

ImportDiags(file, imports, valid, resolved) ==
    (IF Len(valid) < Len(imports) THEN {Diag("I002", "error", <<>>)} ELSE {})
    \cup {Diag(r.error, "error", <<>>) : r \in {q \in ToSet(resolved) : "error" \in DOMAIN q}}
    \cup CheckDeprecated(Files(resolved))
    \cup (IF DetectCircularImports(file.header["package"].text[1].parts[1], valid)
          THEN {Diag("I003", "error", <<>>)} ELSE {})
    \cup {Diag("I004", "error", n.id) : n \in Dangling(file, Files(resolved))}

ValidatedImports(file, imports, valid) == ImportDiags(file, imports, valid, Resolved(valid))
ValidateImports(file) == ValidatedImports(file, Imports(file.header), Valid(Imports(file.header)))

-----------------------------------------------------------------------------
OfNode(node, ids, topics, alone) ==
    ValidateNode(node) \cup ValidateCode(node) \cup ValidateVerify(node, ids, alone)
    \cup ValidateContext(node, ids, topics, alone) \cup ValidateOrchestration(node, ids, alone)
    \cup ValidateExecution(node) \cup ValidateMemory(node) \cup ValidateTicket(node)

\* A node validated alone is not looked at for references, cycles and conflicts.
Validate(file, level, alone, imports) ==
    LET nodes == file.nodes
        ids == Ids(nodes)
    IN ValidateFile(file) \cup ValidateNodeIds(nodes)
       \cup UNION {OfNode(n, ids, TopicsOf(nodes), alone) : n \in ToSet(nodes)}
       \cup UNION {ValidateSchema(n, level) : n \in ToSet(nodes)}
       \cup (IF nodes = <<>> \/ alone THEN {}
             ELSE ValidateReferences(file) \cup ValidateCycles(nodes) \cup ValidateCompatibility(nodes))
       \cup (IF imports THEN ValidateImports(file) ELSE {})
=============================================================================
