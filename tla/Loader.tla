------------------------------- MODULE Loader -------------------------------
(* Parts of a file for a reader: by mode, by node, by the filter of a load   *)
(* profile, and what failed with all it depends on (agm-core/src/loader).    *)
EXTENDS Graph

CONSTANT LowerOf    \* words with capitals, and the same words without

Lower(word) == IF word \in DOMAIN LowerOf THEN LowerOf[word] ELSE word
Lowered(parts) == [i \in DOMAIN parts |-> Lower(parts[i])]

LoadModes == <<"summary", "operational", "executable", "full">>

\* The fields that each mode adds to those before it; the last adds all others.
FieldCategory ==
    <<{"type", "summary", "priority", "stability", "depends", "tags"},
      {"items", "steps", "fields", "input", "output"},
      {"code", "code_blocks", "verify", "agent_context", "target", "execution_status", "executed_by",
       "executed_at", "execution_log", "retry_count", "memory"}>>

IncludedIn(field, mode) ==
    \/ mode = "full"
    \/ \E k \in 1..3 : field \in FieldCategory[k] /\ \E j \in k..3 : LoadModes[j] = mode

Restricted(f, keys) == [k \in DOMAIN f \cap keys |-> f[k]]

FilterNode(node, mode) ==
    [node EXCEPT !.fields = Restricted(@, {f \in DOMAIN node.fields : IncludedIn(f, mode)}),
                 !.extra = IF mode = "full" THEN @ ELSE <<>>]

\* The nodes of the file that pass a test, as the mode shows them.
Part(file, mode, Test(_)) ==
    LET kept == SelectSeq(file.nodes, Test)
    IN [file EXCEPT !.nodes = [i \in DOMAIN kept |-> FilterNode(kept[i], mode)]]

Load(file, mode) == Part(file, mode, LAMBDA n : TRUE)
LoadNodes(file, mode, ids) == Part(file, mode, LAMBDA n : n.id \in ids)

-----------------------------------------------------------------------------
(* Filters: clauses joined by `and`, all of which a node must pass.          *)

\* The pieces of s between the tokens that stand for sep, whatever their case.
SplitOn(s, sep) ==
    LET cuts == {0, Len(s) + 1} \cup {i \in DOMAIN s : Lower(s[i]) = sep}
        starts == SetToSortSeq(cuts \ {Len(s) + 1}, <)
    IN [k \in DOMAIN starts |-> Between(s, starts[k], Min({d \in cuts : d > starts[k]}))]

SplitOnAnd(filter) == SplitOn(filter, "and")

InFields == {"priority", "type", "execution_status", "tags"}

\* `field in [a, b]`: the field and its values, without capitals.
TryParseFieldIn(clause) ==
    LET lower == Lowered(clause)
        at == Min({i \in DOMAIN lower : lower[i] = "in" /\ i < Len(lower) /\ lower[i + 1] = "["})
        close == Max({i \in DOMAIN lower : lower[i] = "]"})
        values == SelectSeq(SplitOn(Between(lower, at + 1, close), ","), LAMBDA v : v # <<>>)
        field == SubSeq(lower, 1, at - 1)
    IN IF /\ \E i \in 1..(Len(lower) - 1) : lower[i] = "in" /\ lower[i + 1] = "["
          /\ \E i \in DOMAIN lower : lower[i] = "]" /\ i > at + 1
          /\ Len(field) = 1 /\ field[1] \in InFields
       THEN [field |-> field[1], values |-> ToSet(values)]
       ELSE [unrecognized |-> clause]

ParseFilter(filter) ==
    LET clauses == SplitOnAnd(filter)
        clause(c) == CASE Lowered(c) \in {<<"*">>, <<"wildcard">>} -> [wildcard |-> TRUE]
                       [] Lowered(c) \in {<<"code", "is", "present">>, <<"code_is_present">>} -> [code |-> TRUE]
                       [] OTHER -> TryParseFieldIn(c)
    IN [i \in DOMAIN clauses |-> clause(clauses[i])]

\* What a node is asked for in a clause: tags as they are written, all else without capitals.
Answers(node, field) ==
    IF field = "tags" THEN ToSet(List(node, "tags")) ELSE {Lowered(Text(node, field)[1].parts)}

MatchesFilter(node, exprs) ==
    \A i \in DOMAIN exprs :
        CASE "code" \in DOMAIN exprs[i] -> {"code", "code_blocks"} \cap DOMAIN node.fields # {}
          [] "field" \in DOMAIN exprs[i] ->
                /\ exprs[i].field \in DOMAIN node.fields
                /\ Answers(node, exprs[i].field) \cap exprs[i].values # {}
          [] OTHER -> TRUE

\* Nodes that failed or are blocked, and all that they depend on.
ApplyDebugProfile(file) ==
    LET graph == BuildGraph(file)
        primary == {n.id : n \in {m \in ToSet(file.nodes) :
                       Text(m, "execution_status") \in {Word("failed"), Word("blocked")}}}
        selected == {Name(id) : id \in primary} \cup UNION {TransitiveDeps(graph, Name(id)) : id \in primary}
    IN Part(file, "executable", LAMBDA n : Name(n.id) \in selected)

\* The profile named, or the header's default; without either the whole file.
ResolveAndApply(file, name) ==
    LET default == file.header["default_load"].text
        wanted == IF name # NoText THEN name[1].parts ELSE default[1].parts
        profiles == file.header["load_profiles"].profiles
        exprs == ParseFilter(profiles[wanted[1]].filter[1].parts)
    IN IF name = NoText /\ "default_load" \notin DOMAIN file.header THEN file
       ELSE IF Lowered(wanted) = <<"debug">> THEN ApplyDebugProfile(file)
       ELSE IF "load_profiles" \notin DOMAIN file.header THEN [error |-> "NoProfilesDefined"]
       ELSE IF wanted[1] \notin DOMAIN profiles
            THEN [error |-> IF name = NoText THEN "DefaultProfileNotFound" ELSE "UnknownProfile"]
       ELSE Part(file, "operational", LAMBDA n : MatchesFilter(n, exprs))

LoadProfile(file, name) == ResolveAndApply(file, name)
=============================================================================
