----------------------------- MODULE Normalizer -----------------------------
(* The rewriting of synonyms of types and fields (agm-core/src/normalize).   *)
EXTENDS Canonical, Schema

\* A rule set: synonyms of types, of fields by type, and of fields of every type.
RuleSet(types, fields, universal) == [types |-> types, fields |-> fields, universal |-> universal]

Builtin ==
    LET needs == {"depends_on", "prereq", "needs"}
    IN RuleSet([orchestration |-> {"plan", "plan_execution", "execution_plan"}],
               [orchestration |-> [parallel_groups |-> {"groups", "phases"}, depends |-> needs],
                workflow |-> [code_blocks |-> {"steps_with_code", "code_steps"},
                              steps |-> {"tasks", "task_list"}],
                ticket |-> [labels |-> {"tags_list"}]],
               [depends |-> needs, related_to |-> {"related", "see", "relates_to"}])

\* The other set's entries replace those of the same canonical name.
Merge(rules, other) ==
    LET fields(type) == (IF type \in DOMAIN other.fields THEN other.fields[type] ELSE <<>>)
                        @@ (IF type \in DOMAIN rules.fields THEN rules.fields[type] ELSE <<>>)
    IN RuleSet(other.types @@ rules.types,
               [type \in DOMAIN rules.fields \cup DOMAIN other.fields |-> fields(type)],
               other.universal @@ rules.universal)

\* The canonical names a synonym has in a map, none or more.
CanonicalOf(map, synonym) == {c \in DOMAIN map : synonym \in map[c]}

\* The alias of the type goes before the universal one, the last canonical name before the others.
ReverseIndex(rules, type, synonym) ==
    LET own == IF type \in DOMAIN rules.fields THEN CanonicalOf(rules.fields[type], synonym) ELSE {}
        all == IF own # {} THEN own ELSE CanonicalOf(rules.universal, synonym)
    IN IF all = {} THEN "" ELSE Last(Sorted(all))

CanonicalFieldExpectsList ==
    {"depends", "related_to", "replaces", "conflicts", "see_also", "tags", "aliases", "keywords", "items",
     "steps", "fields", "input", "output", "rationale", "tradeoffs", "resolution", "labels", "scope",
     "parallel_groups", "code_blocks", "verify", "memory"}

\* Lists of objects have no place for a list of texts: it stays an extra field.
SetCanonicalField(node, canonical, value) ==
    IF canonical \in ListFields /\ "list" \in DOMAIN value THEN SetField(node, canonical, value)
    ELSE IF canonical = "detail" THEN
        SetField(node, "detail", [text |-> IF "block" \in DOMAIN value THEN value.block
                                           ELSE OneLine(value.scalar)])
    ELSE SetExtra(node, canonical, value)

IsCanonicalFieldSet(node, canonical) ==
    /\ canonical \in DOMAIN node.fields
    /\ canonical \in ListFields \cup {"detail", "parallel_groups", "code_blocks"}

Without(f, key) == [k \in DOMAIN f \ {key} |-> f[k]]

RewrittenDropping(state, rules, synonym) ==
    LET canonical == ReverseIndex(rules, TypeOf(state.node), synonym)
        value == state.node.extra[synonym]
        fits == ("list" \in DOMAIN value) = (canonical \in CanonicalFieldExpectsList)
        removed == [state.node EXCEPT !.extra = Without(@, synonym)]
    IN IF canonical = "" THEN state
       ELSE IF ~fits \/ IsCanonicalFieldSet(state.node, canonical) THEN [state EXCEPT !.node = removed]
       ELSE [state EXCEPT !.node = SetCanonicalField(removed, canonical, value)]

\* A synonym of the wrong kind is left, one whose canonical field is there is dropped.
Rewritten(state, rules, synonym) ==
    LET node == state.node
        canonical == ReverseIndex(rules, TypeOf(node), synonym)
        value == node.extra[synonym]
        fits == ("list" \in DOMAIN value) = (canonical \in CanonicalFieldExpectsList)
        removed == [node EXCEPT !.extra = Without(@, synonym)]
    IN IF canonical = "" \/ ~fits THEN state
       ELSE IF IsCanonicalFieldSet(node, canonical) THEN [state EXCEPT !.node = removed]
       ELSE [node |-> SetCanonicalField(removed, canonical, value),
             rewrites |-> Append(state.rewrites, <<node.id, synonym, canonical>>)]

RewrittenType(node, rules) ==
    LET all == CanonicalOf(rules.types, TypeOf(node))
    IN IF TypeOf(node) \in DOMAIN GetSchema \/ all = {} THEN [node |-> node, rewrites |-> <<>>]
       ELSE LET type == Sorted(all)[1]
            IN [node |-> SetField(node, "type", [text |-> Word(type)]),
                rewrites |-> << <<node.id, TypeOf(node), type>> >>]

NormalizeNode(node, rules, types, fields) ==
    LET typed == IF types THEN RewrittenType(node, rules) ELSE [node |-> node, rewrites |-> <<>>]
        keys == Sorted(DOMAIN node.extra)
    IN IF fields THEN FoldLeft(LAMBDA state, key : Rewritten(state, rules, key), typed, keys) ELSE typed

\* The file with its synonyms rewritten, and the rewrites.
RewrittenFile(file, all) ==
    [file |-> [file EXCEPT !.nodes = [i \in DOMAIN all |-> all[i].node]],
     rewrites |-> FlattenSeq([i \in DOMAIN all |-> all[i].rewrites])]
NormalizeAst(file, rules, types, fields) ==
    RewrittenFile(file, [i \in DOMAIN file.nodes |-> NormalizeNode(file.nodes[i], rules, types, fields)])

\* The text of a file, normalised: an error of the parser, or the new text and the rewrites.
RenderRewritten(done) == [text |-> RenderCanonical(done.file), rewrites |-> done.rewrites]
NormalizeParsed(file, rules, types, fields) ==
    IF "errors" \in DOMAIN file THEN file ELSE RenderRewritten(NormalizeAst(file, rules, types, fields))

NormalizeText(doc, rules, types, fields) == NormalizeParsed(Parse(doc), rules, types, fields)
=============================================================================
