------------------------------- MODULE Ingest -------------------------------
(* `agm ingest`: JSON objects become nodes (agm-core/src/ingest and builder), *)
(* the nodes a file, and the file is written if it is valid                   *)
(* (agm-cli/src/commands/ingest.rs).                                          *)
EXTENDS Normalizer, Validator

CONSTANTS
    Inputs,         \* what may be on the input: [elements], [element], or neither
    Calls,          \* the arguments: [type, id, level, normalize, check, header]
    FileRanges,     \* words that are a range of lines of a file
    IdAt            \* the ids made of the --id argument and an index

VARIABLES
    input, call,    \* what this run was given
    outcomes,       \* per element looked at: [node] or [error]
    written,        \* what is on the output
    code            \* the exit code; NotYet until there is one

vars == <<input, call, outcomes, written, code>>

NotYet == 255

Member(members, key) == IF key \in DOMAIN members THEN members[key] ELSE Num(NoText)
StrVal(members, key) == IF IsStr(Member(members, key)) THEN members[key].text ELSE NoText
HasStr(members, key) == IsStr(Member(members, key))
IsArray(value) == value.kind \in {"strs", "objs"}
HasArray(members, key) == IsArray(Member(members, key))

\* The texts of an array; whatever else is in it is left out.
StringList(value) == IF value.kind = "strs" THEN value.items ELSE <<>>
\* The objects of an array; an item that is no object has no members.
ObjectsOf(value) == IF value.kind = "objs" THEN value.objects ELSE [i \in DOMAIN value.items |-> <<>>]

JsonText == <<"json">>
ValueToFieldValue(value) ==
    CASE IsStr(value) -> [scalar |-> IF value.text = NoText THEN <<>> ELSE value.text[1].parts]
      [] IsArray(value) -> [list |-> StringList(value)]
      [] value.kind = "num" -> [block |-> value.text]
      [] value.kind = "obj" -> [block |-> OneLine(JsonText)]

-----------------------------------------------------------------------------
(* The objects inside an object.                                            *)

Texts(members, keys) == [k \in {j \in keys : HasStr(members, j)} |-> members[k].text]
Lists(members, keys) == [k \in {j \in keys : HasArray(members, j)} |-> StringList(members[k])]

JsonCodeBlock(members) ==
    [action |-> IF HasStr(members, "action") THEN members["action"].text ELSE Word("full"),
     body |-> StrVal(members, "body")]
    @@ Texts(members, {"lang", "target", "anchor", "old"})

\* A check of a type nobody knows becomes a command that says so.
JsonVerifyCheck(members) ==
    LET type == IF HasStr(members, "type") THEN members["type"].text[1].parts[1] ELSE "command"
        required == ToSet(VerifyFields(type))
    IN IF type \notin VerifyTypes
       THEN [type |-> Word("command"), run |-> OneLine(<<"#", "unknown">>)]
       ELSE [k \in required |-> StrVal(members, k)]
            @@ (IF type = "command" THEN Texts(members, {"expect"}) ELSE <<>>)
            @@ [type |-> Word(type)]

\* Of the ranges of a file only a function is kept; a range of lines becomes the whole file.
JsonLoadFile(members) ==
    LET range == StrVal(members, "range")
    IN [path |-> members["path"].text,
        range |-> IF Parses(range) /\ range[1].parts[1] \notin FileRanges THEN range ELSE Word("full")]

JsonAgentContext(value) ==
    LET members == IF value.kind = "obj" THEN value.members ELSE <<>>
        files == SelectSeq(ObjectsOf(members["load_files"]), LAMBDA f : HasStr(f, "path"))
    IN [k \in DOMAIN Lists(members, {"load_nodes", "load_memory"}) |-> [list |-> StringList(members[k])]]
       @@ [k \in DOMAIN Texts(members, {"system_hint"}) |-> [text |-> members[k].text]]
       @@ (IF IsNum(Member(members, "max_tokens")) /\ Has(members, "max_tokens")
           THEN [max_tokens |-> [text |-> members["max_tokens"].text]] ELSE <<>>)
       @@ (IF HasArray(members, "load_files")
           THEN [load_files |-> [files |-> [i \in DOMAIN files |-> JsonLoadFile(files[i])]]] ELSE <<>>)

JsonParallelGroup(members) ==
    [texts |-> [group |-> StrVal(members, "group"),
                strategy |-> IF HasStr(members, "strategy") THEN members["strategy"].text
                             ELSE Word("sequential")]
               @@ (IF Has(members, "max_concurrency") /\ IsNum(members["max_concurrency"])
                   THEN [max_concurrency |-> members["max_concurrency"].text] ELSE <<>>),
     lists |-> Lists(members, {"requires"})
               @@ [nodes |-> IF Has(members, "nodes") THEN StringList(members["nodes"]) ELSE <<>>]]

\* Whether the words that stand for a choice are among the choices.
ChoicesParse(objects, key) ==
    \A i \in DOMAIN objects : HasStr(objects[i], key) => Parses(objects[i][key].text)
ObjectsParse(members, key, choice) ==
    HasArray(members, key) => ChoicesParse(ObjectsOf(members[key]), choice)

-----------------------------------------------------------------------------
(* An object becomes a node.  Each type reads its own members and knows of   *)
(* a few more that it does not read; all others become extra fields.         *)

\* What a builder can set, besides the id, the type, the summary and extra fields.
Relations == {"depends", "related_to", "replaces", "conflicts", "see_also"}
EveryBuilder == Relations \cup {"stability", "tags", "notes", "detail"}
TicketBuilder == EveryBuilder \cup {"title", "description", "priority", "action", "sdd_phase", "labels",
                                    "prompt", "assignee", "ticket_id", "code_blocks", "agent_context"}
WorkflowBuilder == EveryBuilder \cup {"steps", "input", "output", "target", "priority", "code",
                                      "code_blocks", "verify", "agent_context"}
OrchestrationBuilder == EveryBuilder \cup {"parallel_groups"}
FactsBuilder == EveryBuilder \cup {"items"}
RulesBuilder == EveryBuilder \cup {"items"}
DecisionBuilder == EveryBuilder \cup {"rationale", "tradeoffs", "resolution"}

\* What a builder keeps of a list: some lose their duplicates.
DedupPreserveOrder(items) ==
    FoldLeft(LAMBDA kept, item : IF Contains(kept, item) THEN kept ELSE Append(kept, item), <<>>, items)
Listed(key, items) ==
    [list |-> IF key \in Relations \cup {"tags", "labels", "input", "output"}
              THEN DedupPreserveOrder(items) ELSE items]

\* What the object of each type is known to hold: the rest becomes extra fields.
Identity == {"node", "id", "type", "summary"}
EveryKnown == Identity \cup EveryBuilder \cup {"confidence", "status"}
TicketFromJson == EveryKnown \cup {"title", "description", "priority", "action", "sdd_phase", "labels", "prompt",
                                   "assignee", "ticket_id", "code_blocks", "agent_context"}
WorkflowFromJson == EveryKnown \cup {"steps", "input", "output", "code", "code_blocks", "verify",
                                     "agent_context", "target", "priority"}
OrchestrationFromJson == EveryKnown \cup {"parallel_groups"}
FactsFromJson == EveryKnown \cup {"items"}
RulesFromJson == EveryKnown \cup {"items"}
DecisionFromJson == EveryKnown \cup {"rationale", "tradeoffs", "resolution"}

Known == [ticket |-> TicketFromJson, workflow |-> WorkflowFromJson, orchestration |-> OrchestrationFromJson,
          facts |-> FactsFromJson, rules |-> RulesFromJson, decision |-> DecisionFromJson]
Builder == [ticket |-> TicketBuilder, workflow |-> WorkflowBuilder, orchestration |-> OrchestrationBuilder,
            facts |-> FactsBuilder, rules |-> RulesBuilder, decision |-> DecisionBuilder]

\* The code of a workflow is known, and the builder could set it, but it is not read.
Reads(type) == (Known[type] \cap Builder[type]) \ {"code"}

StructuredField(key, value) ==
    LET each(Read(_)) == [i \in DOMAIN ObjectsOf(value) |-> Read(ObjectsOf(value)[i])]
    IN CASE key = "code_blocks" -> [code_blocks |-> each(JsonCodeBlock)]
         [] key = "verify" -> [verify |-> each(JsonVerifyCheck)]
         [] key = "parallel_groups" -> [groups |-> each(JsonParallelGroup)]
         [] key = "agent_context" -> [context |-> JsonAgentContext(value)]

\* A member of the wrong kind for a field that is read is dropped.
IsReadable(key, value) ==
    CASE key \in ListFields \cup {"code_blocks", "verify", "parallel_groups"} -> IsArray(value)
      [] key = "agent_context" -> TRUE
      [] OTHER -> IsStr(value)

FieldOf(key, value) ==
    CASE key \in ListFields -> Listed(key, StringList(value))
      [] key \in StructuredFields -> StructuredField(key, value)
      [] OTHER -> [text |-> value.text]

Summary(members) == IF HasStr(members, "summary") THEN members["summary"].text ELSE StrVal(members, "title")

EveryChoiceParses(members, fields) ==
    /\ \A k \in fields \cap EnumFields : HasStr(members, k) => Parses(members[k].text)
    /\ "code_blocks" \in fields => ObjectsParse(members, "code_blocks", "action")
    /\ "parallel_groups" \in fields => ObjectsParse(members, "parallel_groups", "strategy")

Extras(members, keys) == [k \in keys |-> ValueToFieldValue(members[k])]
BaseFields(type, members) == [type |-> [text |-> Word(type)], summary |-> [text |-> Summary(members)]]

\* ticket_from_json and its five siblings; `build_unchecked` then refuses an empty id, which
\* resolve_id has already refused.
FromJson(type, id, members) ==
    LET fields == Reads(type)
        present == {k \in fields \cap DOMAIN members : IsReadable(k, members[k])}
    IN IF ~EveryChoiceParses(members, fields) THEN [error |-> "schema"]
       ELSE [node |-> [id |-> id,
                       fields |-> [k \in present |-> FieldOf(k, members[k])] @@ BaseFields(type, members),
                       extra |-> Extras(members, DOMAIN members \ Known[type])]]

\* The types without a builder: everything but the identity is an extra field.
BuildGeneric(type, id, members) ==
    [node |-> [id |-> id, fields |-> BaseFields(type, members),
               extra |-> Extras(members, DOMAIN members \ Identity)]]

DispatchBuild(type, id, members) ==
    IF type \in DOMAIN Known THEN FromJson(type, id, members) ELSE BuildGeneric(type, id, members)

-----------------------------------------------------------------------------
(* One value.                                                               *)

EnrichForIngest(type, id, members) ==
    LET named == HasStr(members, "node") \/ HasStr(members, "id")
        title == IF StrVal(members, "summary") = NoText /\ HasStr(members, "title")
                 THEN [summary |-> members["title"]] ELSE <<>>
    IN (IF named THEN <<>> ELSE [node |-> Str(id)]) @@ title @@ [type |-> Str(Word(type))] @@ members

ResolveId(members, id) ==
    LET given == SelectSeq(<<StrVal(members, "node"), StrVal(members, "id"), id>>, LAMBDA t : t # NoText)
    IN IF given = <<>> THEN NoText ELSE given[1]

\* The one node of a scratch file, normalised with the rules that are built in.
Normalized(node) == NormalizeNode(node, Builtin, TRUE, TRUE).node

Outcome(built, c) == IF "error" \in DOMAIN built \/ ~c.normalize THEN built
                     ELSE [node |-> Normalized(built.node)]

IngestOne(value, id, c) ==
    LET enriched == EnrichForIngest(c.type, id, value.members)
        resolved == ResolveId(enriched, id)
    IN IF value.kind # "obj" THEN [error |-> "object"]
       ELSE IF HasStr(value.members, "type") /\ value.members["type"].text # Word(c.type)
            THEN [error |-> "schema"]
       ELSE IF c.check /\ ~BaseSchema(c.type, enriched) THEN [error |-> "schema"]
       ELSE IF resolved = NoText THEN [error |-> "id"]
       ELSE Outcome(DispatchBuild(c.type, resolved[1].parts, enriched), c)

-----------------------------------------------------------------------------
(* The command.                                                             *)

Ok == 0
ValidationFailure == 1
JsonParseError == 2
MissingArg == 3

ExitCodeOf(error) ==
    CASE error = "object" -> JsonParseError [] error = "id" -> MissingArg [] OTHER -> ValidationFailure

IsBatch == "elements" \in DOMAIN input
Elements == IF IsBatch THEN input.elements ELSE IF "element" \in DOMAIN input THEN <<input.element>> ELSE <<>>

Init ==
    /\ input \in Inputs /\ call \in Calls
    /\ outcomes = <<>> /\ written = <<>> /\ code = NotYet

\* The arguments and the input as a whole are refused before anything is looked at.
Refuse ==
    /\ code = NotYet /\ outcomes = <<>>
    /\ \/ call.type \notin DOMAIN GetSchema /\ code' = MissingArg
       \/ call.type \in DOMAIN GetSchema /\ DOMAIN input \cap {"elements", "element"} = {} /\ code' = JsonParseError
       \/ call.type \in DOMAIN GetSchema /\ IsBatch /\ call.id = NoText /\ code' = MissingArg
    /\ UNCHANGED <<input, call, outcomes, written>>

MayStart == /\ call.type \in DOMAIN GetSchema
            /\ DOMAIN input \cap {"elements", "element"} # {}
            /\ IsBatch => call.id # NoText

\* The next value: in a batch all are looked at, whatever became of those before.
IngestNext ==
    /\ code = NotYet /\ MayStart /\ Len(outcomes) < Len(Elements)
    /\ LET n == Len(outcomes) + 1
           id == IF IsBatch THEN Word(IdAt[n]) ELSE call.id
       IN outcomes' = Append(outcomes, IngestOne(Elements[n], id, call))
    /\ UNCHANGED <<input, call, written, code>>

Failures == SelectSeq(outcomes, LAMBDA o : "error" \in DOMAIN o)

Header == [k \in DOMAIN call.header |-> [text |-> call.header[k]]]
Assembled == [header |-> Header, nodes |-> [i \in DOMAIN outcomes |-> outcomes[i].node]]

Done == code = NotYet /\ MayStart /\ Len(outcomes) = Len(Elements)

Fail ==
    /\ Done /\ Failures # <<>>
    /\ code' = IF IsBatch THEN ValidationFailure ELSE ExitCodeOf(Failures[1].error)
    /\ UNCHANGED <<input, call, outcomes, written>>

InvalidAlone == Errors(Validate(Assembled, call.level, TRUE, FALSE)) # {}
Invalid == Errors(Validate(Assembled, call.level, FALSE, FALSE)) # {}

\* The file is validated as a whole and written, unless the output refuses it.
Conclude ==
    /\ Done /\ Failures = <<>>
    /\ \/ code' = ValidationFailure /\ UNCHANGED written
       \/ ~Invalid /\ code' = Ok /\ written' = RenderCanonical(Assembled)
    /\ UNCHANGED <<input, call, outcomes>>

Next == Refuse \/ IngestNext \/ Fail \/ Conclude

Spec == Init /\ [][Next]_vars /\ WF_vars(Next)

-----------------------------------------------------------------------------
(* What a builder's `build_with` says of a node: it is validated alone, in a *)
(* scratch file.                                                             *)

ScratchHeader == [k \in FormattedHeaderFields |-> [text |-> Word("scratch")]]
WrapNode(node) == [header |-> ScratchHeader, nodes |-> <<node>>]
ValidateSingleNode(node, level) == Errors(Validate(WrapNode(node), level, TRUE, FALSE)) = {}

-----------------------------------------------------------------------------
(* Properties.                                                               *)

\* An extra field that the parser reads as the field it is named after, or as an extra field again,
\* and that no check of the validator looks at under its own name.
ExtraReadsBack(key, value) ==
    \/ ExtraSurvives(key, value)
    \/ key \in ListFields \ Relations /\ "list" \in DOMAIN value /\ value.list # <<>>
    \/ /\ "scalar" \in DOMAIN value /\ ScalarSurvives(OneLine(value.scalar))
       /\ \/ key \in TextFields \ {"valid_from", "valid_until", "executed_at"}
          \/ key \in EnumFields /\ Parses(OneLine(value.scalar))

ReadsBack(node) ==
    /\ \A key \in DOMAIN node.fields : FieldSurvives(key, node.fields[key])
    /\ \A key \in DOMAIN node.extra : ExtraReadsBack(key, node.extra[key])

IsValidWith(file, ids) ==
    /\ "errors" \notin DOMAIN file
    /\ [i \in DOMAIN file.nodes |-> file.nodes[i].id] = ids
    /\ Errors(Validate(file, call.level, FALSE, FALSE)) = {}

\* What `agm ingest` writes, `agm validate` accepts at the same level: the text is parsed as a file with
\* the same nodes and no errors (commands/ingest.rs, where the nodes are validated and not the text).  And
\* a builder would have built each node: a node validated alone is held to nothing that it is not held to
\* in its file (builder/common.rs, validate_single_node).
WrittenFileIsValid ==
    code = Ok =>
        /\ \A i \in DOMAIN outcomes : ValidateSingleNode(outcomes[i].node, call.level)
        /\ (\A i \in DOMAIN outcomes : ReadsBack(outcomes[i].node)) =>
              IsValidWith(Parse(written), [i \in DOMAIN outcomes |-> outcomes[i].node.id])

\* The members of an object that are not in the node made of it: those no type reads, those of the
\* wrong kind, and synonyms of a field that is there.
MayBeLost(members, node) ==
    Identity \cup {"confidence", "status", "code"}
    \cup {k \in DOMAIN members : ~IsReadable(k, members[k])}
    \cup {k \in DOMAIN members : call.normalize /\ ReverseIndex(Builtin, call.type, k) \in DOMAIN node.fields}

\* Every other member of an object is in its node, as a field or an extra field, under its name or under
\* the canonical one (from_json.rs, *_from_json, and normalize/engine.rs).
EveryMemberIsKept ==
    \A i \in {j \in DOMAIN outcomes : "node" \in DOMAIN outcomes[j]} :
        LET members == Elements[i].members
            node == outcomes[i].node
            held == DOMAIN node.fields \cup DOMAIN node.extra
        IN \A k \in DOMAIN members \ MayBeLost(members, node) :
              k \in held \/ (call.normalize /\ ReverseIndex(Builtin, call.type, k) \in held)
=============================================================================
