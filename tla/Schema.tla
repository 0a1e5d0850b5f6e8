------------------------------- MODULE Schema -------------------------------
(* What a node of each type holds (agm-core/src/schema/registry.rs and       *)
(* enforcement.rs) and the JSON schemas made of it (agm-core/src/schemas).   *)
EXTENDS Parser

TypeSchema(required, recommended, allowed, disallowed) ==
    [required |-> required, recommended |-> recommended, allowed |-> allowed, disallowed |-> disallowed]

UniversalFields ==
    {"type", "summary", "priority", "stability", "confidence", "status", "tags", "keywords", "aliases",
     "scope", "applies_when", "valid_from", "valid_until", "depends", "related_to", "replaces",
     "conflicts", "see_also", "notes", "execution_status", "executed_by", "executed_at",
     "execution_log", "retry_count", "memory"}

FactsSchema == TypeSchema({"summary"}, {"items", "stability", "priority"}, {"detail", "tags", "fields"},
                          {"steps", "rationale", "resolution", "parallel_groups"})
RulesSchema == TypeSchema({"summary", "items"}, {"stability", "priority"},
                          {"detail", "scope", "applies_when"}, {"steps", "fields", "parallel_groups"})
WorkflowSchema ==
    TypeSchema({"summary"}, {"steps", "input", "output", "stability", "priority"},
               {"detail", "code", "code_blocks", "verify", "agent_context", "target"},
               {"fields", "parallel_groups"})
EntitySchema == TypeSchema({"summary", "fields"}, {"stability", "priority"}, {"detail", "related_to"},
                           {"steps", "rationale", "resolution", "parallel_groups", "code"})
DecisionSchema ==
    TypeSchema({"summary", "rationale"}, {"stability", "priority", "tradeoffs"},
               {"detail", "depends", "conflicts", "replaces"},
               {"steps", "fields", "parallel_groups", "code"})
ExceptionSchema ==
    TypeSchema({"summary"}, {"resolution", "stability", "priority"}, {"detail", "depends"},
               {"steps", "fields", "rationale", "parallel_groups", "code"})
ExampleSchema == TypeSchema({"summary"}, {"depends"}, {"detail", "code", "code_blocks"},
                            {"rationale", "resolution", "parallel_groups"})
GlossarySchema == TypeSchema({"summary"}, {"aliases"}, {"detail", "related_to"},
                             {"steps", "fields", "rationale", "resolution", "code", "parallel_groups"})
AntiPatternSchema == TypeSchema({"summary"}, {"detail", "conflicts"}, {"related_to", "resolution"},
                                {"steps", "fields", "rationale", "code", "parallel_groups"})
OrchestrationSchema ==
    TypeSchema({"summary", "parallel_groups"}, {"detail"}, {"depends"},
               {"steps", "items", "fields", "code", "code_blocks", "verify", "rationale", "resolution"})
TicketSchema ==
    TypeSchema({"summary", "title", "description", "priority"}, {"action", "sdd_phase", "labels"},
               {"prompt", "assignee", "ticket_id", "detail", "agent_context", "code_blocks"},
               {"steps", "parallel_groups", "fields", "input", "output", "rationale", "resolution"})

\* The types that have a schema; every other type is a custom one.
GetSchema ==
    [facts |-> FactsSchema, rules |-> RulesSchema, workflow |-> WorkflowSchema,
     entity |-> EntitySchema, decision |-> DecisionSchema, exception |-> ExceptionSchema,
     example |-> ExampleSchema, glossary |-> GlossarySchema, anti_pattern |-> AntiPatternSchema,
     orchestration |-> OrchestrationSchema, ticket |-> TicketSchema]

TypeOf(node) == node.fields["type"].text[1].parts[1]

\* A diagnostic: its code, its severity, and the node it is about.
Diag(code, severity, id) == [code |-> code, severity |-> severity, id |-> id]
Errors(diags) == {d \in diags : d.severity = "error"}

\* The fields that a node has members for: an extra field of such a name does not count.
StructFields == TextFields \cup EnumFields \cup ListFields \cup (StructuredFields \ {"load_profiles"})

FieldIsPresent(node, field) ==
    field \in DOMAIN node.fields \/ field \in DOMAIN node.extra \ StructFields

PresentFields(node) == DOMAIN node.fields \cup DOMAIN node.extra

ValidateSchema(node, level) ==
    LET schema == GetSchema[TypeOf(node)]
        lax == level = "permissive"
        missing(fields) == {f \in fields : ~FieldIsPresent(node, f)}
    IN IF TypeOf(node) \notin DOMAIN GetSchema THEN {}
       ELSE {Diag("V024", IF lax THEN "warning" ELSE "error", node.id) :
                f \in missing(schema.required \ {"summary"})}
            \cup {Diag("V010", "warning", node.id) : f \in missing(schema.recommended) \ (IF lax THEN schema.recommended ELSE {})}
            \cup {IF level = "strict" THEN Diag("V016", "error", node.id) ELSE Diag("V017", "warning", node.id) :
                     f \in IF lax THEN {}
                           ELSE (PresentFields(node) \ UniversalFields) \cap schema.disallowed}

-----------------------------------------------------------------------------
(* JSON values: a text, a number, a list of texts, an object or a list of    *)
(* objects, each by its kind.  The schema of an object says which members it *)
(* must have and which kinds its members are of.                             *)

Str(text) == [kind |-> "str", text |-> text]
Num(text) == [kind |-> "num", text |-> text]
Strs(items) == [kind |-> "strs", items |-> items]
Obj(members) == [kind |-> "obj", members |-> members]
Objs(objects) == [kind |-> "objs", objects |-> objects]

EmptyArray(value) == \/ value.kind = "strs" /\ value.items = <<>>
                     \/ value.kind = "objs" /\ value.objects = <<>>

IsStr(value) == value.kind = "str"
IsEnum(value) == value.kind = "str" /\ Parses(value.text)
IsStrs(value) == value.kind = "strs" \/ EmptyArray(value)
IsNum(value) == value.kind = "num"

Has(members, key) == key \in DOMAIN members
Fits(members, keys, Kind(_)) == \A k \in keys \cap DOMAIN members : Kind(members[k])

CodeBlockDef(members) ==
    /\ {"action", "body"} \subseteq DOMAIN members
    /\ DOMAIN members \subseteq {"lang", "target", "action", "body", "anchor", "old"}
    /\ Fits(members, {"lang", "target", "body", "anchor", "old"}, IsStr)
    /\ Fits(members, {"action"}, IsEnum)

VerifyCheckDef(members) ==
    \E type \in VerifyTypes :
        LET required == {"type"} \cup ToSet(VerifyFields(type))
        IN /\ required \subseteq DOMAIN members
           /\ DOMAIN members \subseteq required \cup (IF type = "command" THEN {"expect"} ELSE {})
           /\ Fits(members, DOMAIN members, IsStr)
           /\ members["type"].text = Word(type)

AgentContextDef(members) ==
    /\ Fits(members, {"system_hint"}, IsStr)
    /\ Fits(members, {"load_nodes", "load_memory"}, IsStrs)
    /\ Fits(members, {"load_files"}, LAMBDA v : v.kind = "objs" \/ IsStrs(v))
    /\ Fits(members, {"max_tokens"}, IsNum)

ParallelGroupDef(members) ==
    /\ {"group", "nodes", "strategy"} \subseteq DOMAIN members
    /\ DOMAIN members \subseteq {"group", "nodes", "strategy", "requires", "max_concurrency"}
    /\ Fits(members, {"group"}, IsStr)
    /\ Fits(members, {"nodes", "requires"}, IsStrs)
    /\ Fits(members, {"strategy"}, IsEnum)
    /\ Fits(members, {"max_concurrency"}, LAMBDA v : IsNum(v) /\ v.text # Word("0"))

MemoryEntryDef(members) ==
    /\ {"key", "topic", "action"} \subseteq DOMAIN members
    /\ DOMAIN members \subseteq {"key", "topic", "action", "value", "scope", "ttl", "query", "max_results"}
    /\ Fits(members, {"key", "topic", "value", "ttl", "query"}, IsStr)
    /\ Fits(members, {"action", "scope"}, IsEnum)
    /\ Fits(members, {"max_results"}, IsNum)

AllOf(value, Def(_)) ==
    \/ EmptyArray(value)
    \/ value.kind = "objs" /\ \A i \in DOMAIN value.objects : Def(value.objects[i])

\* What the schema says of a field of that name, in whatever type lists it.
FieldSchema(name, value) ==
    CASE name = "retry_count" -> IsNum(value)
      [] name \in EnumFields \ {"retry_count"} -> IsEnum(value)
      [] name \in ListFields -> IsStrs(value)
      [] name = "code" -> value.kind = "obj" /\ CodeBlockDef(value.members)
      [] name = "code_blocks" -> AllOf(value, CodeBlockDef)
      [] name = "verify" -> AllOf(value, VerifyCheckDef)
      [] name = "agent_context" -> value.kind = "obj" /\ AgentContextDef(value.members)
      [] name = "parallel_groups" -> AllOf(value, ParallelGroupDef)
      [] name = "memory" -> AllOf(value, MemoryEntryDef)
      [] OTHER -> IsStr(value)

\* The base schema of a type accepts the members of an object; other members are free.
BaseSchema(type, members) ==
    LET schema == GetSchema[type]
        known == UniversalFields \cup schema.required \cup schema.recommended \cup schema.allowed
    IN /\ {"type", "summary"} \cup schema.required \subseteq DOMAIN members
       /\ members["type"] = Str(Word(type))
       /\ \A k \in (known \ {"type"}) \cap DOMAIN members : FieldSchema(k, members[k])
=============================================================================
