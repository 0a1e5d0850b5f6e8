------------------------------ MODULE Canonical ------------------------------
(* The canonical form of a file (agm-core/src/renderer/canonical.rs), which  *)
(* `agm render`, `normalize`, `fix`, `ingest` and `compile` write.          *)
EXTENDS Parser

\* Written after `key: ` at the given indentation; the further lines of a text stand where they stand.
EmitScalar(indent, key, text) ==
    IF text = NoText THEN <<Raw(indent, <<key, ":">>)>>
    ELSE <<Raw(indent, <<key, ":">> \o text[1].parts)>> \o Tail(text)

Indented(text, by) ==
    [i \in DOMAIN text |-> IF text[i].parts = <<>> THEN text[i] ELSE [text[i] EXCEPT !.indent = @ + by]]

EmitBlock(indent, key, text, by) == <<Raw(indent, <<key, ":">>)>> \o Indented(text, by)

EmitBlockOrScalar(indent, key, text, by) ==
    IF Len(text) > 1 THEN EmitBlock(indent, key, text, by) ELSE EmitScalar(indent, key, text)

UsesInlineByLength(items) == Len(items) <= 3

\* Up to three items without commas and brackets stand on one line.
UsesInline(items) ==
    /\ Len(items) <= 3
    /\ \A i \in DOMAIN items : ToSet(items[i]) \cap {",", "[", "]"} = {}

Joined(items) == FlattenSeq([i \in DOMAIN items |-> IF i = 1 THEN items[i] ELSE <<",">> \o items[i]])

EmitItems(indent, key, items) ==
    <<Raw(indent, <<key, ":">>)>> \o [i \in DOMAIN items |-> Raw(indent + 2, <<"-">> \o items[i])]

EmitAnyList(indent, key, items) ==
    IF UsesInline(items) THEN <<Raw(indent, <<key, ":", "[">> \o Joined(items) \o <<"]">>)>>
    ELSE EmitItems(indent, key, items)

\* A list without items is not written.
EmitList(key, items) == IF items = <<>> THEN <<>> ELSE EmitAnyList(0, key, items)

EmitImports(items) == IF items = <<>> THEN <<>> ELSE EmitItems(0, "imports", items)

\* The texts of rec among keys, in the order of keys.
EmitTexts(indent, keys, rec) ==
    FlattenSeq([i \in DOMAIN keys |->
        IF keys[i] \in DOMAIN rec THEN EmitScalar(indent, keys[i], rec[keys[i]]) ELSE <<>>])

\* The fields of an object, the first of them on the line of its dash.
Dashed(lines) == <<Raw(lines[1].indent - 2, <<"-">> \o lines[1].parts)>> \o Tail(lines)

EmitObjects(key, objects, Emit(_)) ==
    IF objects = <<>> THEN <<>>
    ELSE <<Raw(0, <<key, ":">>)>> \o FlattenSeq([i \in DOMAIN objects |-> Dashed(Emit(objects[i]))])

EmitBodyUnmarked(indent, block) ==
    <<Raw(indent, <<"body", ":", "|">>)>> \o Indented(block.body, indent + 2)
    \o EmitTexts(indent, <<"anchor">>, block)
    \o (IF "old" \in DOMAIN block THEN EmitBlock(indent, "old", block.old, indent + 2) ELSE <<>>)

\* The body has its indentation written into its marker; `old` has not.
EmitBody(indent, block) ==
    <<Raw(indent, <<"body", ":", "|", "2">>)>>
    \o (IF block.body = NoText THEN <<Raw(0, <<>>)>> ELSE Indented(block.body, indent + 2))
    \o EmitTexts(indent, <<"anchor">>, block)
    \o (IF "old" \in DOMAIN block THEN EmitBlock(indent, "old", block.old, indent + 2) ELSE <<>>)

EmitCodeBlock(block) ==
    <<Raw(0, <<"code", ":">>)>> \o EmitTexts(2, <<"lang", "target", "action">>, block) \o EmitBody(2, block)

\* In a list of code blocks one without a language begins with its action, and its target is not written.
EmitCodeBlocksEntry(block) ==
    (IF "lang" \in DOMAIN block THEN EmitTexts(4, <<"lang", "target", "action">>, block)
     ELSE EmitTexts(4, <<"action">>, block))
    \o EmitBody(4, block)

EmitVerifyCheck(check) ==
    EmitTexts(4, <<"type">> \o VerifyFields(check.type[1].parts[1]) \o <<"expect">>, check)

EmitLoadFile(file) == Dashed(EmitTexts(6, <<"path", "range">>, file))

EmitAgentContext(context) ==
    LET lists(key) == IF key \in DOMAIN context THEN EmitAnyList(2, key, context[key].list) ELSE <<>>
    IN <<Raw(0, <<"agent_context", ":">>)>>
       \o lists("load_nodes")
       \o (IF "load_files" \in DOMAIN context
           THEN <<Raw(2, <<"load_files", ":">>)>>
                \o FlattenSeq([i \in DOMAIN context["load_files"].files |->
                                  EmitLoadFile(context["load_files"].files[i])])
           ELSE <<>>)
       \o (IF "system_hint" \in DOMAIN context
           THEN EmitBlockOrScalar(2, "system_hint", context["system_hint"].text, 4) ELSE <<>>)
       \o (IF "max_tokens" \in DOMAIN context
           THEN EmitScalar(2, "max_tokens", context["max_tokens"].text) ELSE <<>>)
       \o lists("load_memory")

EmitMemoryEntry(entry) ==
    EmitTexts(4, <<"key", "topic", "action", "value", "scope", "ttl", "query", "max_results">>, entry)

EmitParallelGroup(group) ==
    EmitTexts(4, <<"group">>, group.texts)
    \o EmitAnyList(4, "nodes", group.lists.nodes)
    \o EmitTexts(4, <<"strategy">>, group.texts)
    \o (IF "requires" \in DOMAIN group.lists THEN EmitAnyList(4, "requires", group.lists.requires)
        ELSE <<>>)
    \o EmitTexts(4, <<"max_concurrency">>, group.texts)

Sorted(keys) == SetToSortSeq(keys, LAMBDA a, b : KeyOrder[a] < KeyOrder[b])

EmitLoadProfiles(profiles) ==
    IF profiles = <<>> THEN <<>>
    ELSE <<Raw(0, <<"load_profiles", ":">>)>>
         \o FlattenSeq([i \in DOMAIN Sorted(DOMAIN profiles) |->
                LET name == Sorted(DOMAIN profiles)[i]
                IN <<Raw(2, <<name, ":">>)>>
                   \o EmitTexts(4, <<"filter", "estimated_tokens">>, profiles[name])])

\* The order of a node's fields.
FieldOrder ==
    <<"type", "title", "description", "action", "sdd_phase", "assignee", "ticket_id", "labels", "prompt",
      "status", "stability", "priority", "confidence", "depends", "related_to", "replaces", "conflicts",
      "see_also", "input", "output", "summary", "items", "steps", "fields", "code", "code_blocks", "verify",
      "agent_context", "target", "memory", "execution_status", "executed_by", "executed_at",
      "execution_log", "retry_count", "parallel_groups", "detail", "rationale", "tradeoffs", "resolution",
      "examples", "notes", "scope", "applies_when", "valid_from", "valid_until", "tags", "aliases",
      "keywords">>

EmitField(key, value) ==
    CASE key \in BlockFields -> EmitBlockOrScalar(0, key, value.text, 2)
      [] key \in (TextFields \cup EnumFields) \ BlockFields -> EmitScalar(0, key, value.text)
      [] key \in ListFields -> EmitList(key, value.list)
      [] key = "code" -> EmitCodeBlock(value.code)
      [] key = "code_blocks" -> EmitObjects(key, value.code_blocks, EmitCodeBlocksEntry)
      [] key = "verify" -> EmitObjects(key, value.verify, EmitVerifyCheck)
      [] key = "agent_context" -> EmitAgentContext(value.context)
      [] key = "memory" -> EmitObjects(key, value.memory, EmitMemoryEntry)
      [] key = "parallel_groups" -> EmitObjects(key, value.groups, EmitParallelGroup)

EmitExtra(key, value) ==
    CASE DOMAIN value = {"scalar"} -> EmitScalar(0, key, OneLine(value.scalar))
      [] DOMAIN value = {"block"} -> EmitBlockOrScalar(0, key, value.block, 2)
      [] DOMAIN value = {"list"} -> EmitList(key, value.list)

EmitNode(node) ==
    LET present == SelectSeq(FieldOrder, LAMBDA k : k \in DOMAIN node.fields)
        extra == Sorted(DOMAIN node.extra)
    IN <<Raw(0, <<"node">> \o node.id)>>
       \o FlattenSeq([i \in DOMAIN present |-> EmitField(present[i], node.fields[present[i]])])
       \o FlattenSeq([i \in DOMAIN extra |-> EmitExtra(extra[i], node.extra[extra[i]])])

HeaderOrder == <<"agm", "package", "version", "title", "owner", "imports", "default_load", "description",
                 "tags", "status", "load_profiles", "target_runtime">>

EmitHeaderField(key, value) ==
    CASE key = "description" -> EmitBlockOrScalar(0, key, value.text, 2)
      [] key = "tags" -> EmitList(key, value.list)
      [] key = "imports" -> EmitImports(value.list)
      [] key = "load_profiles" -> EmitLoadProfiles(value.profiles)
      [] OTHER -> EmitScalar(0, key, value.text)

RenderCanonical(file) ==
    LET present == SelectSeq(HeaderOrder, LAMBDA k : k \in DOMAIN file.header)
    IN FlattenSeq([i \in DOMAIN present |-> EmitHeaderField(present[i], file.header[present[i]])])
       \o FlattenSeq([i \in DOMAIN file.nodes |-> <<Raw(0, <<>>)>> \o EmitNode(file.nodes[i])])

-----------------------------------------------------------------------------
(* Which files survive being written in canonical form: the ones below do; those the conditions    *)
(* leave out are read back as another file, or not at all.                   *)

\* A text that becomes a block is read back up to the first line that is a field, a comment or a
\* node, and its first line gives its indentation.
BlockSurvives(text) ==
    Len(text) > 1 =>
        /\ text[1].parts # <<>>
        /\ \A i \in DOMAIN text :
              /\ text[i].parts # <<>> => text[i].indent >= text[1].indent
              /\ ClassifyLine(text[i]).kind \in {"plain", "item", "blank"}
        /\ ClassifyLine(text[1]).kind # "item"
        /\ text[1].indent = 0

ScalarSurvives(text) == text # NoText /\ Len(text) = 1 /\ text[1].parts[1] \notin {"[", "|"}

TextSurvives(text) == IF Len(text) > 1 THEN BlockSurvives(text) ELSE ScalarSurvives(text)

\* The texts of an object's fields are written on the line of their key, whatever they hold.
FieldsSurvive(rec) == \A k \in DOMAIN rec : ScalarSurvives(rec[k])

CodeBlockSurvives(block) ==
    /\ FieldsSurvive([k \in DOMAIN block \ {"body", "old"} |-> block[k]])
    /\ "old" \in DOMAIN block => block.old[1].indent = 0 /\ ClassifyLine(block.old[1]).kind # "item"

\* A list that is not on one line takes the dash of the next group for its own.
GroupSurvives(group, isLast) ==
    "requires" \in DOMAIN group.lists =>
        \/ UsesInline(group.lists.requires) \/ "max_concurrency" \in DOMAIN group.texts \/ isLast

FieldSurvives(key, value) ==
    CASE key \in BlockFields -> TextSurvives(value.text)
      [] key \in (TextFields \cup EnumFields) \ BlockFields -> ScalarSurvives(value.text)
      [] key \in ListFields -> value.list # <<>>
      [] key = "code" -> CodeBlockSurvives(value.code)
      [] key = "code_blocks" ->
            /\ value.code_blocks # <<>>
            /\ \A b \in ToSet(value.code_blocks) :
                  CodeBlockSurvives(b) /\ ("target" \in DOMAIN b => "lang" \in DOMAIN b)
      [] key = "verify" -> value.verify # <<>> /\ \A c \in ToSet(value.verify) : FieldsSurvive(c)
      [] key = "agent_context" ->
            /\ value.context # <<>>
            /\ "load_files" \in DOMAIN value.context =>
                  \A f \in ToSet(value.context["load_files"].files) : FieldsSurvive(f)
            /\ "system_hint" \in DOMAIN value.context => TextSurvives(value.context["system_hint"].text)
      [] key = "memory" -> value.memory # <<>> /\ \A e \in ToSet(value.memory) : FieldsSurvive(e)
      [] key = "parallel_groups" ->
            /\ value.groups # <<>>
            /\ \A i \in DOMAIN value.groups : GroupSurvives(value.groups[i], i = Len(value.groups))
      [] OTHER -> FALSE

ExtraSurvives(key, value) ==
    /\ key \notin BlockFields \cup TextFields \cup ListFields \cup EnumFields \cup StructuredFields
    /\ key # "body"
    /\ DOMAIN value = {"block"} => Len(value.block) > 1 /\ BlockSurvives(value.block)
    /\ DOMAIN value = {"list"} => value.list # <<>>
    /\ DOMAIN value = {"scalar"} => ScalarSurvives(OneLine(value.scalar))

NodeSurvives(node) ==
    /\ \A key \in DOMAIN node.fields : FieldSurvives(key, node.fields[key])
    /\ \A key \in DOMAIN node.extra : ExtraSurvives(key, node.extra[key])
=============================================================================
