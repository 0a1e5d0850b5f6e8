------------------------------ MODULE Compiler ------------------------------
(* Making an AGM file of Markdown (agm-core/src/compiler).  The Markdown     *)
(* parser is a library: a document is its blocks, and Events says what the   *)
(* library reports of them.                                                  *)
EXTENDS Graph

CONSTANTS
    Matching,       \* [pattern -> words it is found in]: the regular expressions of the classifier
    SegmentOf,      \* [words of a heading -> word]: the heading as a part of an id; "" when nothing is left
    WordsIn,        \* [id -> its words of three letters or more]
    Stops,          \* words that end a sentence
    SummaryWords    \* how many words a summary may have: as many as fit in 100 characters

\* Blocks: [heading], [paragraph: lines], [list: items, ordered], [code, lang]; an item is its words and a
\* list or none inside it.
RECURSIVE ListEvents(_)
ListEvents(list) ==
    <<[is |-> "list", ordered |-> list.ordered]>>
    \o FlattenSeq([i \in DOMAIN list.list |->
           <<[is |-> "item"], [is |-> "text", words |-> list.list[i].words]>>
           \o FlattenSeq([k \in DOMAIN list.list[i].inside |-> ListEvents(list.list[i].inside[k])])
           \o <<[is |-> "/item"]>>])
    \o <<[is |-> "/list"]>>

Events(block) ==
    LET around(start, words) == <<start, [is |-> "text", words |-> words]>>
    IN CASE "heading" \in DOMAIN block -> around([is |-> "heading"], block.heading) \o <<[is |-> "/heading"]>>
         [] "paragraph" \in DOMAIN block ->
               around([is |-> "paragraph"], FlattenSeq(block.paragraph)) \o <<[is |-> "/paragraph"]>>
         [] "list" \in DOMAIN block -> ListEvents(block)
         [] "code" \in DOMAIN block ->
               around([is |-> "code", lang |-> block.lang], block.code) \o <<[is |-> "/code"]>>

Section(heading, body, code) ==
    [heading |-> heading, body |-> body, items |-> <<>>, ordered |-> FALSE, code |-> code]

-----------------------------------------------------------------------------
(* Sections: what stands between two headings.                               *)

Onto(s, Change(_)) == [s EXCEPT !.current = [i \in DOMAIN @ |-> Change(@[i])]]

\* Text goes to the innermost of what is open; before the first heading there is no place for it.
TakeText(s, words) ==
    CASE s.in_heading -> [s EXCEPT !.heading = @ \o words]
      [] ~s.in_heading /\ s.in_code -> [s EXCEPT !.code = @ \o words]
      [] ~s.in_heading /\ ~s.in_code /\ s.in_item -> [s EXCEPT !.item = @ \o words]
      [] ~s.in_heading /\ ~s.in_code /\ ~s.in_item /\ s.in_paragraph ->
            Onto(s, LAMBDA sec : [sec EXCEPT !.body = OneLine((IF @ = NoText THEN <<>> ELSE @[1].parts) \o words)])
      [] OTHER -> s

\* A code block before any heading opens a section without a name.
EndCode(s) ==
    LET block == [lang |-> s.lang, body |-> s.code]
    IN IF s.current = <<>> THEN [s EXCEPT !.current = <<Section(<<>>, NoText, <<block>>)>>]
       ELSE Onto(s, LAMBDA sec : [sec EXCEPT !.code = Append(@, block)])

OnEvent(s, e) ==
    CASE e.is = "heading" -> [s EXCEPT !.sections = @ \o s.current, !.current = <<>>,
                                       !.in_heading = TRUE, !.heading = <<>>]
      [] e.is = "/heading" -> [s EXCEPT !.in_heading = FALSE, !.current = <<Section(s.heading, NoText, <<>>)>>]
      [] e.is = "list" -> [s EXCEPT !.ordered = e.ordered]
      [] e.is = "/list" -> Onto(s, LAMBDA sec : [sec EXCEPT !.ordered = s.ordered])
      [] e.is = "item" -> [s EXCEPT !.in_item = TRUE, !.item = <<>>]
      [] e.is = "/item" -> Onto([s EXCEPT !.in_item = FALSE],
                                LAMBDA sec : [sec EXCEPT !.items = Append(@, s.item)])
      [] e.is = "code" -> [s EXCEPT !.in_code = TRUE, !.lang = e.lang, !.code = <<>>]
      [] e.is = "/code" -> [EndCode(s) EXCEPT !.in_code = FALSE, !.code = <<>>]
      [] e.is = "paragraph" -> [s EXCEPT !.in_paragraph = TRUE]
      [] e.is = "/paragraph" -> [s EXCEPT !.in_paragraph = FALSE]
      [] e.is = "text" -> TakeText(s, e.words)

\* The text of a document of paragraphs and flat lists.
Source(blocks) ==
    FlattenSeq([b \in DOMAIN blocks |->
        IF "paragraph" \in DOMAIN blocks[b]
        THEN [i \in DOMAIN blocks[b].paragraph |-> Raw(0, blocks[b].paragraph[i])]
        ELSE [i \in DOMAIN blocks[b].list |->
                 Raw(0, <<IF blocks[b].ordered THEN "1." ELSE "-">> \o blocks[b].list[i].words)]])

\* Without a heading and without code the whole text is the body of one section.
ExtractSections(blocks) ==
    LET start == [sections |-> <<>>, current |-> <<>>, heading |-> <<>>, item |-> <<>>, code |-> <<>>,
                  lang |-> <<>>, ordered |-> FALSE, in_heading |-> FALSE, in_item |-> FALSE,
                  in_code |-> FALSE, in_paragraph |-> FALSE]
        end == FoldLeft(OnEvent, start, FlattenSeq([i \in DOMAIN blocks |-> Events(blocks[i])]))
        all == end.sections \o end.current
    IN IF all = <<>> /\ blocks # <<>> THEN <<Section(<<>>, Source(blocks), <<>>)>> ELSE all

-----------------------------------------------------------------------------
(* The type of a section, by what is found in it.  Scores are in percent.    *)

TypePatterns == <<
    [type |-> "rules",
     heading |-> {"constraint", "rule", "requirement", "policy", "regulation"},
     body |-> {"must", "must not", "shall", "shall not", "do not", "required", "prohibited"}],
    [type |-> "workflow",
     heading |-> {"flow", "process", "procedure", "pipeline", "workflow", "steps"},
     body |-> {"the flow is", "step 1", "first,", "then,", "finally,"}],
    [type |-> "entity",
     heading |-> {"entity", "model", "schema", "object", "record", "table"},
     body |-> {"contains", "fields", "attributes", "properties", "columns"}],
    [type |-> "decision",
     heading |-> {"decision", "adr", "choice", "rationale"},
     body |-> {"we decided", "decision", "chosen because", "trade-off", "tradeoff", "alternative"}],
    [type |-> "exception",
     heading |-> {"exception", "error", "failure", "fallback", "recovery"},
     body |-> {"in case of", "if .* fails", "when .* error", "fallback", "recovery"}],
    [type |-> "example",
     heading |-> {"example", "sample", "demo", "tutorial", "walkthrough"},
     body |-> {"for example", "e.g.", "such as", "consider the following"}],
    [type |-> "glossary",
     heading |-> {"glossary", "terminology", "definitions", "terms"},
     body |-> {"means", "is defined as", "refers to", "definition"}],
    [type |-> "anti_pattern",
     heading |-> {"anti.?pattern", "bad practice", "pitfall", "avoid", "don't"},
     body |-> {"avoid", "bad practice", "do not", "never", "common mistake", "pitfall"}],
    [type |-> "ticket",
     heading |-> {"ticket", "issue", "task", "bug", "feature request", "story"},
     body |-> {"priority:", "assignee:", "as a user", "acceptance criteria", "closes #", "fixes #", "resolves #"}]>>

Capped(n, cap) == IF n > cap THEN cap ELSE n
Hits(patterns, words) ==
    Cardinality({p \in patterns : p \in DOMAIN Matching /\ Matching[p] \cap words # {}})

ScoreOf(pattern, section) ==
    LET body == WordsOf(section.body) \cup UNION {ToSet(item) : item \in ToSet(section.items)}
    IN Capped(Capped(40 * Hits(pattern.heading, ToSet(section.heading)), 60)
              + Capped(15 * Hits(pattern.body, body), 60)
              + (IF pattern.type = "workflow" /\ section.ordered THEN 20 ELSE 0)
              + (IF pattern.type = "example" /\ section.code # <<>> THEN 10 ELSE 0), 100)

\* The best of the types, the first of equals; facts when nothing is found at all.
Classify(section) ==
    LET score(i) == ScoreOf(TypePatterns[i], section)
        best == Max({score(i) : i \in DOMAIN TypePatterns})
        first == Min({i \in DOMAIN TypePatterns : score(i) = best})
    IN IF best = 0 THEN [type |-> "facts", confidence |-> 20]
       ELSE [type |-> TypePatterns[first].type, confidence |-> best]

-----------------------------------------------------------------------------
(* Ids and nodes.                                                            *)

\* The id made of parts with dots between them.
Joining(parts) == CHOOSE w \in DOMAIN Segments : Segments[w] = parts

HeadingToId(heading, prefix) ==
    LET segment == SegmentOf[heading]
    IN IF prefix # "" THEN Joining(<<prefix, segment>>) ELSE segment

\* With the first number after it that makes the id nobody else's.
MakeUnique(base, used) ==
    LET numbered(n) == Joining(Append(Dotted(base), n))
        free == {n \in DOMAIN Digits : numbered(n) \notin used}
    IN IF base \notin used THEN base
       ELSE numbered(CHOOSE n \in free : \A m \in free : Digits[n] <= Digits[m])

FirstSentence(parts) ==
    SubSeq(parts, 1, Min({Len(parts)} \cup {i \in DOMAIN parts : parts[i] \in Stops}))

TruncateAtWord(parts) ==
    IF Len(parts) <= SummaryWords THEN parts ELSE SubSeq(parts, 1, SummaryWords) \o <<"...">>

\* The first sentence of a body of several lines, line by line.
FirstSentenceOf(body) ==
    LET ends == {i \in DOMAIN body : ToSet(body[i].parts) \cap Stops # {}}
        upto == IF ends = {} THEN Len(body) ELSE Min(ends)
    IN [i \in 1..upto |-> IF i = upto THEN [body[i] EXCEPT !.parts = FirstSentence(@)] ELSE body[i]]

GenerateSummary(section, type) ==
    LET separator == IF type \in {"workflow", "orchestration"} THEN "->" ELSE ";"
        joined == FlattenSeq([i \in DOMAIN section.items |->
                      (IF i = 1 THEN <<>> ELSE <<separator>>) \o section.items[i]])
        sentence == FirstSentenceOf(section.body)
    IN IF section.body # NoText
       THEN [i \in DOMAIN sentence |-> [sentence[i] EXCEPT !.parts = TruncateAtWord(@)]]
       ELSE IF section.items # <<>> THEN OneLine(TruncateAtWord(joined))
       ELSE IF section.heading # <<>> THEN OneLine(section.heading)
       ELSE OneLine(<<"untitled", "section">>)

FullCode(block) ==
    [action |-> Word("full"), body |-> OneLine(block.body)]
    @@ (IF block.lang = <<>> THEN <<>> ELSE [lang |-> OneLine(block.lang)])

MapToNode(section, type, id) ==
    LET steps == section.ordered /\ type \in {"workflow", "orchestration"}
        blocks == [i \in DOMAIN section.code |-> FullCode(section.code[i])]
    IN [id |-> <<id>>, extra |-> <<>>,
        fields |-> [type |-> [text |-> Word(type)],
                    summary |-> [text |-> GenerateSummary(section, type)]]
                   @@ (IF section.body = NoText THEN <<>> ELSE [detail |-> [text |-> section.body]])
                   @@ (IF section.items = <<>> THEN <<>>
                       ELSE IF steps THEN [steps |-> [list |-> section.items]]
                       ELSE [items |-> [list |-> section.items]])
                   @@ (IF blocks = <<>> THEN <<>>
                       ELSE IF Len(blocks) = 1 THEN [code |-> [code |-> blocks[1]]]
                       ELSE [code_blocks |-> [code_blocks |-> blocks]])]

\* A section nothing is in, and one nobody is sure of, is passed over.
NewNode(nodes, section, class, options) ==
    LET base == HeadingToId(section.heading, options.prefix)
        id == MakeUnique(IF base = "" THEN "node" ELSE base, {n.id[1] : n \in ToSet(nodes)})
    IN IF class.confidence < options.min_confidence THEN nodes
       ELSE Append(nodes, MapToNode(section, class.type, id))

AddSection(nodes, section, options) ==
    IF section.body = NoText /\ section.items = <<>> /\ section.code = <<>> THEN nodes
    ELSE NewNode(nodes, section, Classify(section), options)

\* What a node takes over from the next of its type: lists and details, nothing else.
MergeInto(node, next) ==
    LET lists == {"items", "steps"} \cap DOMAIN next.fields
        joined == (IF "detail" \in DOMAIN node.fields THEN Text(node, "detail") \o <<Raw(0, <<>>)>> ELSE <<>>)
                  \o Text(next, "detail")
    IN [node EXCEPT !.fields = [k \in lists |-> [list |-> List(node, k) \o List(next, k)]]
                               @@ (IF "detail" \in DOMAIN next.fields THEN [detail |-> [text |-> joined]] ELSE <<>>)
                               @@ @]

MergeConsecutiveSameType(nodes) ==
    FoldLeft(LAMBDA done, node :
                 IF done # <<>> /\ TypeOf(Last(done)) = TypeOf(node)
                 THEN Front(done) \o <<MergeInto(Last(done), node)>> ELSE Append(done, node),
             <<>>, nodes)

-----------------------------------------------------------------------------
(* Relations that the texts of the nodes speak of.                           *)

DependsWords == {"depends_on", "requires", "after"}
SeeWords == {"see", "see_also", "refer_to"}

Content(text) == FlattenSeq([i \in DOMAIN text |-> text[i].parts])
GatherContent(node) ==
    Content(Text(node, "summary")) \o Content(Text(node, "detail"))
    \o FlattenSeq(List(node, "items") \o List(node, "steps"))

FuzzyMatchId(id, ref) == ref = id \/ ref = Last(Dotted(id))

\* The nodes a word after one of the markers refers to, those of one word in the order of a hash table.
WordsAfter(markers, content) ==
    SelectSeq([i \in 1..(Len(content) - 1) |-> IF content[i] \in markers THEN content[i + 1] ELSE ""],
              LAMBDA w : w # "")
Matched(id, refs, order) ==
    FlattenSeq([k \in DOMAIN refs |->
        SelectSeq(order, LAMBDA other : other # id /\ FuzzyMatchId(other, refs[k]))])

Referred(node, content, markers, order) == Matched(node.id[1], WordsAfter(markers, content), order)

\* The nodes more than half of whose words the text holds.
Related(node, content, ids) ==
    LET said(id) == Cardinality({i \in DOMAIN WordsIn[id] : WordsIn[id][i] \in ToSet(content)})
    IN SelectSeq(ids, LAMBDA id : /\ id # node.id[1]
                                  /\ Len(WordsIn[id]) >= 2
                                  /\ said(id) > Len(WordsIn[id]) \div 2)

Once(seq) == SelectSeq([i \in DOMAIN seq |-> IF seq[i] \in ToSet(SubSeq(seq, 1, i - 1)) THEN "" ELSE seq[i]],
                       LAMBDA id : id # "")

ListRelation(node, key, ids) ==
    IF ids = <<>> THEN node ELSE SetField(node, key, [list |-> [i \in DOMAIN ids |-> <<ids[i]>>]])
WithRelation(node, key, ids) == ListRelation(node, key, Once(ids))

\* What a node says decides, before any relation is added to it.
InferNode(node, content, ids, order) ==
    WithRelation(WithRelation(WithRelation(node,
        "depends", Referred(node, content, DependsWords, order)),
        "related_to", Related(node, content, ids)),
        "see_also", Referred(node, content, SeeWords, order))

Infer(nodes, order) ==
    LET ids == [i \in DOMAIN nodes |-> nodes[i].id[1]]
    IN IF Len(nodes) < 2 THEN nodes
       ELSE [i \in DOMAIN nodes |-> InferNode(nodes[i], GatherContent(nodes[i]), ids, order)]

\* The file made of a document; ranks is the order in which a hash table gives its ids.
Inferred(nodes, ranks) ==
    Infer(nodes, SetToSortSeq({n.id[1] : n \in ToSet(nodes)}, LAMBDA a, b : ranks[a] < ranks[b]))
Made(blocks, options) ==
    FoldLeft(LAMBDA nodes, section : AddSection(nodes, section, options), <<>>, ExtractSections(blocks))
MergedIf(merge, nodes) == IF merge THEN MergeConsecutiveSameType(nodes) ELSE nodes

Compile(blocks, options, ranks) ==
    [header |-> [agm |-> [text |-> Word("1.0")], package |-> [text |-> options.package],
                 version |-> [text |-> options.version]],
     nodes |-> Inferred(MergedIf(options.merge_same_type, Made(blocks, options)), ranks)]
=============================================================================
