------------------------------- MODULE Parser -------------------------------
(* Lines of an AGM file, and the batch parser that makes a file of them     *)
(* (agm-core/src/parser).  A line is its indentation and its tokens, a      *)
(* token being a word or one of the marks # - : [ ] , | the lexer looks at. *)
(* Every function of the parser takes the lines and a position and answers  *)
(* with the position after what it has consumed.                            *)
EXTENDS Naturals, Sequences, FiniteSets, SequencesExt, FiniteSetsExt

CONSTANTS
    Names,          \* words that are valid field keys
    NodeIds,        \* words that are valid node ids
    BadWords,       \* words no enumeration, number or format accepts
    Digits,         \* words that are one digit, with their value: [STRING -> Nat]
    KeyOrder        \* the alphabetical place of the keys that a sorted map may hold

Raw(indent, parts) == [indent |-> indent, parts |-> parts]

NoText == <<>>
OneLine(parts) == IF parts = <<>> THEN NoText ELSE <<Raw(0, parts)>>

\* Where tok occurs first in s; 0 if nowhere.
Find(s, tok) == IF \E i \in DOMAIN s : s[i] = tok
                THEN Min({i \in DOMAIN s : s[i] = tok}) ELSE 0

-----------------------------------------------------------------------------
(* The lexer: the first rule that fits.                                     *)

IsValidFieldKey(parts) == Len(parts) = 1 /\ parts[1] \in Names

Between(s, a, b) == SubSeq(s, a + 1, b - 1)

Commas(val) == {i \in 2..(Len(val) - 1) : val[i] = ","}
ItemAfter(val, k) == Between(val, k, Min({d \in Commas(val) \cup {Len(val)} : d > k}))

\* `[a, b]` without its brackets, split at the commas; empty items are dropped.
ParseInlineList(val) ==
    FlattenSeq([k \in DOMAIN val |->
        IF k \in Commas(val) \cup {1} /\ ItemAfter(val, k) # <<>> THEN <<ItemAfter(val, k)>> ELSE <<>>])

Line(kind, raw, key, val, items) ==
    [kind |-> kind, indent |-> IF kind \in {"blank", "expect"} THEN 0 ELSE raw.indent,
     raw |-> raw, key |-> key, val |-> val, items |-> items]

\* The key and value of `key: value`; no key when the first colon does not follow a name.
ColonAt(parts) == Find(parts, ":")
KeyPart(parts) == SubSeq(parts, 1, ColonAt(parts) - 1)
ValuePart(parts) == SubSeq(parts, ColonAt(parts) + 1, Len(parts))

BodyIndicators == {<<"|">>} \cup {<<"|", d>> : d \in {e \in DOMAIN Digits : Digits[e] >= 1}}

\* What is left of a line when the white space at its end is trimmed.
Visible(parts) == IF parts # <<>> /\ Last(parts) = "ws" THEN Front(parts) ELSE parts

Classified(raw, p, hasKey, val) ==
    LET L(kind, key, value, items) == Line(kind, raw, key, value, items)
    IN IF "\t" \in ToSet(p) THEN L("P004", "", <<>>, <<>>)
       ELSE IF p = <<>> THEN L("blank", "", <<>>, <<>>)
       ELSE IF p[1] = "#" /\ Len(p) > 1 /\ p[2] = "expect:" THEN L("expect", "", <<>>, <<>>)
       ELSE IF p[1] = "#" THEN L("comment", "", <<>>, <<>>)
       ELSE IF p[1] = "node" /\ ~(Len(p) > 1 /\ p[2] = ":") THEN L("node", "", Tail(p), <<>>)
       ELSE IF p[1] = "body" /\ hasKey /\ val \in BodyIndicators THEN L("body", "body", Tail(val), <<>>)
       ELSE IF hasKey /\ val # <<>> /\ val[1] = "[" /\ Last(val) # "]" THEN L("P007", "", <<>>, <<>>)
       ELSE IF hasKey /\ val # <<>> /\ val[1] = "[" THEN L("list", p[1], <<>>, ParseInlineList(val))
       ELSE IF hasKey /\ val # <<>> THEN L("scalar", p[1], val, <<>>)
       ELSE IF hasKey THEN L("start", p[1], <<>>, <<>>)
       ELSE IF p[1] = "-" THEN L("item", "", Tail(p), <<>>)
       ELSE L("plain", "", p, <<>>)

ClassifyLine(raw) ==
    LET p == Visible(raw.parts)
    IN Classified(raw, p, ColonAt(p) > 0 /\ IsValidFieldKey(KeyPart(p)), ValuePart(p))

LexErrors == {"P004", "P007"}

\* The lines of a text, without the carriage return that may stand before a line's end.
LinesOf(doc) ==
    [i \in DOMAIN doc |-> IF doc[i].parts # <<>> /\ Last(doc[i].parts) = "cr"
                          THEN [doc[i] EXCEPT !.parts = Front(@)] ELSE doc[i]]

Lexed(lines) ==
    [lines |-> lines,
     errors |-> FlattenSeq([i \in DOMAIN lines |->
                               IF lines[i].kind \in LexErrors THEN <<lines[i].kind>> ELSE <<>>])]
ClassifyAll(lines) == [i \in DOMAIN lines |-> ClassifyLine(lines[i])]

Lex(doc) == Lexed(ClassifyAll(LinesOf(doc)))

-----------------------------------------------------------------------------
(* How far a list, a block, a body or a field reaches: up to the first line *)
(* that does not belong to it, where a run of blank lines belongs to it     *)
(* only if more of it follows.                                              *)

Is(l, kinds) == l.kind \in kinds
Blank(l) == Is(l, {"blank"})
Item(l) == Is(l, {"item"})
Remark(l) == Is(l, {"comment", "expect"})

\* The positions of the lines of some kinds, and of the lines indented by base or more.
Of(ls, kinds) == {q \in DOMAIN ls : Is(ls[q], kinds)}
Deep(ls, base) == {q \in DOMAIN ls : ls[q].indent >= base}
Items(ls) == Of(ls, {"item"})
Blanks(ls) == Of(ls, {"blank"})
Remarks(ls) == Of(ls, {"comment", "expect"})
NodeLines(ls) == Of(ls, {"node"})

\* The first position from p on that is not among those skipped.
NextSolid(ls, p, skipped) == Min({Len(ls) + 1} \cup {q \in p..Len(ls) : q \notin skipped})

Reach(ls, p, takes, skips, more) ==
    LET stops(q) == IF Blank(ls[q]) THEN NextSolid(ls, q + 1, skips) \notin more
                    ELSE q \notin takes
    IN Min({Len(ls) + 1} \cup {q \in p..Len(ls) : stops(q)})

Upto(ls, p, q) == SubSeq(ls, p, q - 1)

\* A line of a block without its base indentation; one indented less loses what
\* stands in its first columns.
Stripped(raw, base) ==
    IF raw.parts = <<>> THEN Raw(0, <<>>)
    ELSE IF raw.indent >= base THEN Raw(raw.indent - base, raw.parts)
    ELSE Raw(0, <<"~">> \o Tail(raw.parts))

FinishBlock(parts) ==
    SubSeq(parts, 1, Max({0} \cup {i \in DOMAIN parts : parts[i].parts # <<>>}))

TextOf(ls, base) == FinishBlock([i \in DOMAIN ls |-> Stripped(ls[i].raw, base)])

ItemsOf(ls) == FlattenSeq([i \in DOMAIN ls |-> IF Item(ls[i]) THEN <<ls[i].val>> ELSE <<>>])

\* The list, or the text, of the lines from p to q, and where it ends.
ListUpto(ls, p, q) == [pos |-> q, items |-> ItemsOf(Upto(ls, p, q))]
TextUpto(ls, p, q, base) == [pos |-> q, text |-> TextOf(Upto(ls, p, q), base)]
RawUpto(ls, p, q) == [pos |-> q, text |-> [i \in 1..(q - p) |-> ls[p + i - 1].raw]]

ParseIndentedList(ls, p) ==
    ListUpto(ls, p, Reach(ls, p, Items(ls) \cup Remarks(ls), Blanks(ls) \cup Remarks(ls), Items(ls)))

ParseBlock(ls, p) ==
    LET inBlock == Of(ls, {"plain", "item"})
        base(first) == IF first \in inBlock THEN ls[first].indent ELSE 0
    IN TextUpto(ls, p, Reach(ls, p, inBlock, Blanks(ls), inBlock), base(NextSolid(ls, p, Blanks(ls))))

\* The raw text of a structured field nobody reads, or of a duplicate one.
CollectStructuredRaw(ls, p) ==
    RawUpto(ls, p,
            Reach(ls, p,
                  Of(ls, {"item", "plain"}) \cup (Of(ls, {"scalar", "list", "start", "body"}) \cap Deep(ls, 1)),
                  Blanks(ls),
                  Of(ls, {"item", "plain", "scalar", "list", "start"}) \cap Deep(ls, 1)))

SkipFieldBody(ls, p) == CollectStructuredRaw(ls, p).pos

Body(ls, p, base) ==
    LET deep == Deep(ls, base) \ NodeLines(ls)
    IN TextUpto(ls, p, Reach(ls, p, deep, Blanks(ls), deep), base)

SkipBlanks(ls, p) == NextSolid(ls, p, Blanks(ls))

NoIndent == 1000
DetectBaseIndent(ls, p) ==
    LET indent(q) == IF q > Len(ls) \/ Is(ls[q], {"node"}) THEN NoIndent ELSE ls[q].indent
    IN indent(SkipBlanks(ls, p))

\* A body marker with a digit counts columns from the marker, one without takes
\* the indentation of the first line of the body.
PipeBase(ls, p) == IF ls[p].val = <<>> THEN DetectBaseIndent(ls, p + 1)
                   ELSE ls[p].indent + Digits[ls[p].val[1]]
PipeBody(ls, p, base) == IF base = NoIndent THEN [pos |-> p, text |-> NoText] ELSE Body(ls, p, base)

CollectPipeBody(ls, p) == PipeBody(ls, p + 1, PipeBase(ls, p))

-----------------------------------------------------------------------------
(* Structured fields: an object is the sequence of its sub-fields, each a   *)
(* text or a list.                                                          *)

IsWithinField(ls, p, base) ==
    /\ p <= Len(ls)
    /\ Blank(ls[p]) \/ (~Is(ls[p], {"node"}) /\ ls[p].indent >= base)

SubText(key, text) == [key |-> key, text |-> text]
SubList(key, items) == [key |-> key, items |-> items]

AsSubText(key, all) == [pos |-> all.pos, field |-> SubText(key, all.text)]
AsSubList(key, all) == [pos |-> all.pos, field |-> SubList(key, all.items)]

\* What follows `key:` inside a structured field: a list, a deeper block, or nothing.
SubFieldAt(start, ls, q) ==
    CASE q <= Len(ls) /\ Item(ls[q]) ->
           AsSubList(start.key, ListUpto(ls, q, Reach(ls, q, Items(ls), Blanks(ls),
                                                      Items(ls) \cap Deep(ls, start.indent + 1))))
      [] q <= Len(ls) /\ ~Item(ls[q]) /\ ls[q].indent > start.indent ->
           AsSubText(start.key, Body(ls, q, ls[q].indent))
      [] OTHER -> [pos |-> q, field |-> SubText(start.key, NoText)]

SubFieldBody(ls, p) == SubFieldAt(ls[p], ls, SkipBlanks(ls, p + 1))

\* One sub-field, of any form.
SubField(ls, p) ==
    LET l == ls[p]
    IN CASE Is(l, {"scalar"}) -> [pos |-> p + 1, field |-> SubText(l.key, OneLine(l.val))]
         [] Is(l, {"list"}) -> [pos |-> p + 1, field |-> SubList(l.key, l.items)]
         [] Is(l, {"body"}) -> AsSubText("body", CollectPipeBody(ls, p))
         [] Is(l, {"start"}) -> SubFieldBody(ls, p)

\* A loop over the lines: the round at each position says how far it went, what it found, with
\* which errors, and whether the loop goes on from there.
Stop(pos) == [pos |-> pos, found |-> <<>>, errors |-> <<>>, more |-> FALSE]
GoOn(pos, found, errors) == [pos |-> pos, found |-> found, errors |-> errors, more |-> TRUE]

BeforeRounds(one, rest) ==
    [pos |-> rest.pos, found |-> one.found \o rest.found, errors |-> one.errors \o rest.errors,
     more |-> FALSE]

Rounds(round, p) ==
    LET from[q \in DOMAIN round] ==
            IF round[q].more THEN BeforeRounds(round[q], from[round[q].pos]) ELSE round[q]
    IN from[p]

Positions(ls) == 1..(Len(ls) + 1)

AfterSubField(sub) == GoOn(sub.pos, <<sub.field>>, <<>>)
SubFieldRound(ls, p, q, base) ==
    IF q > Len(ls) \/ Is(ls[q], {"node"}) \/ ls[q].indent < base THEN Stop(p)
    ELSE IF Is(ls[q], {"scalar", "list", "body", "start"}) THEN AfterSubField(SubField(ls, q))
    ELSE Stop(q)

CollectSubFields(ls, p, base) ==
    Rounds([r \in Positions(ls) |-> SubFieldRound(ls, r, SkipBlanks(ls, r), base)], p)

\* The sub-fields deeper than base that start at p, if any do.
Deeper(ls, p, base) == CollectSubFields(ls, p, Max({DetectBaseIndent(ls, p), base + 1}))

\* `- key: value` gives the object of a list entry its first sub-field.
ParseKvFromText(item) ==
    IF ColonAt(item) > 1
    THEN <<SubText(KeyPart(item)[1], OneLine(ValuePart(item)))>> ELSE <<>>

\* Where a loop ends whose line at q, the first from p on that is not blank, is not its own.
StopWithin(ls, p, q, base) == Stop(IF IsWithinField(ls, p, base) THEN q ELSE p)

\* The objects of a list of objects.
AfterEntry(item, sub) == GoOn(sub.pos, <<ParseKvFromText(item) \o sub.found>>, <<>>)
EntryRound(ls, p, q, base) ==
    IF IsWithinField(ls, p, base) /\ IsWithinField(ls, q, base) /\ Item(ls[q])
    THEN AfterEntry(ls[q].val, Deeper(ls, q + 1, base))
    ELSE StopWithin(ls, p, q, base)

Entries(ls, p, base) ==
    Rounds([r \in Positions(ls) |-> EntryRound(ls, r, SkipBlanks(ls, r), base)], p)

HasText(fields, key) == \E i \in DOMAIN fields : fields[i].key = key /\ "text" \in DOMAIN fields[i]
HasList(fields, key) == \E i \in DOMAIN fields : fields[i].key = key /\ "items" \in DOMAIN fields[i]

GetScalar(fields, key) ==
    IF HasText(fields, key)
    THEN fields[Min({i \in DOMAIN fields : fields[i].key = key /\ "text" \in DOMAIN fields[i]})].text
    ELSE NoText

GetList(fields, key) ==
    fields[Min({i \in DOMAIN fields : fields[i].key = key /\ "items" \in DOMAIN fields[i]})].items

\* An enumeration or a number parses when it is one line of one word it knows.
Parses(text) == Len(text) = 1 /\ Len(text[1].parts) = 1 /\ text[1].parts[1] \notin BadWords

Repeated(code, n) == [i \in 1..n |-> code]

\* The texts among keys that a table of sub-fields keeps: those not empty.
Kept(fields, keys) == [k \in {j \in keys : GetScalar(fields, j) # NoText} |-> GetScalar(fields, k)]
KeptIfParsed(fields, keys) ==
    [k \in {j \in keys : Parses(GetScalar(fields, j))} |-> GetScalar(fields, k)]

Word(w) == OneLine(<<w>>)

BuildCodeBlock(fields) ==
    LET built(action, body) ==
            [value |-> Kept(fields, {"lang", "target", "anchor", "old"})
                       @@ [action |-> IF Parses(action) THEN action ELSE Word("full"), body |-> body],
             errors |-> (IF action = NoText THEN <<"V008">> ELSE IF Parses(action) THEN <<>> ELSE <<"P003">>)
                        \o (IF body = NoText THEN <<"V008">> ELSE <<>>)]
    IN built(GetScalar(fields, "action"), GetScalar(fields, "body"))

CodeBlock(pos, built) == [pos |-> pos, value |-> [code |-> built.value], errors |-> built.errors]
CodeBlockOf(sub) == CodeBlock(sub.pos, BuildCodeBlock(sub.found))
ParseCodeBlock(ls, p) == CodeBlockOf(CollectSubFields(ls, p, DetectBaseIndent(ls, p)))

\* Every entry of a list of objects, built: those that fail are left out.
AllBuilt(pos, built) ==
    [pos |-> pos, errors |-> FlattenSeq([i \in DOMAIN built |-> built[i].errors]),
     values |-> FlattenSeq([i \in DOMAIN built |->
                               IF "value" \in DOMAIN built[i] THEN <<built[i].value>> ELSE <<>>])]

EntriesFrom(ls, p, base) == IF base = NoIndent THEN Stop(p) ELSE Entries(ls, p, base)

Built(entries, Build(_)) ==
    AllBuilt(entries.pos, [i \in DOMAIN entries.found |-> Build(entries.found[i])])

EntriesAtBase(ls, p) == EntriesFrom(ls, p, DetectBaseIndent(ls, p))

AsField(key, all) == [pos |-> all.pos, value |-> [k \in {key} |-> all.values], errors |-> all.errors]

ParseCodeBlocks(entries) == AsField("code_blocks", Built(entries, BuildCodeBlock))

VerifyFields(type) ==
    CASE type = "command" -> <<"run">>
      [] type = "file_exists" -> <<"file">>
      [] type \in {"file_contains", "file_not_contains"} -> <<"file", "pattern">>
      [] type = "node_status" -> <<"node", "status">>

VerifyTypes == {"command", "file_exists", "file_contains", "file_not_contains", "node_status"}

BuildVerifyCheck(fields) ==
    LET text == GetScalar(fields, "type")
        type == IF Len(text) = 1 /\ Len(text[1].parts) = 1 THEN text[1].parts[1] ELSE "?"
        required == VerifyFields(type)
    IN IF text = NoText THEN [errors |-> <<"V009">>]
       ELSE IF type \notin VerifyTypes THEN [errors |-> <<"P003">>]
       ELSE IF \E i \in DOMAIN required : GetScalar(fields, required[i]) = NoText
            THEN [errors |-> <<"V009">>]
       ELSE [errors |-> <<>>,
             value |-> [type |-> text]
                       @@ Kept(fields, ToSet(required)
                                       \cup (IF type = "command" THEN {"expect"} ELSE {}))]

ParseVerify(entries) == AsField("verify", Built(entries, BuildVerifyCheck))

\* An entry whose required fields are not all there is reported and dropped.
BuildLoadFile(fields) ==
    IF GetScalar(fields, "path") = NoText THEN [errors |-> <<"P003">>]
    ELSE [errors |-> <<>>,
          value |-> [path |-> GetScalar(fields, "path"),
                     range |-> LET r == GetScalar(fields, "range")
                               IN IF Parses(r) THEN r ELSE Word("full")]]

BuildParallelGroup(fields) ==
    LET strategy == GetScalar(fields, "strategy")
        lists == {k \in {"nodes", "requires"} : HasList(fields, k)}
        bad == HasText(fields, "strategy") /\ ~Parses(strategy)
    IN IF GetScalar(fields, "group") = NoText THEN [errors |-> <<"P003">>]
       ELSE [errors |-> IF bad THEN <<"P003">> ELSE <<>>,
             value |-> [texts |-> [group |-> GetScalar(fields, "group"),
                                   strategy |-> IF Parses(strategy) THEN strategy
                                                ELSE Word("sequential")]
                                  @@ KeptIfParsed(fields, {"max_concurrency"}),
                        lists |-> [k \in lists |-> GetList(fields, k)]
                                  @@ [k \in {"nodes"} \ lists |-> <<>>]]]

ParseParallelGroups(entries) == AsField("groups", Built(entries, BuildParallelGroup))

BuildMemoryEntry(fields) ==
    IF \/ GetScalar(fields, "key") = NoText
       \/ GetScalar(fields, "topic") = NoText
       \/ ~Parses(GetScalar(fields, "action"))
    THEN [errors |-> <<"P003">>]
    ELSE [errors |-> <<>>,
          value |-> Kept(fields, {"key", "topic", "value", "query"})
                    @@ KeptIfParsed(fields, {"action", "scope", "ttl", "max_results"})]

ParseMemory(entries) == AsField("memory", Built(entries, BuildMemoryEntry))

\* The items of an indented list inside agent_context, and the end of a field that is not read.
NestedItems(ls, p, si) ==
    ListUpto(ls, p, NextSolid(ls, p, Blanks(ls) \cup (Items(ls) \cap Deep(ls, si))))

AfterNested(ls, p, si) ==
    NextSolid(ls, p, Blanks(ls) \cup (Deep(ls, si) \ NodeLines(ls)))

ContextNothing(pos) == GoOn(pos, <<>>, <<>>)
ContextSet(pos, key, value) == GoOn(pos, <<[key |-> key, value |-> value]>>, <<>>)
ContextList(key, all) == ContextSet(all.pos, key, [list |-> all.items])
ContextFiles(key, all) ==
    GoOn(all.pos, IF all.values = <<>> THEN <<>> ELSE <<[key |-> key, value |-> [files |-> all.values]]>>,
         all.errors)

ContextLists == {"load_nodes", "load_memory"}

\* A context field whose value is indented by si below it.
ContextBlock(ls, q, base, si) ==
    IF si = NoIndent \/ si <= base THEN ContextNothing(q + 1)
    ELSE IF ls[q].key \in ContextLists THEN ContextList(ls[q].key, NestedItems(ls, q + 1, si))
    ELSE IF ls[q].key = "load_files" THEN ContextFiles("load_files", Built(EntriesAtBase(ls, q + 1), BuildLoadFile))
    ELSE ContextNothing(AfterNested(ls, q + 1, si))

\* One field of an agent_context at its base indentation; whatever else is there is skipped.
ContextField(ls, q, base) ==
    LET l == ls[q]
    IN CASE l.indent # base -> ContextNothing(q + 1)
         [] l.indent = base /\ Is(l, {"scalar"}) ->
              IF l.key = "system_hint" \/ (l.key = "max_tokens" /\ Parses(OneLine(l.val)))
              THEN ContextSet(q + 1, l.key, [text |-> OneLine(l.val)])
              ELSE GoOn(q + 1, <<>>, IF l.key = "max_tokens" THEN <<"P003">> ELSE <<>>)
         [] l.indent = base /\ Is(l, {"list"}) ->
              IF l.key \in ContextLists THEN ContextSet(q + 1, l.key, [list |-> l.items])
              ELSE ContextNothing(q + 1)
         [] l.indent = base /\ Is(l, {"start"}) -> ContextBlock(ls, q, base, DetectBaseIndent(ls, q + 1))
         [] OTHER -> ContextNothing(q + 1)

\* Later settings of the same name overwrite earlier ones.
Latest(settings) ==
    [k \in {settings[i].key : i \in DOMAIN settings} |->
        settings[Max({i \in DOMAIN settings : settings[i].key = k})].value]

ContextRound(ls, p, q, base) ==
    IF IsWithinField(ls, p, base) /\ IsWithinField(ls, q, base) THEN ContextField(ls, q, base)
    ELSE StopWithin(ls, p, q, base)

ContextFields(ls, p, base) ==
    Rounds([r \in Positions(ls) |-> ContextRound(ls, r, SkipBlanks(ls, r), base)], p)

ContextFrom(ls, p, base) == IF base = NoIndent THEN Stop(p) ELSE ContextFields(ls, p, base)
AsContext(all) == [pos |-> all.pos, value |-> [context |-> Latest(all.found)], errors |-> all.errors]

ParseAgentContext(ls, p) == AsContext(ContextFrom(ls, p, DetectBaseIndent(ls, p)))

ProfileOf(fields, filter) == [filter |-> filter] @@ KeptIfParsed(fields, {"estimated_tokens"})
WithProfile(key, sub, filter) ==
    GoOn(sub.pos, <<[key |-> key, value |-> ProfileOf(sub.found, filter)]>>,
         IF filter = NoText THEN <<"P003">> ELSE <<>>)
AfterProfile(key, sub) == WithProfile(key, sub, GetScalar(sub.found, "filter"))

IsProfile(l, base, si) == Is(l, {"start"}) /\ l.indent = base /\ si # NoIndent /\ si > base

ProfileRound(ls, p, q, base) ==
    IF ~(IsWithinField(ls, p, base) /\ IsWithinField(ls, q, base)) THEN StopWithin(ls, p, q, base)
    ELSE IF IsProfile(ls[q], base, DetectBaseIndent(ls, q + 1))
    THEN AfterProfile(ls[q].key, Deeper(ls, q + 1, base))
    ELSE GoOn(q + 1, <<>>, <<>>)

Profiles(ls, p, base) ==
    Rounds([r \in Positions(ls) |-> ProfileRound(ls, r, SkipBlanks(ls, r), base)], p)

ProfilesFrom(ls, p, base) == IF base = NoIndent THEN Stop(p) ELSE Profiles(ls, p, base)
AsProfiles(all) == [pos |-> all.pos, value |-> [profiles |-> Latest(all.found)], errors |-> all.errors]

ParseLoadProfiles(ls, p) == AsProfiles(ProfilesFrom(ls, p, DetectBaseIndent(ls, p)))

-----------------------------------------------------------------------------
(* Nodes.                                                                   *)

EnumFields == {"priority", "stability", "confidence", "status", "execution_status", "retry_count",
               "action", "sdd_phase"}
BlockFields == {"detail", "examples", "notes", "execution_log", "applies_when",
                "title", "description", "prompt"}
TextFields == BlockFields \cup {"type", "summary", "target", "valid_from", "valid_until", "assignee",
                                "ticket_id", "executed_by", "executed_at"}
ListFields == {"depends", "related_to", "replaces", "conflicts", "see_also", "items", "steps", "fields",
               "input", "output", "rationale", "tradeoffs", "resolution", "scope", "tags", "aliases",
               "keywords", "labels"}
StructuredFields == {"code", "code_blocks", "verify", "agent_context", "parallel_groups", "memory",
                     "load_profiles"}

DefaultNode(id) ==
    [id |-> id, extra |-> <<>>,
     fields |-> [type |-> [text |-> Word("facts")], summary |-> [text |-> NoText]]]

SetField(node, key, value) == [node EXCEPT !.fields = (key :> value) @@ @]
SetExtra(node, key, value) == [node EXCEPT !.extra = (key :> value) @@ @]

EnumError(key) == CASE key = "action" -> <<"V029">>
                    [] key = "sdd_phase" -> <<"V030">>
                    [] OTHER -> <<"P003">>

\* A value no enumeration knows is an error and leaves the field unset.
AssignScalarField(node, key, val) ==
    CASE key \in EnumFields /\ Parses(OneLine(val)) ->
            [node |-> SetField(node, key, [text |-> OneLine(val)]), errors |-> <<>>]
      [] key \in EnumFields /\ ~Parses(OneLine(val)) -> [node |-> node, errors |-> EnumError(key)]
      [] key \in TextFields ->
            [node |-> SetField(node, key, [text |-> OneLine(val)]), errors |-> <<>>]
      [] OTHER -> [node |-> SetExtra(node, key, [scalar |-> val]), errors |-> <<>>]

AssignListField(node, key, items) ==
    IF key \in ListFields THEN SetField(node, key, [list |-> items])
    ELSE SetExtra(node, key, [list |-> items])

AssignBlockField(node, key, text) ==
    IF key \in BlockFields THEN SetField(node, key, [text |-> text])
    ELSE SetExtra(node, key, [block |-> text])

\* A body becomes the detail; with a detail or a body there already, an extra field.
AssignBody(node, text, dup) ==
    IF dup \/ "detail" \in DOMAIN node.fields THEN SetExtra(node, "body", [block |-> text])
    ELSE SetField(node, "detail", [text |-> text])

ParseObjects(key, entries) ==
    CASE key = "code_blocks" -> ParseCodeBlocks(entries)
      [] key = "verify" -> ParseVerify(entries)
      [] key = "parallel_groups" -> ParseParallelGroups(entries)
      [] key = "memory" -> ParseMemory(entries)

ParseStructured(ls, p, key) ==
    CASE key = "code" -> ParseCodeBlock(ls, p)
      [] key = "agent_context" -> ParseAgentContext(ls, p)
      [] key \notin {"code", "agent_context"} -> ParseObjects(key, EntriesAtBase(ls, p))

\* What stands under `key:` in a node.
FieldBody(node, ls, p) ==
    LET key == ls[p].key
        set(s) == [pos |-> s.pos, node |-> SetField(node, key, s.value), errors |-> s.errors]
        raw(all) == [pos |-> all.pos, node |-> SetExtra(node, key, [block |-> all.text]), errors |-> <<>>]
        list(all) == [pos |-> all.pos, node |-> AssignListField(node, key, all.items), errors |-> <<>>]
        block(all) == [pos |-> all.pos, node |-> AssignBlockField(node, key, all.text), errors |-> <<>>]
    IN IF key = "load_profiles" THEN raw(CollectStructuredRaw(ls, p + 1))
       ELSE IF key \in StructuredFields THEN set(ParseStructured(ls, p + 1, key))
       ELSE IF NextSolid(ls, p + 1, Remarks(ls)) \in Items(ls) THEN list(ParseIndentedList(ls, p + 1))
       ELSE block(ParseBlock(ls, p + 1))

\* One round of the loop over a node's lines; seen are the fields met before.
NodeStep(node, ls, p, seen) ==
    LET l == ls[p]
        dup == l.key \in seen
        one(n, errors) == [pos |-> p + 1, node |-> n, errors |-> errors]
        assigned(new) == one(new.node, new.errors)
        body(all) == [pos |-> all.pos, node |-> AssignBody(node, all.text, dup), errors |-> <<>>]
    IN CASE Blank(l) \/ Remark(l) -> one(node, <<>>)
         [] Is(l, {"item", "plain"}) -> one(node, <<"P003">>)
         [] Is(l, {"scalar", "list"}) /\ dup -> one(node, <<"P006">>)
         [] Is(l, {"start"}) /\ dup ->
              [pos |-> SkipFieldBody(ls, p + 1), node |-> node, errors |-> <<"P006">>]
         [] Is(l, {"scalar"}) /\ ~dup -> assigned(AssignScalarField(node, l.key, l.val))
         [] Is(l, {"list"}) /\ ~dup -> one(AssignListField(node, l.key, l.items), <<>>)
         [] Is(l, {"start"}) /\ ~dup -> FieldBody(node, ls, p)
         [] Is(l, {"body"}) -> body(CollectPipeBody(ls, p))

\* The loop over the lines of a node: at most a round for each line of the file.
AtSectionEnd(ls, p) == p > Len(ls) \/ Is(ls[p], {"node"})
Met(seen, l) == seen \cup ({l.key} \ {""})

AfterStep(s, step, seen) ==
    [pos |-> step.pos, node |-> step.node, errors |-> s.errors \o step.errors, seen |-> seen]
NodeRound(ls, s) ==
    IF AtSectionEnd(ls, s.pos) THEN s
    ELSE AfterStep(s, NodeStep(s.node, ls, s.pos, s.seen), Met(s.seen, ls[s.pos]))

NodeLoop(ls, start) ==
    LET after[k \in 0..Len(ls)] == IF k = 0 THEN start ELSE NodeRound(ls, after[k - 1])
    IN after[Len(ls)]

StartOfNode(ls, p) ==
    LET id == ls[p].val
        known == Len(id) = 1 /\ id[1] \in NodeIds
    IN [pos |-> p + 1, node |-> DefaultNode(id), errors |-> IF known THEN <<>> ELSE <<"P002">>, seen |-> {}]

ParseNode(ls, p) == NodeLoop(ls, StartOfNode(ls, p))

-----------------------------------------------------------------------------
(* The header and the file.                                                 *)

FormattedHeaderFields == {"agm", "package", "version"}
HeaderTexts == FormattedHeaderFields
               \cup {"title", "owner", "default_load", "description", "status", "target_runtime"}

\* An import entry is one word, with its version constraint in it.
ParseImports(items) ==
    LET good(item) == Len(item) = 1 /\ item[1] \notin BadWords
    IN [items |-> FlattenSeq([i \in DOMAIN items |-> IF good(items[i]) THEN <<items[i]>> ELSE <<>>]),
        errors |-> Repeated("P001", Cardinality({i \in DOMAIN items : ~good(items[i])}))]

HeaderField(header, ls, p) ==
    LET l == ls[p]
        text == IF l.key \in HeaderTexts THEN (l.key :> [text |-> OneLine(l.val)]) ELSE <<>>
        set(pos, new, errors) == [pos |-> pos, header |-> new @@ header, errors |-> errors]
        imports(pos, found) == set(pos, "imports" :> [list |-> found.items], found.errors)
        listed(all) == IF l.key = "tags" THEN set(all.pos, "tags" :> [list |-> all.items], <<>>)
                       ELSE imports(all.pos, ParseImports(all.items))
        block(all) == set(all.pos, "description" :> [text |-> all.text], <<>>)
        profiles(all) == set(all.pos, "load_profiles" :> all.value, all.errors)
    IN CASE Is(l, {"scalar"}) ->
              set(p + 1, text, IF l.key \in FormattedHeaderFields /\ ~Parses(OneLine(l.val))
                               THEN <<"P001">> ELSE <<>>)
         [] Is(l, {"list", "start"}) /\ l.key \in {"tags", "imports"} ->
              listed(IF Is(l, {"list"}) THEN [pos |-> p + 1, items |-> l.items]
                     ELSE ParseIndentedList(ls, p + 1))
         [] Is(l, {"list"}) /\ l.key \notin {"tags", "imports"} -> set(p + 1, <<>>, <<>>)
         [] Is(l, {"start"}) /\ l.key = "description" -> block(ParseBlock(ls, p + 1))
         [] Is(l, {"start"}) /\ l.key = "load_profiles" -> profiles(ParseLoadProfiles(ls, p + 1))
         [] OTHER -> set(SkipFieldBody(ls, p + 1), <<>>, <<>>)

HeaderStep(header, ls, p, seen) ==
    LET l == ls[p]
        stay(pos, errors) == [pos |-> pos, header |-> header, errors |-> errors]
    IN CASE Blank(l) \/ Remark(l) \/ Is(l, {"body"}) -> stay(p + 1, <<>>)
         [] Is(l, {"item", "plain"}) -> stay(p + 1, <<"P003">>)
         [] Is(l, {"scalar", "list"}) /\ l.key \in seen -> stay(p + 1, <<"P006">>)
         [] Is(l, {"start"}) /\ l.key \in seen -> stay(SkipFieldBody(ls, p + 1), <<"P006">>)
         [] OTHER -> HeaderField(header, ls, p)

AfterHeaderStep(s, step, seen) ==
    [pos |-> step.pos, header |-> step.header, errors |-> s.errors \o step.errors, seen |-> seen]
HeaderRound(ls, s) ==
    IF AtSectionEnd(ls, s.pos) THEN s
    ELSE AfterHeaderStep(s, HeaderStep(s.header, ls, s.pos, s.seen),
                         IF Is(ls[s.pos], {"body"}) THEN s.seen ELSE Met(s.seen, ls[s.pos]))

HeaderLoop(ls, start) ==
    LET after[k \in 0..Len(ls)] == IF k = 0 THEN start ELSE HeaderRound(ls, after[k - 1])
    IN after[Len(ls)]

CheckedHeader(all, missing) ==
    [all EXCEPT !.errors = @ \o Repeated("P001", Cardinality(missing)),
                !.header = @ @@ [k \in missing |-> [text |-> NoText]]]
WholeHeader(all) == CheckedHeader(all, FormattedHeaderFields \ DOMAIN all.header)

StartOfHeader(p) == [pos |-> p, header |-> <<>>, errors |-> <<>>, seen |-> {}]
ParseHeader(ls, p) == WholeHeader(HeaderLoop(ls, StartOfHeader(p)))

\* A header and a node end only before a node declaration or at the end of the file, so that is all
\* the loop over a file can meet.
OneNode(one) == GoOn(one.pos, <<one.node>>, one.errors)
FileRound(ls, p) == IF p > Len(ls) THEN Stop(p) ELSE OneNode(ParseNode(ls, p))

NodesFrom(ls, p) == Rounds([q \in Positions(ls) |-> FileRound(ls, q)], p)

Failed(errors) == [errors |-> errors]

\* Any error makes the whole parse fail; errors of the lexer hide all others.
FileOr(errors, header, nodes) ==
    IF errors # <<>> THEN Failed(errors) ELSE [header |-> header, nodes |-> nodes]
FileOf(header, body) ==
    FileOr(header.errors \o body.errors \o (IF body.found = <<>> THEN <<"P008">> ELSE <<>>),
           header.header, body.found)
AfterHeader(ls, header) == FileOf(header, NodesFrom(ls, header.pos))
ParseLines(lexed) == IF lexed.errors # <<>> THEN Failed(lexed.errors)
                     ELSE AfterHeader(lexed.lines, ParseHeader(lexed.lines, 1))

Parse(doc) == ParseLines(Lex(doc))
=============================================================================
