------------------------------ MODULE Sidecars ------------------------------
(* The text of the files beside an AGM file: the state of its nodes          *)
(* (.agm.state) and its memory (.agm.mem), as agm-core/src/renderer writes   *)
(* them and agm-core/src/parser reads them back.                             *)
EXTENDS Canonical

IsTop(raw) == raw.indent = 0
IsKeyed(parts) == Len(parts) > 1 /\ parts[1] \in Names /\ parts[2] = ":"

\* A line of a sidecar; what is none of these is a comment.
ClassifySidecarLine(raw) ==
    LET p == raw.parts
        line(kind, key, val) == [kind |-> kind, key |-> key, val |-> val, raw |-> raw]
    IN CASE p = <<>> -> line("blank", "", <<>>)
         [] p # <<>> /\ p[1] = "#" /\ IsTop(raw) /\ IsKeyed(Tail(p)) -> line("header", p[2], SubSeq(p, 4, Len(p)))
         [] Len(p) > 1 /\ p[1] \in {"state", "entry"} /\ p[2] # ":" /\ IsTop(raw) -> line("decl", p[1], Tail(p))
         [] p # <<>> /\ raw.indent >= 2 -> line("continuation", "", <<>>)
         [] IsKeyed(p) /\ IsTop(raw) -> line("field", p[1], SubSeq(p, 3, Len(p)))
         [] OTHER -> line("comment", "", <<>>)

LexedSidecar(lines) ==
    IF \E i \in DOMAIN lines : "\t" \in ToSet(lines[i].parts) THEN [errors |-> {"P004"}]
    ELSE [lines |-> [i \in DOMAIN lines |-> ClassifySidecarLine(lines[i])], errors |-> {}]

LexSidecar(doc) == LexedSidecar(LinesOf(doc))

\* The header: up to the first line that is neither a header, a comment nor blank.
HeaderEnd(ls) ==
    Min({Len(ls) + 1} \cup {i \in DOMAIN ls : ls[i].kind \notin {"header", "comment", "blank"}})

HeaderUpto(ls, end, known) ==
    LET set(k) == {i \in 1..(end - 1) : ls[i].kind = "header" /\ ls[i].key = k}
    IN [k \in {j \in known : set(j) # {}} |-> OneLine(ls[Max(set(k))].val)]
HeaderOf(ls, known) == HeaderUpto(ls, HeaderEnd(ls), known)

\* A block lasts from its declaration to the next blank line or declaration.
BlockEnd(ls, d) == Min({Len(ls) + 1} \cup {i \in (d + 1)..Len(ls) : ls[i].kind \in {"blank", "decl"}})
Declared(ls, keyword) ==
    {i \in HeaderEnd(ls)..Len(ls) : ls[i].kind = "decl" /\ ls[i].key = keyword}

FieldInOneLine(ls, d, key, goesOn) ==
    LET set == {i \in (d + 1)..(BlockEnd(ls, d) - 1) : ls[i].kind = "field" /\ ls[i].key = key}
    IN IF set = {} THEN <<>> ELSE << <<Raw(0, ls[Max(set)].val)>> >>

\* The value of a field, with the lines under it where the format goes on; the last of its name counts.
FieldAt(ls, blockEnd, at, goesOn) ==
    LET end == Min({blockEnd} \cup {i \in (at + 1)..Len(ls) : ls[i].kind # "continuation"})
    IN << <<Raw(0, ls[at].val)>> \o (IF goesOn THEN TextOf(SubSeq(ls, at + 1, end - 1), 2) ELSE <<>>) >>
LastField(ls, blockEnd, set, goesOn) == IF set = {} THEN <<>> ELSE FieldAt(ls, blockEnd, Max(set), goesOn)

FieldIn(ls, d, key, goesOn) ==
    LastField(ls, BlockEnd(ls, d),
            {i \in (d + 1)..(BlockEnd(ls, d) - 1) : ls[i].kind = "field" /\ ls[i].key = key}, goesOn)

\* Fields outside of a block and blocks of the other kind are errors.
StrayErrors(ls, keyword) ==
    LET inside(i) == \E d \in Declared(ls, keyword) : d < i /\ i < BlockEnd(ls, d)
        stray(i) == \/ ls[i].kind = "field" /\ ~inside(i)
                    \/ ls[i].kind = "decl" /\ ls[i].key # keyword
    IN IF \E i \in HeaderEnd(ls)..Len(ls) : stray(i) THEN {"P003"} ELSE {}

DuplicateErrors(ls, keyword) ==
    IF \E d, e \in Declared(ls, keyword) : d # e /\ ls[d].val = ls[e].val THEN {"P006"} ELSE {}

MissingErrors(present, required) == IF required \subseteq present THEN {} ELSE {"P001"}

CommonErrors(ls, header, keys, keyword) ==
    MissingErrors(DOMAIN header, ToSet(keys)) \cup StrayErrors(ls, keyword) \cup DuplicateErrors(ls, keyword)

\* What each block declared with the keyword says of each of the keys; only a value goes on below its line.
Blocks(ls, keyword, keys) ==
    [d \in Declared(ls, keyword) |-> [k \in ToSet(keys) |-> FieldIn(ls, d, k, k = "value")]]
Told(block) == {k \in DOMAIN block : block[k] # <<>>}

\* The block of a name, and the names there are.
BlockOf(ls, blocks, name) == blocks[CHOOSE d \in DOMAIN blocks : ls[d].val = <<name>>]
Declarations(ls, blocks) == {ls[d].val[1] : d \in DOMAIN blocks}

FileUnless(errors, file) == IF errors # {} THEN [errors |-> errors] ELSE file

-----------------------------------------------------------------------------
(* The state of the nodes: [header, nodes], a node being its texts by key.   *)

StateHeader == <<"agm.state", "package", "version", "session_id", "started_at", "updated_at">>
StateKeys == <<"execution_status", "executed_by", "executed_at", "retry_count", "execution_log">>

EmitHeader(keys, header) ==
    [i \in DOMAIN keys |-> Raw(0, <<"#", keys[i], ":">> \o header[keys[i]][1].parts)]

\* The log is written as it is, whatever lines it has.
RenderState(sf) ==
    LET ids == Sorted(DOMAIN sf.nodes)
    IN EmitHeader(StateHeader, sf.header)
       \o FlattenSeq([i \in DOMAIN ids |->
              <<Raw(0, <<>>), Raw(0, <<"state", ids[i]>>)>> \o EmitTexts(0, StateKeys, sf.nodes[ids[i]])])

\* An enumeration or a number that does not parse is an error, an empty text the absence of one.
StateNode(block) ==
    LET kept == {k \in Told(block) : block[k][1][1].parts # <<>>}
    IN [k \in kept |-> block[k][1]] @@ [k \in {"retry_count"} \ kept |-> Word("0")]

StateErrors(block) ==
    (IF \E k \in Told(block) \cap {"execution_status", "retry_count"} : ~Parses(block[k][1]) THEN {"P003"} ELSE {})
    \cup MissingErrors(Told(block), {"execution_status"})

StateFile(ls, header, blocks) ==
    FileUnless(CommonErrors(ls, header, StateHeader, "state") \cup UNION {StateErrors(blocks[d]) : d \in DOMAIN blocks},
           [header |-> header,
            nodes |-> [id \in Declarations(ls, blocks) |-> StateNode(BlockOf(ls, blocks, id))]])
StateOf(lexed) ==
    IF lexed.errors # {} THEN lexed
    ELSE StateFile(lexed.lines, HeaderOf(lexed.lines, ToSet(StateHeader)), Blocks(lexed.lines, "state", StateKeys))

ParseState(doc) == StateOf(LexSidecar(doc))

\* An entry of a log that stays within its line.
LogKeeps(sf) ==
    \A id \in DOMAIN sf.nodes :
        "execution_log" \in DOMAIN sf.nodes[id] =>
            LET log == sf.nodes[id]["execution_log"] IN Len(log) = 1 /\ "\t" \notin ToSet(log[1].parts)

-----------------------------------------------------------------------------
(* The memory: [header, entries], an entry being its texts by key.           *)

MemHeader == <<"agm.mem", "package", "updated_at">>
MemKeys == <<"topic", "scope", "ttl", "value", "created_at", "updated_at">>

RenderMem(mem) ==
    LET keys == Sorted(DOMAIN mem.entries)
        value(text) == <<Raw(0, <<"value", ":">> \o text[1].parts)>> \o Indented(Tail(text), 2)
        entry(e) == EmitTexts(0, <<"topic", "scope", "ttl">>, e) \o value(e["value"])
                    \o EmitTexts(0, <<"created_at", "updated_at">>, e)
    IN EmitHeader(MemHeader, mem.header)
       \o FlattenSeq([i \in DOMAIN keys |->
              <<Raw(0, <<>>), Raw(0, <<"entry", keys[i]>>)>> \o entry(mem.entries[keys[i]])])

MemEntry(block) == [k \in Told(block) |-> block[k][1]]

MemErrors(block) ==
    (IF \E k \in {"scope", "ttl"} \cap Told(block) : ~Parses(block[k][1]) THEN {"P003"} ELSE {})
    \cup MissingErrors(Told(block), ToSet(MemKeys))

MemFile(ls, header, blocks) ==
    FileUnless(CommonErrors(ls, header, MemHeader, "entry") \cup UNION {MemErrors(blocks[d]) : d \in DOMAIN blocks},
           [header |-> header,
            entries |-> [key \in Declarations(ls, blocks) |-> MemEntry(BlockOf(ls, blocks, key))]])
MemOf(lexed) ==
    IF lexed.errors # {} THEN lexed
    ELSE MemFile(lexed.lines, HeaderOf(lexed.lines, ToSet(MemHeader)), Blocks(lexed.lines, "entry", MemKeys))

ParseMem(doc) == MemOf(LexSidecar(doc))

\* A value keeps its lines, as long as none is blank.
ValueKeeps(mem) ==
    \A key \in DOMAIN mem.entries :
        LET value == mem.entries[key]["value"]
        IN \A i \in DOMAIN value : /\ "\t" \notin ToSet(value[i].parts)
                                   /\ i > 1 => value[i].parts # <<>>
=============================================================================
