------------------------------- MODULE MCTexts -------------------------------
(* Small documents for TLC: every short sequence of lines after a header,   *)
(* and nodes made of every two of a list of fields, awkward ones among them. *)
EXTENDS StreamParser

MCNames == {"agm", "package", "version", "tags", "imports", "load_profiles", "minimal", "filter",
            "summary", "detail", "priority", "depends", "items", "x", "code", "code_blocks", "verify", "lang",
            "target", "action", "body", "old", "type", "run", "file", "pattern", "agent_context",
            "load_nodes", "load_files", "path", "range", "system_hint", "max_tokens", "group", "nodes",
            "strategy", "requires", "memory", "key", "topic", "value", "parallel_groups", "description"}
MCDigits == [d \in {"2"} |-> 2]
MCKeyOrder == [x |-> 1, y |-> 2, minimal |-> 3, body |-> 0, summary |-> 4, items |-> 5, load_profiles |-> 6,
               priority |-> 7, code |-> 8, verify |-> 9, depends |-> 10, type |-> 11, memory |-> 12,
               detail |-> 13, lang |-> 14, action |-> 15, strategy |-> 16, target |-> 17, path |-> 18,
               key |-> 19, file |-> 20, topic |-> 21]

R(i, p) == Raw(i, p)
S(i, k, v) == R(i, <<k, ":", v>>)
F(i, k) == R(i, <<k, ":">>)
I(i, v) == R(i, <<"-", v>>)
IK(i, k, v) == R(i, <<"-", k, ":", v>>)
L2(i, k, a, b) == R(i, <<k, ":", "[", a, ",", b, "]">>)
L0(i, k) == R(i, <<k, ":", "[", "]">>)
W(i, v) == R(i, <<v>>)
B == R(0, <<>>)
C(i) == R(i, <<"#", "c">>)
N(id) == R(0, <<"node", id>>)

Header == <<S(0, "agm", "w"), S(0, "package", "w"), S(0, "version", "w")>>

\* Lines that any order of may follow a header.
Pool == {N("a"), R(0, <<"node">>), S(0, "x", "w"), S(0, "priority", "bad"), L2(0, "depends", "a", "b"),
         F(0, "x"), F(0, "verify"), I(2, "w"), W(2, "w"), C(2), B, R(0, <<"body", ":", "|">>),
         R(0, <<"x", ":", "[", "w">>), R(2, <<"\t", "w">>)}

Fragments == {
    <<S(0, "x", "w")>>, <<L2(0, "x", "a", "b")>>, <<L0(0, "depends")>>,
    <<F(0, "detail"), W(2, "v"), B, I(4, "w")>>,
    <<F(0, "detail"), W(4, "v"), W(2, "w")>>,
    <<F(0, "detail"), W(2, "v"), C(2), W(2, "w")>>,
    <<R(0, <<"body", ":", "|">>), W(2, "v"), W(4, "w")>>,
    <<R(0, <<"body", ":", "|">>), W(2, "v"), S(2, "x", "w")>>,
    <<R(0, <<"body", ":", "|", "2">>), W(4, "v"), B, W(2, "w")>>,
    <<F(0, "items"), I(2, "v"), B, C(2), I(2, "w")>>,
    <<F(0, "depends"), I(2, "a"), I(2, "b"), I(2, "c"), I(2, "d")>>,
    <<F(0, "summary"), W(2, "v"), W(2, "w")>>,
    <<F(0, "code"), S(2, "lang", "v"), S(2, "action", "w"), R(2, <<"body", ":", "|">>), W(4, "v"),
      S(4, "x", "w"), F(2, "old"), W(4, "v")>>,
    <<F(0, "code"), S(2, "action", "w"), R(2, <<"body", ":", "|">>), W(4, "v"), F(2, "old"), I(4, "v")>>,
    <<F(0, "code_blocks"), IK(2, "lang", "v"), S(4, "target", "v"), S(4, "action", "w"),
      R(4, <<"body", ":", "|">>), W(6, "v"), IK(2, "lang", "v"), S(4, "action", "w"), S(4, "body", "w")>>,
    <<F(0, "code"), S(2, "action", "w"), R(2, <<"body", ":", "|", "2">>), W(6, "v"), W(4, "w")>>,
    <<F(0, "code_blocks"), IK(2, "target", "v"), S(4, "action", "w"), S(4, "body", "v")>>,
    <<F(0, "verify"), R(2, <<"-", "type", ":", "command">>), S(4, "run", "v"),
      R(2, <<"-", "type", ":", "file_contains">>), S(4, "file", "v"), S(4, "pattern", "w")>>,
    <<F(0, "verify"), R(2, <<"-", "type", ":", "command">>), F(4, "run"), W(6, "v"), W(6, "w")>>,
    <<F(0, "verify"), R(2, <<"-", "type", ":", "command">>), C(4), S(4, "run", "v")>>,
    <<F(0, "agent_context"), F(2, "load_nodes"), I(4, "a"), I(4, "b"), F(2, "load_files"),
      IK(4, "path", "v"), S(6, "range", "w"), S(2, "system_hint", "v")>>,
    <<F(0, "agent_context"), S(2, "x", "v")>>,
    <<F(0, "parallel_groups"), IK(2, "group", "v"), L2(4, "nodes", "a", "b"), IK(2, "group", "w"),
      L2(4, "nodes", "c", "d"), S(4, "strategy", "w"), L0(4, "requires")>>,
    <<F(0, "parallel_groups"), IK(2, "group", "v"), F(4, "nodes"), I(6, "a"), I(6, "b"), I(6, "c"),
      I(6, "d"), IK(2, "group", "w")>>,
    <<F(0, "parallel_groups"), IK(2, "group", "v"),
      R(4, <<"requires", ":", "[", "a", ",", "b", ",", "c", ",", "d", "]">>), IK(2, "group", "w")>>,
    <<F(0, "memory"), IK(2, "key", "v"), S(4, "topic", "w"), S(4, "action", "w"), S(4, "value", "v")>>,
    <<F(0, "memory"), IK(2, "key", "v")>>,
    <<N("b"), S(0, "priority", "w")>>}

HeaderFragments == {
    <<F(0, "tags"), I(2, "v"), I(2, "w")>>, <<F(0, "imports"), I(2, "v"), B>>,
    <<F(0, "load_profiles"), F(2, "minimal"), S(4, "filter", "w")>>,
    <<F(0, "description"), W(2, "v"), W(4, "w")>>, <<F(0, "x"), S(2, "x", "w")>>}

MCShort == {Header \o s : s \in UNION {[1..n -> Pool] : n \in 0..3}}
MCMade == {Header \o h \o <<N("a"), S(0, "type", "w"), S(0, "summary", "v")>> \o f \o g :
           h \in HeaderFragments, f \in Fragments, g \in Fragments \cup {<<>>}}
MCDocuments == MCShort \cup MCMade \cup {<<>>, <<R(2, <<"\t", "w">>)>>, Tail(Header)}
MCChunks == {1, 5, 16}
=============================================================================
