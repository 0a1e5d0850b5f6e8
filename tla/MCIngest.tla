------------------------------ MODULE MCIngest ------------------------------
(* Small inputs for TLC: for each type an object with what it needs and one  *)
(* or two more members out of a list, and arrays of two or three objects.    *)
EXTENDS Ingest

MCNames == {"agm", "package", "version", "title", "type", "summary", "detail", "priority", "depends", "items",
            "steps", "x", "code", "code_blocks", "verify", "lang", "target", "action", "body", "old", "run",
            "file", "agent_context", "load_nodes", "load_files", "path", "range", "max_tokens", "group",
            "nodes", "strategy", "requires", "parallel_groups", "labels", "groups", "tasks", "needs", "fields",
            "rationale", "description", "stability", "notes", "tags", "aliases", "node", "status", "conflicts",
            "see", "related_to", "prompt", "tags_list", "confidence", "input"}
MCKeyOrder == [x |-> 1, y |-> 2, code |-> 3, code_blocks |-> 4, groups |-> 5, items |-> 6, needs |-> 7,
               parallel_groups |-> 8, see |-> 9, tasks |-> 10, tags_list |-> 11, depends |-> 12, title |-> 13,
               fields |-> 14, aliases |-> 15, priority |-> 16, steps |-> 17, stability |-> 18, detail |-> 19,
               tags |-> 20, orchestration |-> 21, labels |-> 22, notes |-> 23, conflicts |-> 24, related_to |-> 25,
               verify |-> 26, agent_context |-> 27, confidence |-> 28, input |-> 29, description |-> 30,
               rationale |-> 31, status |-> 32, action |-> 33]
MCNone == <<>>
MCDigits == [d \in {"2"} |-> 2]

S(w) == Str(Word(w))
A(a, b) == Strs(<< <<a>>, <<b>> >>)
G(name, ns) == [group |-> S(name), nodes |-> Strs(ns), strategy |-> S("w")]
Two == Str(<<Raw(0, <<"v">>), Raw(2, <<"w">>)>>)

\* What each type's schema requires.
Needed == [t \in DOMAIN GetSchema |->
    CASE t = "rules" -> [items |-> A("v", "w")]
      [] t = "entity" -> [fields |-> A("v", "w")]
      [] t = "decision" -> [rationale |-> A("v", "w")]
      [] t = "orchestration" -> [parallel_groups |-> Objs(<<G("v", << <<"a">> >>)>>)]
      [] t = "ticket" -> [title |-> S("v"), description |-> Two, priority |-> S("w")]
      [] OTHER -> <<>>]

Members == {
    [x |-> S("v")], [x |-> A("v", "w")], [x |-> Num(Word("7"))], [x |-> Obj(<<>>)],
    [summary |-> S("v")], [title |-> S("v")], [summary |-> Str(NoText)], [type |-> S("facts")],
    [priority |-> S("bad")], [priority |-> S("w")], [stability |-> S("w"), confidence |-> S("w")],
    [depends |-> A("a", "b")], [depends |-> A("c", "c")], [needs |-> A("b", "b")], [needs |-> S("b")],
    [detail |-> Two], [items |-> A("v", "v")], [items |-> S("v")], [tags |-> A("v", "v")], [tags_list |-> A("v", "v")],
    [tasks |-> A("v", "w")], [steps |-> A("v", "w")], [groups |-> A("v", "w")], [notes |-> Num(Word("7"))],
    [code |-> Obj([action |-> S("full"), body |-> S("v")])],
    [code_blocks |-> Objs(<<[action |-> S("full"), body |-> S("v"), lang |-> S("w"), target |-> S("v")]>>)],
    [code_blocks |-> Objs(<<[action |-> S("bad"), body |-> S("v")]>>)], [code_blocks |-> A("v", "w")],
    [verify |-> Objs(<<[type |-> S("command"), run |-> S("v")]>>)],
    [verify |-> Objs(<<[type |-> S("node_status"), node |-> S("b"), status |-> S("w")]>>)],
    [verify |-> Objs(<<[type |-> S("odd")]>>)],
    [agent_context |-> Obj([load_nodes |-> Strs(<< <<"b">> >>), max_tokens |-> Num(Word("7")),
                            load_files |-> Objs(<<[path |-> S("v"), range |-> S("lines")], <<>>>>)])],
    [agent_context |-> S("v")],
    [parallel_groups |-> Objs(<<G("v", << <<"a">>, <<"b">> >>),
                                [requires |-> A("v", "v")] @@ G("w", << <<"b">> >>)>>)]}

MCIdAt == <<"p0", "p1", "p2">>
Named(id, m) == Obj(("node" :> S(id)) @@ m)

Singles == {[element |-> Obj(f @@ g @@ Needed[t])] :
                f \in Members, g \in Members \cup {<<>>}, t \in DOMAIN GetSchema}
Pair(t) == {<<Named("a", f @@ [summary |-> S("v")] @@ Needed[t]), e>> :
              f \in Members, e \in {Named("b", [summary |-> S("w")] @@ Needed[t]), Obj([title |-> S("w")]),
                                    Named("a", [summary |-> S("w")] @@ Needed[t]), S("w")}}
Batches == {[elements |-> p] : p \in UNION {Pair(t) : t \in DOMAIN GetSchema}}

MCInputs == Singles \cup Batches \cup {<<>>, [elements |-> <<>>], [element |-> Obj([id |-> S("bad"), summary |-> S("v")])]}

MCHeader == [k \in FormattedHeaderFields |-> Word("w")]
Call(t, id, level, normalize, check) ==
    [type |-> t, id |-> id, level |-> level, normalize |-> normalize, check |-> check, header |-> MCHeader]
MCCalls == {Call(t, Word("a"), "standard", TRUE, TRUE) : t \in DOMAIN GetSchema}
           \cup {Call(t, Word("a"), "permissive", n, FALSE) : t \in DOMAIN GetSchema, n \in BOOLEAN}
           \cup {Call("custom", Word("a"), "standard", TRUE, TRUE), Call("ticket", NoText, "strict", TRUE, FALSE)}
=============================================================================
