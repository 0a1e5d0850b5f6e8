----------------------------- MODULE MCWorkbench -----------------------------
(* Small files for TLC: files as they should be, versions of them that differ*)
(* in one thing each, files with what models do wrong, and a file that       *)
(* imports; Markdown of a few headings; tables and memories of two nodes.    *)
EXTENDS Workbench

MCNames == {"agm", "package", "version", "title", "imports", "tags", "default_load", "load_profiles", "all", "filter",
            "type", "summary", "detail", "priority", "depends", "items", "steps", "x", "y", "code", "lang", "action",
            "body", "target", "verify", "run", "execution_status", "needs", "see", "see_also", "related_to", "tasks", "status", "conflicts",
            "executed_by", "executed_at", "retry_count", "execution_log", "agm.state", "session_id", "started_at",
            "updated_at", "agm.mem", "topic", "scope", "ttl", "value", "created_at"}
MCIds == {"a", "b", "c", "flow", "rule", "flow.1", "p.flow", "p.rule", "p.flow.1", "node"}
MCDigits == ("1" :> 1) @@ ("2" :> 2)
MCKeyOrder == [a |-> 1, b |-> 2, c |-> 3, needs |-> 4, see |-> 5, tasks |-> 6, x |-> 7, y |-> 8, all |-> 9,
               body |-> 10, depends |-> 11, steps |-> 12, related_to |-> 13, workflow |-> 14, orchestration |-> 15,
               facts |-> 16, labels |-> 17, code_blocks |-> 18, parallel_groups |-> 19, k |-> 20, l |-> 21,
               code |-> 22, summary |-> 23, items |-> 24, verify |-> 25, detail |-> 26, priority |-> 27,
               type |-> 28, tags |-> 29, title |-> 30]
MCSegments == ("flow.1" :> <<"flow", "1">>) @@ ("flow.2" :> <<"flow", "2">>) @@ ("p.flow.1" :> <<"p", "flow", "1">>)
              @@ ("p.flow" :> <<"p", "flow">>) @@ ("p.rule" :> <<"p", "rule">>)
              @@ ("p." :> <<"p", "">>) @@ ("p.flow.2" :> <<"p", "flow", "2">>) @@ ("q.a" :> <<"q", "a">>) @@ ("q.z" :> <<"q", "z">>)
              @@ [w \in {"flow", "rule", "node"} |-> <<w>>]
MCNone == <<>>

S(k, v) == Raw(0, <<k, ":", v>>)
F(k) == Raw(0, <<k, ":">>)
I(i, v) == Raw(i, <<"-", v>>)
L(k, a) == Raw(0, <<k, ":", "[", a, "]">>)
L2(k, a, b) == Raw(0, <<k, ":", "[", a, ",", b, "]">>)
N(id) == <<Raw(0, <<"node", id>>), S("type", "facts"), S("summary", id)>>
B == Raw(0, <<>>)

HeadOf(agm) == <<S("agm", agm), S("package", "w"), S("version", "w")>>
Head3 == HeadOf("1.0")
File(nodes) == Head3 \o FlattenSeq(nodes)

Code == <<F("code"), Raw(2, <<"lang", ":", "w">>), Raw(2, <<"action", ":", "w">>), Raw(2, <<"body", ":", "|", "2">>),
          Raw(4, <<"v">>)>>
Check == <<F("verify"), Raw(2, <<"-", "type", ":", "command">>), Raw(4, <<"run", ":", "v">>)>>

Chain == <<N("a") \o <<L("depends", "b")>>, N("b")>>
Good == {File(Chain),
         File(<<N("a"), N("b")>>),
         HeadOf("1.2") \o N("a") \o <<L("depends", "b")>>,
         File(<<N("a") \o <<L("depends", "b")>> \o Code, N("b") \o <<L2("steps", "v", "w")>> \o Check>>),
         File(<<N("a") \o <<L("depends", "b"), S("priority", "w"), L("tags", "v"), S("title", "v")>>,
                N("b") \o <<L2("steps", "w", "v")>>>>)}
Cyclic == {File(<<N("a") \o <<L("depends", "b")>>, N("b") \o <<L("depends", "a")>>, N("c") \o <<L("depends", "a")>>>>),
           File(<<N("a") \o <<L("depends", "a")>>>>),
           File(<<N("a") \o <<L2("depends", "b", "c")>>, N("b") \o <<L("depends", "c")>>, N("c")>>)}
Ran == {Head3 \o <<S("default_load", w), F("load_profiles"), Raw(2, <<"all", ":">>),
                   Raw(4, <<"filter", ":", "type", "in", "[", "facts", "]", "and", "code", "is", "present">>)>>
          \o N("a") \o <<L("depends", "b"), S("execution_status", "blocked")>>
          \o N("b") \o <<L("depends", "c"), S("execution_status", "failed")>> \o Code
          \o N("c") \o <<S("execution_status", "completed")>> : w \in {"all", "debug", "gone"}}
Synonyms == {File(<<N("a") \o <<L("needs", "b"), S("see", "b")>>, N("b") \o <<F("tasks"), I(2, "v"), S("x", "07")>>>>),
             File(<<<<Raw(0, <<"node", "a">>), S("type", "plan"), S("summary", "v"), L("see", "a"), L("x", "v"),
                      F("y"), Raw(2, <<"v">>), Raw(2, <<"w">>)>>>>)}
Fence == Raw(0, <<"fence">>)
Prose == Raw(0, <<"here", "goes">>)
Noisy(line) == [line EXCEPT !.parts = <<"zw">> \o @ \o <<"ws">>]
Messy == {<<Prose, B>> \o File(<<N("a")>>),
          <<Fence>> \o File(<<N("a") \o <<Raw(0, <<"x", ":", "sq">>)>>>>) \o <<Fence>>,
          <<Prose, Fence>> \o File(<<N("a")>>) \o <<Fence>>,
          File(<<N("a") \o <<F("items"), Raw(2, <<"*", "v">>), Raw(2, <<"+", "w">>), Raw(2, <<"*", "x">>)>>>>),
          File(<<N("a") \o <<F("detail"), Raw(2, <<"sq", "cr">>), Raw(0, <<"\t", "w">>)>>>>),
          File(<<N("a") \o <<F("detail"), Raw(2, <<"v", "cr", "w">>)>>>>),
          File(<<N("a") \o <<F("detail"), Raw(2, <<"v">>), Raw(2, <<"*", "w">>)>>>>),
          File(<<N("a") \o <<Raw(0, <<"body", ":", "|", "2">>), Raw(2, <<"*", "w">>)>>>>),
          File(<<N("a") \o <<F("code"), Raw(2, <<"rust">>), Raw(2, <<"v">>), Raw(2, <<"w">>)>>>>),
          [i \in DOMAIN File(<<N("a")>>) |-> Noisy(File(<<N("a")>>)[i])],
          <<>>}
Importing == {Head3 \o <<F("imports"), I(2, "q@1")>> \o N("a") \o <<L("depends", ref)>> : ref \in {"q.a", "q.z", "z"}}

MCVersions == Good \cup Cyclic \cup Ran \cup Synonyms \cup Messy \cup Importing

MCImportOf == ("q@1" :> [package |-> "q", versions |-> {1}])
MCVersionOf == [v1 |-> 1]
MCShelf == <<[dir |-> "q", file |-> [header |-> [agm |-> [text |-> Word("1.0")], package |-> [text |-> Word("q")],
                                                 version |-> [text |-> Word("v1")]],
                                     nodes |-> <<[DefaultNode(<<"a">>) EXCEPT !.fields.summary.text = Word("v")]>>]]>>
MCLowerOf == ("Debug" :> "debug")
MCWholeOf == ("1.0" :> "1") @@ ("1.2" :> "1")
MCDotZero == ("1" :> "1.0")
MCScalarAs == ("7" :> "7") @@ ("07" :> "7")

MCLevels == {"standard"}
All(disable, only, net) == [disable |-> disable, only |-> only, net |-> net]
MCRuleChoices == {All({}, {}, TRUE), All({}, {}, FALSE), All({"R-TRAILING-WS"}, {}, TRUE), All({"R-NONE"}, {}, TRUE),
                  All({}, {"R-BARE-CODE-BLOCK", "R-ZERO-WIDTH"}, TRUE)}
MCRuleFiles == {<<>>, << <<>> >>, << <<RuleSet([facts |-> {"plan"}], <<>>, [items |-> {"tasks", "see"}])>> >>}
Call(mode, profile, nodes) == [mode |-> mode, profile |-> profile, nodes |-> nodes]
MCLoads == {Call("summary", NoText, {}), Call("executable", NoText, {<<"a">>}), Call("odd", NoText, {}),
            Call("full", Word("all"), {}), Call("full", Word("Debug"), {}), Call("full", Word("debug"), {}), Call("full", Word("odd"), {})}

H(w) == [heading |-> <<w>>]
P(words) == [paragraph |-> <<words>>]
U(items) == [list |-> [i \in DOMAIN items |-> [words |-> items[i], inside |-> <<>>]], ordered |-> FALSE]
O(items) == [U(items) EXCEPT !.ordered = TRUE]
Nest == [list |-> <<[words |-> <<"v">>, inside |-> <<U(<< <<"w">> >>)>>]>>, ordered |-> FALSE]
MCMatching == [rule |-> {"rule"}, flow |-> {"flow"}, must |-> {"must"}]
              @@ ("then," :> {"then"}) @@ ("step 1" :> {"first"})
MCSegmentOf == (<<"rule">> :> "rule") @@ (<<"flow">> :> "flow") @@ (<<>> :> "") @@ (<<"!">> :> "")
MCWordsIn == [id \in {"flow", "rule", "flow.1", "node", "p.flow", "p.", "p.flow.1"} |-> <<>>]
             @@ ("p.rule" :> <<"must", "first">>)
Opt(prefix, min) == [package |-> Word("w"), version |-> Word("w"), prefix |-> prefix, min_confidence |-> min,
                     merge_same_type |-> FALSE]
Md(blocks, prefix, min, check) == [blocks |-> blocks, options |-> Opt(prefix, min), check |-> check]
Docs == {<<H("rule"), P(<<"must", "v", ".", "w">>), H("flow"), P(<<"depends_on", "rule">>), O(<< <<"first">>, <<"then">> >>)>>,
         <<H("flow"), P(<<"see", "rule">>), H("flow"), P(<<"v">>), H("rule"), U(<< <<"must">>, <<"flow">> >>)>>,
         <<P(<<"v">>), [code |-> <<"v">>, lang |-> <<"w">>], H("rule"), Nest>>,
         <<H("rule"), U(<< <<"must", ",", "v">>, <<"w">> >>)>>, <<H("!"), P(<<"v">>)>>, <<P(<<"v">>), P(<<"w">>)>>,
         <<[paragraph |-> << <<"v">>, <<"x", ":", "w">> >>]>>, <<H("rule")>>}
MCMarkdown == UNION {{Md(d, "", 20, TRUE), Md(d, "", 50, FALSE), Md(d, "p", 0, TRUE)} : d \in Docs}
Rank == [flow |-> 1, rule |-> 2, node |-> 3] @@ ("flow.1" :> 4) @@ ("p.flow" :> 5) @@ ("p." :> 6) @@ ("p.rule" :> 7) @@ ("p.flow.1" :> 8)
MCRanks == {Rank, [id \in DOMAIN Rank |-> 9 - Rank[id]]}

Log(lines) == [execution_status |-> Word("failed"), executed_by |-> Word("w"), executed_at |-> Word("w"),
               retry_count |-> Word("1"), execution_log |-> lines]
Fresh == [execution_status |-> Word("pending"), retry_count |-> Word("0")]
Table(a, b) == [header |-> [k \in ToSet(StateHeader) |-> Word("w")], nodes |-> [a |-> a, b |-> b]]
Logs == {OneLine(<<"v", "w">>), <<Raw(0, <<"v">>), Raw(2, <<"w">>)>>, <<Raw(0, <<"v", "\t", "w">>)>>,
         <<Raw(0, <<"v">>), Raw(0, <<"retry_count", ":", "7">>)>>, <<Raw(0, <<"v">>), B, S("x", "w")>>,
         <<Raw(0, <<"v">>), Raw(0, <<"state", "c">>)>>}
MCTables == {Table(Log(log), b) : log \in Logs, b \in {Fresh, Log(Word("w"))}}
MCCalm == {Table(Log(OneLine(log)), b) : log \in {<<"v">>, <<"state", ":", "#">>}, b \in {Fresh, Log(Word("w"))}}

Entry(value) == [topic |-> Word("w"), scope |-> Word("w"), ttl |-> Word("w"), value |-> value,
                 created_at |-> Word("w"), updated_at |-> Word("w")]
Mem(f) == [header |-> [k \in ToSet(MemHeader) |-> Word("w")], entries |-> f]
\* A file that was run is not looked at further once it is written over: those commands do not touch sidecars.
RunFiles == state # Absent => text \in Good

MCMemories == {Mem(<<>>), Mem([k |-> Entry(Word("v")), l |-> Entry(<<Raw(0, <<"v">>), Raw(2, <<"x", ":", "w">>)>>)]),
               Mem([k |-> Entry(<<Raw(0, <<"v">>), B, Raw(0, <<"w">>)>>)])}
=============================================================================
