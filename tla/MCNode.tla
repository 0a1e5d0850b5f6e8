-------------------------------- MODULE MCNode --------------------------------
(***************************************************************************)
(* A small instance of NodeExecution for TLC: a diamond.  Node 1 creates   *)
(* two files; nodes 2 and 3 append to one and rewrite the other, at the    *)
(* same time; node 4 edits what they have left.                            *)
(***************************************************************************)
EXTENDS NodeExecution, TLC

Diamond == <<{}, {1}, {1}, {2, 3}>>

Write(action, target) == [action |-> action, target |-> target]
At(action, target, piece) == [action |-> action, target |-> target, at |-> piece]
Sh(needs, fills, holds, exits) ==
    [action |-> "command", needs |-> needs, fills |-> fills, holds |-> holds, exits |-> exits]

DiamondBlocks ==
    <<<<Write("create", "f"), Write("create", "g"), Sh(1, FALSE, {FALSE}, {0}), Sh(1, FALSE, {FALSE}, {0})>>,
      <<Write("append", "f"), At("insert_after", "g", <<1, 2>>), Sh(1, FALSE, {FALSE, TRUE}, {0, 1})>>,
      <<Write("append", "f"), Write("prepend", "g"), Sh(1, FALSE, {FALSE}, {0})>>,
      <<At("insert_before", "f", <<2, 1>>), At("replace", "f", <<1, 1>>), Write("full", "g"),
        Sh(2, FALSE, {FALSE}, {0}), Sh(1, TRUE, {FALSE}, {0})>>>>

Check(kind, file, pattern) == [kind |-> kind, file |-> file, pattern |-> pattern]
NodeIs(n, s) == [kind |-> "node_status", node |-> n, status |-> s]
Run(needs, expect, exit) ==
    [kind |-> "command", needs |-> needs, fills |-> FALSE, expect |-> expect, exit |-> exit,
     output |-> {"warning"}, text |-> "warning", regex |-> {"warning", "error"}]

DiamondChecks ==
    <<<<[kind |-> "file_exists", file |-> "f"], Run(1, "output_matches", 0)>>,
      <<NodeIs(3, "completed"), Check("file_contains", "f", <<2, 1>>)>>,
      <<NodeIs(1, "completed"), Run(1, "exit_code_nonzero", 1),
        Check("file_contains", "f", <<1, 1>>)>>,
      <<NodeIs(3, "completed"), Check("file_not_contains", "f", <<1, 1>>),
        Run(0, "output_contains", 1)>>>>

DiamondUpserts == <<{<<"project", "t">>}, {<<"session", "u">>}, {<<"node", "v">>}, {}>>

Wants(hint, files, topics, budget) ==
    <<[system_hint |-> hint, load_nodes |-> <<1>>, load_files |-> files,
       load_memory |-> topics, max_tokens |-> budget]>>

DiamondContexts ==
    <<<<>>, Wants(<<"h">>, <<"f">>, <<"t">>, 6), Wants(<<>>, <<"f">>, <<"t">>, 1),
      Wants(<<>>, <<"f">>, <<"v", "t", "u">>, 9)>>

\* in bytes: a prompt of these does not fill its last token
Length(section) == CASE section[1] = "node" -> 8 [] section[1] = "hint" -> 5 [] OTHER -> 4
===============================================================================
