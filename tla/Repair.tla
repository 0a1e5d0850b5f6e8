------------------------------- MODULE Repair -------------------------------
(* The repair of texts that a language model wrote (agm-core/src/repair).    *)
(* Marks that only repair looks at: "zw" a character without width, "cr" a   *)
(* carriage return, "ws" white space at the end of a line, "sq" a curly      *)
(* quote, "*" and "+" bullets, "fence" three backticks, a language after it. *)
EXTENDS Canonical

CONSTANT ProseWindow    \* how many lines of prose the header may follow: 20 in the code

\* The lines after a rule; with nothing rewritten the text is untouched, its line ends too.
Unless(doc, new) == IF new = LinesOf(doc) THEN doc ELSE new
EachLine(doc, F(_)) ==
    LET lines == LinesOf(doc) IN Unless(doc, [i \in DOMAIN lines |-> F(lines[i])])

ZeroWidth(doc) ==
    [i \in DOMAIN doc |-> [doc[i] EXCEPT !.parts = SelectSeq(@, LAMBDA t : t # "zw")]]

\* A return at the end of a line goes, one within it ends a line.
Crlf(doc) ==
    LET lines == LinesOf(doc)
        cuts(p) == SetToSortSeq({0} \cup {i \in DOMAIN p : p[i] = "cr"}, <)
        piece(p, c) == SubSeq(p, c + 1, Min({Len(p)} \cup {i - 1 : i \in {j \in DOMAIN p : j > c /\ p[j] = "cr"}}))
        split(line) == [k \in DOMAIN cuts(line.parts) |->
                           Raw(IF k = 1 THEN line.indent ELSE 0, piece(line.parts, cuts(line.parts)[k]))]
    IN FlattenSeq([i \in DOMAIN lines |-> split(lines[i])])

\* Tabs at the start of a line, two columns for each.
TabsToSpaces(doc) ==
    LET tabs(p) == Max({n \in 0..Len(p) : \A i \in 1..n : p[i] = "\t"})
        spaced(line) == IF line.indent > 0 THEN line
                        ELSE Raw(2 * tabs(line.parts), SubSeq(line.parts, tabs(line.parts) + 1, Len(line.parts)))
    IN EachLine(doc, spaced)

TrailingWs(doc) ==
    LET solid(p) == Max({0} \cup {i \in DOMAIN p : p[i] \notin {"ws", "\t"}})
        trimmed(line) == IF solid(line.parts) = 0 THEN Raw(0, <<>>)
                         ELSE [line EXCEPT !.parts = SubSeq(@, 1, solid(@))]
    IN EachLine(doc, trimmed)

IsFence(line) == line.parts # <<>> /\ line.parts[1] = "fence"

\* A fence opens or closes, whatever stands after it.
SmartQuotes(doc) ==
    LET lines == LinesOf(doc)
        fenced(i) == Cardinality({j \in 1..i : IsFence(lines[j])}) % 2 = 1
        plain(p) == [k \in DOMAIN p |-> IF p[k] = "sq" THEN "q" ELSE p[k]]
    IN Unless(doc, [i \in DOMAIN lines |->
            IF IsFence(lines[i]) \/ fenced(i) THEN lines[i] ELSE [lines[i] EXCEPT !.parts = plain(@)]])

Solid(lines) == {i \in DOMAIN lines : Visible(lines[i].parts) # <<>>}

\* A fence around the whole of a text.
MissingAgmFence(doc) ==
    LET lines == LinesOf(doc)
        solid == Solid(lines)
        first == Min(solid)
        last == Max(solid)
    IN IF /\ Cardinality(solid) > 1
          /\ Visible(lines[first].parts) \in {<<"fence">>, <<"fence", "agm">>}
          /\ Visible(lines[last].parts) = <<"fence">>
       THEN RemoveAt(RemoveAt(lines, last), first) ELSE doc

IsAgmMarker(p) ==
    \/ Len(p) > 1 /\ p[1] \in {"agm", "package", "version"} /\ p[2] = ":"
    \/ Len(p) > 0 /\ p[1] = "#"
    \/ Len(p) > 1 /\ p[1] = "node" /\ p[2] # ":"

\* What stands before the first line that looks like the header's is dropped.
ProsePrefix(doc) ==
    LET lines == LinesOf(doc)
        solid == Solid(lines)
        markers == {i \in solid : /\ IsAgmMarker(lines[i].parts)
                                  /\ Cardinality({j \in solid : j <= i}) <= ProseWindow}
    IN IF markers = {} \/ 1 \in markers THEN doc ELSE SubSeq(lines, Min(markers), Len(lines))

BulletAfterDash(doc) ==
    LET lines == LinesOf(doc)
        invites(p) == p # <<>> /\ (Last(p) = ":" \/ p[1] = "-")
        starred(p) == p # <<>> /\ p[1] \in {"*", "+"}
        before(i) == IF Solid(SubSeq(lines, 1, i - 1)) = {} THEN <<>>
                     ELSE Visible(lines[Max(Solid(SubSeq(lines, 1, i - 1)))].parts)
    IN Unless(doc, [i \in DOMAIN lines |->
            IF starred(lines[i].parts) /\ invites(before(i))
            THEN [lines[i] EXCEPT !.parts = <<"-">> \o Tail(@)] ELSE lines[i]])

\* A star or a plus becomes a dash after a colon or after another dash.
BulletStar(doc) ==
    LET lines == LinesOf(doc)
        invites(p) == p # <<>> /\ (Last(p) = ":" \/ p[1] = "-")
        starred(p) == p # <<>> /\ p[1] \in {"*", "+"}
        before(out) == IF Solid(out) = {} THEN <<>> ELSE Visible(out[Max(Solid(out))].parts)
        next(out, line) == IF starred(line.parts) /\ invites(before(out))
                           THEN [line EXCEPT !.parts = <<"-">> \o Tail(@)] ELSE line
    IN Unless(doc, FoldLeft(LAMBDA out, line : Append(out, next(out, line)), <<>>, lines))

LangTokens == {"python", "rust", "javascript", "typescript", "java", "go", "bash", "sh", "sql", "yaml", "json",
               "toml", "c", "cpp", "c++", "ruby", "php", "kotlin", "swift"}

\* The lines under `code:` that belong to it, if they begin with the name of a language.
BareBlock(lines, i) ==
    LET inside(j) == Visible(lines[j].parts) # <<>> /\ lines[j].indent >= lines[i].indent + 2
        end == Min({Len(lines) + 1} \cup {j \in (i + 1)..Len(lines) : ~inside(j)})
    IN IF /\ Visible(lines[i].parts) = <<"code", ":">>
          /\ end - i > 3
          /\ Visible(lines[i + 1].parts) \in {<<l>> : l \in LangTokens}
       THEN SubSeq(lines, i + 1, end - 1) ELSE <<>>

RECURSIVE BareCodeBlockFrom(_, _)
BareCodeBlockFrom(lines, i) ==
    LET block == BareBlock(lines, i)
        fence(rest) == Raw(lines[i].indent + 2, <<"fence">> \o rest)
    IN IF i > Len(lines) THEN <<>>
       ELSE IF block = <<>> THEN <<lines[i]>> \o BareCodeBlockFrom(lines, i + 1)
       ELSE <<lines[i], fence(Visible(block[1].parts))>> \o Tail(block) \o <<fence(<<>>)>>
            \o BareCodeBlockFrom(lines, i + 1 + Len(block))

BareCodeBlock(doc) == Unless(doc, BareCodeBlockFrom(LinesOf(doc), 1))

BuiltinRules == <<"R-ZERO-WIDTH", "R-CRLF", "R-TABS-TO-SPACES", "R-TRAILING-WS", "R-SMART-QUOTES",
                  "R-MISSING-AGM-FENCE", "R-PROSE-BEFORE-HEADER", "R-BULLET-STAR", "R-BARE-CODE-BLOCK">>
DisabledByDefault == {"R-BARE-CODE-BLOCK"}

Apply(rule, doc) ==
    CASE rule = "R-ZERO-WIDTH" -> ZeroWidth(doc)
      [] rule = "R-CRLF" -> Crlf(doc)
      [] rule = "R-TABS-TO-SPACES" -> TabsToSpaces(doc)
      [] rule = "R-TRAILING-WS" -> TrailingWs(doc)
      [] rule = "R-SMART-QUOTES" -> SmartQuotes(doc)
      [] rule = "R-MISSING-AGM-FENCE" -> MissingAgmFence(doc)
      [] rule = "R-PROSE-BEFORE-HEADER" -> ProsePrefix(doc)
      [] rule = "R-BULLET-STAR" -> BulletStar(doc)
      [] rule = "R-BARE-CODE-BLOCK" -> BareCodeBlock(doc)

\* The rules that run: those named, even one that is off, or all that are on but the disabled.
NamedRules(only) == SelectSeq(BuiltinRules, LAMBDA r : r \in only)
DefaultRules(disabled) == SelectSeq(BuiltinRules, LAMBDA r : r \notin DisabledByDefault \cup disabled)

Applied(state, rule, new) ==
    IF new = state.text THEN state ELSE [state EXCEPT !.text = new, !.report = Append(@, rule)]
AllApplied(doc, rules) ==
    FoldLeft(LAMBDA state, rule : Applied(state, rule, Apply(rule, state.text)),
             [text |-> doc, report |-> <<>>, rolled_back |-> FALSE], rules)

RepairUnchecked(doc, rules, safetyNet) == AllApplied(doc, rules)

\* The text after the rules, with the rules that rewrote something in `report`; with the safety net a
\* rewriting that does not parse is undone.
RollBack(doc, done) == IF "errors" \in DOMAIN Parse(done.text) THEN [done EXCEPT !.text = doc, !.rolled_back = TRUE]
                       ELSE done
SafetyNet(doc, done) == IF done.report # <<>> THEN RollBack(doc, done) ELSE done

RepairText(doc, rules, safetyNet) ==
    IF safetyNet THEN SafetyNet(doc, AllApplied(doc, rules)) ELSE AllApplied(doc, rules)
=============================================================================
