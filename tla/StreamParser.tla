---------------------------- MODULE StreamParser ----------------------------
(* The push parser (agm-core/src/parser/stream.rs): text arrives in chunks  *)
(* cut anywhere, complete lines are fed to a small state machine that parses *)
(* the header and each node as soon as the next one begins.                  *)
EXTENDS Canonical

CONSTANTS
    Documents,      \* the documents that may arrive: sequences of raw lines
    Chunks          \* the sizes of a chunk, in half lines (a bound: the code takes any)

ASSUME DocumentsAssumption == Documents \subseteq Seq([indent : Nat, parts : Seq(STRING)])
ASSUME ChunksAssumption == Chunks \subseteq Nat

VARIABLES
    doc,            \* the document, as the sender has it
    sent,           \* half lines of it that have been pushed
    state,          \* BeforeHeader, InHeader, BetweenNodes, InNode, Done
    lineNumber,     \* lines taken out of the pending text
    buffered,       \* classified lines of the section that is being read
    parsed,         \* what has been parsed: [header, nodes, errors]
    events          \* what the caller has been told, in order

vars == <<doc, sent, state, lineNumber, buffered, parsed, events>>

Event(what) == [event |-> what]
NodeEvent(what, id) == [event |-> what, id |-> id]
ErrorEvents(errors) == [i \in DOMAIN errors |-> Event("Error")]

Init ==
    /\ doc \in Documents
    /\ sent = 0
    /\ state = "BeforeHeader"
    /\ lineNumber = 0
    /\ buffered = <<>>
    /\ parsed = [header |-> <<>>, nodes |-> <<>>, errors |-> <<>>]
    /\ events = <<>>

\* The parser between two lines.
Now == [state |-> state, buffered |-> buffered, parsed |-> parsed, events |-> events]

HeaderParsed(s, h, event) ==
    [state |-> "BetweenNodes", buffered |-> <<>>,
     parsed |-> [s.parsed EXCEPT !.header = <<h.header>>, !.errors = @ \o h.errors],
     events |-> s.events \o ErrorEvents(h.errors) \o event]

FlushHeader(s, event) == HeaderParsed(s, ParseHeader(s.buffered, 1), event)

NodeParsed(s, n) ==
    [state |-> "BetweenNodes", buffered |-> <<>>,
     parsed |-> [s.parsed EXCEPT !.nodes = Append(@, n.node), !.errors = @ \o n.errors],
     events |-> s.events \o ErrorEvents(n.errors) \o <<NodeEvent("NodeComplete", n.node.id)>>]

FlushNodeTwice(s) == [NodeParsed(s, ParseNode(s.buffered, 1)) EXCEPT !.buffered = s.buffered]

FlushNode(s) == NodeParsed(s, ParseNode(s.buffered, 1))

StartNode(s, line) ==
    [s EXCEPT !.state = "InNode", !.buffered = Append(@, line),
              !.events = Append(@, NodeEvent("NodeStarted", line.val))]

\* A node declaration ends the section before it.
SectionClosed(s) ==
    IF s.state = "InNode" THEN FlushNode(s)
    ELSE IF s.state = "BetweenNodes" THEN s
    ELSE FlushHeader(s, <<Event("HeaderComplete")>>)

Step(s, line) ==
    CASE line.kind = "node" -> StartNode(SectionClosed(s), line)
      [] line.kind # "node" /\ s.state \in {"BeforeHeader", "InHeader"} ->
            [s EXCEPT !.state = "InHeader", !.buffered = Append(@, line)]
      [] line.kind # "node" /\ s.state = "InNode" -> [s EXCEPT !.buffered = Append(@, line)]
      [] OTHER -> s

RefuseQuietly(s, line) == [s EXCEPT !.parsed.errors = Append(@, line.kind)]

Refuse(s, line) ==
    [s EXCEPT !.parsed.errors = Append(@, line.kind), !.events = Append(@, Event("Error"))]

Fed(s, line) == IF line.kind \in LexErrors THEN Refuse(s, line) ELSE Step(s, line)

\* Every complete line of the pending text is classified and fed to the state machine.
Drained(s, from, upto) ==
    LET after[k \in from..upto] ==
            IF k = from THEN s ELSE Fed(after[k - 1], ClassifyLine(LinesOf(doc)[k]))
    IN after[upto]

Become(s) ==
    /\ state' = s.state
    /\ buffered' = s.buffered
    /\ parsed' = s.parsed
    /\ events' = s.events

PushChunk ==
    /\ state # "Done"
    /\ \E n \in {sent + c : c \in Chunks} \cap 0..(2 * Len(doc)) :
          /\ sent' = n
          /\ lineNumber' = n \div 2
          /\ Become(Drained(Now, lineNumber, n \div 2))
    /\ UNCHANGED doc

\* The last line may lack its newline; what was being read is parsed; a file without nodes is an error.
FlushCurrentSection(s) ==
    CASE s.state = "InHeader" -> FlushHeader(s, <<>>)
      [] s.state = "InNode" -> FlushNode(s)
      [] OTHER -> s

Finished(s) ==
    LET empty == s.parsed.nodes = <<>>
        noHeader == s.parsed.header = <<>>
        header == ParseHeader(<<>>, 1)
    IN [s EXCEPT
          !.state = "Done",
          !.events = @ \o (IF empty THEN <<Event("Error")>> ELSE <<>>) \o <<Event("EndOfFile")>>,
          !.parsed.errors = @ \o (IF empty THEN <<"P008">> ELSE <<>>)
                              \o (IF noHeader THEN header.errors ELSE <<>>),
          !.parsed.header = IF noHeader THEN <<header.header>> ELSE @]

Finish ==
    /\ state # "Done"
    /\ sent >= 2 * Len(doc) - 1
    /\ lineNumber' = Len(doc)
    /\ Become(Finished(FlushCurrentSection(Drained(Now, lineNumber, Len(doc)))))
    /\ UNCHANGED <<doc, sent>>

Next == PushChunk \/ Finish

Spec == Init /\ [][Next]_vars /\ WF_vars(Next)

\* What the caller gets in the end.
Result ==
    IF parsed.errors # <<>> THEN Failed(parsed.errors)
    ELSE [header |-> parsed.header[1], nodes |-> parsed.nodes]

-----------------------------------------------------------------------------
(* Properties.                                                              *)

Codes == {"P001", "P002", "P003", "P004", "P006", "P007", "P008", "V008", "V009", "V029", "V030"}
Count(s, x) == Cardinality({i \in DOMAIN s : s[i] = x})
SameErrors(r, s) == \A code \in Codes : Count(r, code) = Count(s, code)
IsFailed(result) == "errors" \in DOMAIN result

\* The parser's state has the shape the code's types give it, and what is buffered is one section:
\* a header has no node declaration in it, a node has exactly one, in front (stream.rs, step).
TypeOK ==
    /\ state \in {"BeforeHeader", "InHeader", "BetweenNodes", "InNode", "Done"}
    /\ sent \in 0..(2 * Len(doc)) /\ lineNumber \in 0..Len(doc)
    /\ \A i \in DOMAIN parsed.errors : parsed.errors[i] \in Codes
    /\ Len(parsed.header) <= 1
    /\ {i \in DOMAIN buffered : buffered[i].kind = "node"} = (IF state = "InNode" THEN {1} ELSE {})

Agrees(result, batch, lexErrors) ==
    /\ IsFailed(result) = IsFailed(batch)
    /\ ~IsFailed(batch) => result = batch
    /\ IsFailed(batch) /\ lexErrors = <<>> => SameErrors(result.errors, batch.errors)
    /\ lexErrors # <<>> => \A code \in Codes : Count(result.errors, code) >= Count(batch.errors, code)

\* However a document is cut into chunks, the push parser ends with the file the batch parser
\* makes of the whole of it, or with the same errors; when the lexer refuses a line the batch
\* parser reports that alone and the push parser at least that (stream.rs, flush_* and finish).
AgreesWithBatch == state = "Done" => Agrees(Result, Parse(doc), Lex(doc).errors)

Only(told, what) ==
    FlattenSeq([i \in DOMAIN told |-> IF told[i].event \in what THEN <<told[i]>> ELSE <<>>])
Chosen(what) == Only(events, what)

\* What the caller was told is what it gets: the header before any node, each node started and
\* completed in turn under its own id, as many errors as the result holds, and the end last.
EventsTellTheFile ==
    LET nodes == Chosen({"NodeStarted", "NodeComplete"})
        first == Chosen({"NodeStarted", "HeaderComplete"})
    IN /\ \A i \in DOMAIN nodes :
              /\ nodes[i].event = (IF i % 2 = 1 THEN "NodeStarted" ELSE "NodeComplete")
              /\ i % 2 = 0 => nodes[i].id = nodes[i - 1].id
       /\ Len(Chosen({"NodeComplete"})) = Len(parsed.nodes)
       /\ \A i \in DOMAIN first : (first[i].event = "HeaderComplete") = (i = 1)
       /\ state = "Done" =>
            /\ Len(nodes) = 2 * Len(parsed.nodes)
            /\ Last(events).event = "EndOfFile"
            /\ (\E i \in DOMAIN doc : ClassifyLine(LinesOf(doc)[i]).kind \notin LexErrors) =>
                 Len(Chosen({"Error"})) = Len(parsed.errors)

\* Rendering keeps the file: the canonical form is parsed as the file it was made of
\* (canonical.rs, render_canonical), for files in which nothing known to be lost occurs.
FmtKeepsTheFile ==
    (state = "Done" /\ ~IsFailed(Result)) =>
        ((\A i \in DOMAIN Result.nodes : NodeSurvives(Result.nodes[i])) =>
            Parse(RenderCanonical(Result)) = Result)
=============================================================================
