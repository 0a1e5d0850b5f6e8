-------------------------------- MODULE Graph --------------------------------
(* The graph of a file's relations and what is asked of it                   *)
(* (agm-core/src/graph).  A vertex is a place in the sequence of names; an   *)
(* edge is <<from, kind, to>>.  A name is its words, each by its dotted      *)
(* parts, so that `package.id` and the id of an imported node are one name.  *)
EXTENDS Validator

Name(id) == [i \in DOMAIN id |-> Dotted(id[i])]
Qualified(package, id) == <<Dotted(package) \o Dotted(id[1])>>

\* Of several vertices with one name, the last stands in the index.
VertexOf(names, name) == Max({i \in DOMAIN names : names[i] = name})
Known(names, name) == name \in ToSet(names)

\* The edges of a list of nodes, each node's name and each target's names by the operators given.
AddEdges(nodes, names, NameOf(_), TargetsOf(_)) ==
    UNION {{<<VertexOf(names, NameOf(n.id)), kind, VertexOf(names, TargetsOf(ref))>> :
               ref \in {r \in ToSet(List(n, kind)) : Known(names, TargetsOf(r))}} :
           n \in ToSet(nodes), kind \in RelationFields}

NamesOf(nodes) == [i \in DOMAIN nodes |-> Name(nodes[i].id)]
GraphOn(names, nodes) == [names |-> names, edges |-> AddEdges(nodes, names, Name, Name)]

BuildGraph(file) == GraphOn(NamesOf(file.nodes), file.nodes)

\* With the nodes of the imported packages under their qualified names; a target of theirs is
\* looked up as it is, then in its own package.
NamesOfPackage(p) == [i \in DOMAIN p.file.nodes |-> Qualified(p.package, p.file.nodes[i].id)]

\* Every name once, where it stands first.
Distinct(all) ==
    SelectSeq([i \in DOMAIN all |-> IF \E j \in 1..(i - 1) : all[j] = all[i] THEN <<>> ELSE all[i]],
              LAMBDA name : name # <<>>)

TargetIn(names, package, ref) == IF Known(names, Name(ref)) THEN Name(ref) ELSE Qualified(package, ref)
EdgesOfPackage(names, p) ==
    AddEdges(p.file.nodes, names, LAMBDA id : Qualified(p.package, id), LAMBDA ref : TargetIn(names, p.package, ref))

GraphWith(file, packages, names) ==
    [names |-> names,
     edges |-> AddEdges(file.nodes, names, Name, Name)
               \cup UNION {EdgesOfPackage(names, p) : p \in ToSet(packages)}]

BuildGraphWithImports(file, packages) ==
    GraphWith(file, packages,
              Distinct(NamesOf(file.nodes)
                       \o FlattenSeq([k \in DOMAIN packages |-> NamesOfPackage(packages[k])])))

-----------------------------------------------------------------------------
(* Queries.                                                                  *)

DependsSubgraph(graph) == {<<e[1], e[3]>> : e \in {f \in graph.edges : f[2] = "depends"}}

\* Everything a walk along the edges visits from the vertices on its stack.
RECURSIVE Walk(_, _, _)
Walk(edges, visited, stack) ==
    LET found == {e[2] : e \in {f \in edges : f[1] \in stack}} \ visited
    IN IF found = {} THEN visited ELSE Walk(edges, visited \cup found, found)

NamesAt(graph, vertices) == {graph.names[i] : i \in vertices}

\* The start is visited first and taken out at the end, also when a cycle leads back to it.
Reachable(graph, edges, name) ==
    IF ~Known(graph.names, name) THEN {}
    ELSE LET start == VertexOf(graph.names, name)
         IN NamesAt(graph, Walk(edges, {start}, {start}) \ {start})

DepsUpwards(graph, name) == Reachable(graph, {<<e[2], e[1]>> : e \in DependsSubgraph(graph)}, name)

TransitiveDeps(graph, name) == Reachable(graph, DependsSubgraph(graph), name)

\* Strongly connected parts of more than one vertex, and vertices that depend on themselves.
DetectCycles(graph) ==
    LET edges == DependsSubgraph(graph)
        after(i) == Walk(edges, {}, {i})
        part(i) == {i} \cup {j \in after(i) : i \in after(j)}
    IN {part(i) : i \in {j \in DOMAIN graph.names : j \in after(j)}}

\* The orders in which every node follows what it depends on; none if there is a cycle.
TopologicalSort(graph) ==
    LET all == DOMAIN graph.names
    IN {order \in [all -> all] :
          /\ \A i, j \in all : order[i] = order[j] => i = j
          /\ \A e \in DependsSubgraph(graph) :
                \E i, j \in all : i < j /\ order[i] = e[2] /\ order[j] = e[1]}
=============================================================================
