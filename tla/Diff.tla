-------------------------------- MODULE Diff --------------------------------
(* The semantic difference of two files (agm-core/src/diff): a set of changes*)
(* of the header, nodes added and removed, and a set of changes per node.    *)
EXTENDS Validator

Change(field, kind, severity, item) == [field |-> field, kind |-> kind, severity |-> severity, item |-> item]

RemovalBreaksLess == {"depends", "steps", "fields", "input", "output", "code_blocks", "target", "parallel_groups"}
RemovalBreaks == {"depends", "steps", "fields", "input", "output", "code", "code_blocks", "target",
                  "parallel_groups"}
AdditionInforms == {"priority", "stability", "confidence", "status", "agent_context", "memory", "scope",
                    "applies_when", "aliases"}

ClassifySeverity(field, kind) ==
    CASE field = "type" -> "breaking"
      [] field \in RemovalBreaks /\ kind = "removed" -> "breaking"
      [] field \in AdditionInforms /\ kind = "added" -> "info"
      [] field \in RemovalBreaks \cup AdditionInforms \cup {"summary", "replaces", "conflicts", "items", "verify"}
           /\ ~(field \in RemovalBreaks /\ kind = "removed")
           /\ ~(field \in AdditionInforms /\ kind = "added") -> "minor"
      [] OTHER -> "info"

\* The fields of a node that are compared; those of a ticket alone are not among them.
TicketOnly == {"title", "description", "action", "sdd_phase", "prompt", "assignee", "labels", "ticket_id"}
ComparedFields == (EnumFields \cup TextFields \cup ListFields \cup StructuredFields) \ (TicketOnly \cup {"load_profiles"})

OrderedFields == {"steps", "depends"}

\* Lists are compared as sets, and ordered ones with the same members as sequences.
DiffRelationField(field, old, new) ==
    {Change(field, "removed", ClassifySeverity(field, "removed"), e) : e \in ToSet(old) \ ToSet(new)}
    \cup {Change(field, "added", ClassifySeverity(field, "added"), e) : e \in ToSet(new) \ ToSet(old)}
    \cup (IF field \in OrderedFields /\ ToSet(old) = ToSet(new) /\ old # new
          THEN {Change(field, "modified", "minor", <<>>)} ELSE {})

KindOf(left, right, key) ==
    CASE key \notin DOMAIN left -> "added"
      [] key \notin DOMAIN right -> "removed"
      [] OTHER -> "modified"

\* The keys that two records do not agree on.
Differing(left, right, keys) ==
    {k \in keys \cap (DOMAIN left \cup DOMAIN right) :
        ~(k \in DOMAIN left /\ k \in DOMAIN right /\ left[k] = right[k])}

DiffExtraFields(left, right) ==
    {Change(k, KindOf(left, right, k), "info", <<>>) : k \in Differing(left, right, DOMAIN left \cup DOMAIN right)}

DiffAllFields(left, right) ==
    UNION {DiffRelationField(f, List(left, f), List(right, f)) : f \in ListFields \ TicketOnly}
    \cup {LET kind == KindOf(left.fields, right.fields, f) IN Change(f, kind, ClassifySeverity(f, kind), <<>>) :
            f \in Differing(left.fields, right.fields, ComparedFields \ ListFields)}
    \cup DiffExtraFields(left.extra, right.extra)

Breaks(changes) == \E c \in changes : c.severity = "breaking"

\* Of nodes with one id the last one counts.
NodeOf(file, id) == file.nodes[Max({i \in DOMAIN file.nodes : file.nodes[i].id = id})]
ChangesOf(left, right, both) == [id \in both |-> DiffAllFields(NodeOf(left, id), NodeOf(right, id))]
NodeReport(left, right, both, changes) ==
    LET modified == {id \in both : changes[id] # {}}
    IN [added |-> right \ both, removed |-> left \ both,
        modified |-> [id \in modified |-> changes[id]], unchanged |-> Cardinality(both \ modified)]
DiffNodes(left, right) ==
    LET both == Ids(left.nodes) \cap Ids(right.nodes)
    IN NodeReport(Ids(left.nodes), Ids(right.nodes), both, ChangesOf(left, right, both))

-----------------------------------------------------------------------------
HeaderFieldSeverity(field, kind) ==
    CASE field \in {"agm", "package"} -> "breaking"
      [] field = "imports" -> IF kind = "removed" THEN "breaking" ELSE "minor"
      [] field \in {"status", "default_load", "load_profiles", "target_runtime"} ->
            IF kind = "added" THEN "info" ELSE "minor"
      [] OTHER -> "info"

HeaderChange(field, kind, item) == Change(field, kind, HeaderFieldSeverity(field, kind), item)

EntryChanges(left, right, field) ==
    {HeaderChange(field, KindOf(left, right, k), k) : k \in Differing(left, right, DOMAIN left \cup DOMAIN right)}

\* Tags as one value, which is added when there were none before, and removed when none are left.
CompareTags(left, right) ==
    LET tags(h) == IF "tags" \in DOMAIN h THEN ToSet(h["tags"].list) ELSE {}
        kind == IF tags(left) = {} THEN "added" ELSE IF tags(right) = {} THEN "removed" ELSE "modified"
    IN IF tags(left) = tags(right) THEN {} ELSE {HeaderChange("tags", kind, <<>>)}

\* One entry per package, the last one of the list.
CompareImports(left, right) ==
    LET map(h) == LET all == Imports(h)
                  IN [p \in {e.package : e \in ToSet(all)} |->
                         all[Max({i \in DOMAIN all : all[i].package = p})].versions]
    IN EntryChanges(map(left), map(right), "imports")

CompareLoadProfiles(left, right) ==
    LET map(h) == IF "load_profiles" \in DOMAIN h THEN h["load_profiles"].profiles ELSE <<>>
    IN EntryChanges(map(left), map(right), "load_profiles")

DiffHeaders(left, right) ==
    {HeaderChange(k, KindOf(left, right, k), <<>>) : k \in Differing(left, right, HeaderTexts)}
    \cup CompareTags(left, right) \cup CompareImports(left, right) \cup CompareLoadProfiles(left, right)

-----------------------------------------------------------------------------
(* The report.                                                               *)

Report(header, nodes) ==
    [header |-> header, nodes |-> nodes,
     breaking |-> \/ nodes.removed # {} \/ Breaks(header)
                  \/ \E id \in DOMAIN nodes.modified : Breaks(nodes.modified[id])]

DiffFiles(left, right) == Report(DiffHeaders(left, right), DiffNodes(left, right))

IsEmpty(report) ==
    report.header = {} /\ report.nodes.added = {} /\ report.nodes.removed = {} /\ report.nodes.modified = <<>>

BreakingOnly(report) ==
    LET only(changes) == {c \in changes : c.severity = "breaking"}
        modified == report.nodes.modified
        broken == {id \in DOMAIN modified : Breaks(modified[id])}
    IN Report(only(report.header),
              [report.nodes EXCEPT !.added = {}, !.modified = [id \in broken |-> only(modified[id])]])
=============================================================================
