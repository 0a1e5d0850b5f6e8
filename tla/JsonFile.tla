------------------------------ MODULE JsonFile ------------------------------
(* The canonical JSON of a file and the file read back from it               *)
(* (agm-core/src/renderer/json_canonical.rs).  A JSON value is [str], [arr], *)
(* [num], or [serde] for what the serialisation library writes and reads;    *)
(* an object is a function of its keys.                                      *)
EXTENDS Parser

CONSTANTS
    WholeOf,    \* [word -> word]: versions that are numbers, without their decimals
    DotZero,    \* [word -> word]: a whole number, with the decimals ".0"
    ScalarAs    \* [word -> word]: words that are numbers, as a number is written

TicketFields == {"title", "description", "action", "sdd_phase", "assignee", "ticket_id", "labels", "prompt"}

KnownNodeFields ==
    {"node"} \cup ((TextFields \cup EnumFields \cup ListFields \cup StructuredFields)
                    \ (TicketFields \cup {"load_profiles"}))

FieldToJson(key, value) ==
    CASE key = "retry_count" -> [num |-> value.text[1].parts[1]]
      [] key # "retry_count" /\ DOMAIN value = {"text"} -> [str |-> value.text]
      [] DOMAIN value = {"list"} -> [arr |-> value.list]
      [] OTHER -> [serde |-> value]

CoerceScalar(words) ==
    IF Len(words) = 1 /\ words[1] \in DOMAIN ScalarAs THEN [num |-> ScalarAs[words[1]]]
    ELSE [str |-> OneLine(words)]

ExtraToJson(value) ==
    CASE DOMAIN value = {"scalar"} -> CoerceScalar(value.scalar)
      [] DOMAIN value = {"list"} -> [arr |-> value.list]
      [] DOMAIN value = {"block"} -> [str |-> value.block]

NodeToJsonKnown(node) ==
    [k \in DOMAIN node.fields \ TicketFields |-> FieldToJson(k, node.fields[k])]
    @@ [node |-> [str |-> OneLine(node.id)]]

\* An extra field takes the place of a known one with its key; the fields of tickets are not written.
NodeToJson(node) ==
    [k \in DOMAIN node.extra |-> ExtraToJson(node.extra[k])]
    @@ [k \in DOMAIN node.fields \ TicketFields |-> FieldToJson(k, node.fields[k])]
    @@ [node |-> [str |-> OneLine(node.id)]]

\* A version MAJOR.MINOR is a number to it, and only its whole part is kept.
ConvertAgmVersion(text) ==
    IF Len(text) = 1 /\ text[1].parts[1] \in DOMAIN WholeOf THEN [num |-> WholeOf[text[1].parts[1]]]
    ELSE [str |-> text]

AgmToJson(file) ==
    [header |-> [k \in DOMAIN file.header |-> IF k = "agm" THEN ConvertAgmVersion(file.header.agm.text)
                                              ELSE FieldToJson(k, file.header[k])],
     nodes |-> [i \in DOMAIN file.nodes |-> NodeToJson(file.nodes[i])]]

-----------------------------------------------------------------------------
(* Reading.  A value of the wrong kind under a known key is an error.        *)

ExpectedKind(key) ==
    CASE key \in ListFields -> "arr"
      [] key = "retry_count" -> "num"
      [] key \in StructuredFields -> "serde"
      [] OTHER -> "str"

KindFits(key, value) == ExpectedKind(key) \in DOMAIN value

\* Enumerations are parsed again.
EnumFits(key, value) == key \in EnumFields => Parses(value.str)

FieldFromJson(value) ==
    CASE DOMAIN value = {"str"} -> [text |-> value.str]
      [] DOMAIN value = {"arr"} -> [list |-> value.arr]
      [] DOMAIN value = {"num"} -> [text |-> Word(value.num)]
      [] DOMAIN value = {"serde"} -> value.serde

\* Whatever text it was, an unknown string is a scalar.
ExtraFromJson(value) ==
    CASE DOMAIN value = {"num"} -> [scalar |-> <<value.num>>]
      [] DOMAIN value = {"arr"} -> [list |-> value.arr]
      [] DOMAIN value = {"str"} ->
            IF Len(value.str) > 1 THEN [lines |-> value.str]
            ELSE [scalar |-> IF value.str = NoText THEN <<>> ELSE value.str[1].parts]

JsonToNode(obj) ==
    LET known == (DOMAIN obj \cap KnownNodeFields) \ {"node"}
        bad == {k \in known \cup {"node"} : ~KindFits(k, obj[k])}
               \cup {k \in known \cap EnumFields : "str" \in DOMAIN obj[k] /\ ~EnumFits(k, obj[k])}
    IN IF bad # {} THEN [error |-> bad]
       ELSE [id |-> IF obj["node"].str = NoText THEN <<>> ELSE obj["node"].str[1].parts,
             fields |-> [k \in known |-> FieldFromJson(obj[k])],
             extra |-> [k \in DOMAIN obj \ KnownNodeFields |-> ExtraFromJson(obj[k])]]

\* A whole number is read as MAJOR.0, for the parser accepts no other.
GetAgmString(value) == IF "num" \in DOMAIN value THEN Word(DotZero[value.num]) ELSE value.str

JsonToAgm(json) ==
    LET nodes == [i \in DOMAIN json.nodes |-> JsonToNode(json.nodes[i])]
    IN IF \E i \in DOMAIN nodes : "error" \in DOMAIN nodes[i] THEN [error |-> "InvalidType"]
       ELSE [header |-> [k \in DOMAIN json.header |->
                            IF k = "agm" THEN [text |-> GetAgmString(json.header[k])]
                            ELSE FieldFromJson(json.header[k])],
             nodes |-> nodes]

-----------------------------------------------------------------------------
(* What JSON keeps.                                                          *)

\* Read back under a name that is known by another kind, or with its number written anew.
JsonKeeps(node) ==
    /\ DOMAIN node.fields \cap TicketFields = {}
    /\ DOMAIN node.extra \cap KnownNodeFields = {}
    /\ \A k \in DOMAIN node.extra :
          /\ "block" \notin DOMAIN node.extra[k]
          /\ "scalar" \in DOMAIN node.extra[k] =>
                \A w \in ToSet(node.extra[k].scalar) \cap DOMAIN ScalarAs : ScalarAs[w] = w

\* The same version of the format, or one that differs from it in the minor number.
SameMajor(old, new) ==
    old = new \/ \E v, w \in DOMAIN WholeOf : old = Word(v) /\ new = Word(w) /\ WholeOf[v] = WholeOf[w]
=============================================================================
