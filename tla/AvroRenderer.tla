---------------------------- MODULE AvroRenderer ----------------------------
(***************************************************************************)
(* renderEventContractAvroSchema: a payload as an Avro record, or a        *)
(* failure.  The names of the types rendered so far (usedNamedTypes) are   *)
(* threaded through the rendering, every result says which are used.       *)
(***************************************************************************)
EXTENDS EventSchema

Failure == [failed |-> TRUE]
Result(type, used) == [failed |-> FALSE, type |-> type, used |-> used]

(* avro-schema.ts *)
Scalar(type)         == [type |-> type]
Record(name, fields) == [type |-> "record", name |-> name, fields |-> fields]
EnumType(name, symbols) == [type |-> "enum", name |-> name, symbols |-> symbols]
ArrayOf(items)       == [type |-> "array", items |-> items]
Nullable(type)       == [type |-> "nullable", of |-> type]

(* avro-naming.ts *)
PrimitiveNames == {<<t>> : t \in {"null", "boolean", "int", "long", "float", "double",
                                  "bytes", "string"}}
IsNamedTypeName(name) == IsIdentifier(name) /\ name \notin PrimitiveNames

\* A namespace is the sequence of its parts, <<>> is ''.
IsNamespace(namespace) == namespace # None => \A part \in Range(namespace) : IsIdentifier(part)

GeneratedName(root, path, kind) == Joined(<<root>> \o path \o <<<<kind>>>>)

\* Mutation: a name that is in use is used again.
CanReserveAgain(name, used) == IsNamedTypeName(name)

CanReserve(name, used) == IsNamedTypeName(name) /\ name \notin used

-----------------------------------------------------------------------------
(* render-event-contract-avro-schema.ts *)

IsInt32Format(node) == node.format \in {None, "int32"}

InclusiveInt32(node) == node.min = Int32Min /\ node.max = Int32Max
ExclusiveInt32(node) == node.xmin = Int32Min - 1 /\ node.xmax = Int32Max + 1

RenderInt32(node, used) ==
  IF /\ ~node.extra /\ IsInt32Format(node)
     /\ \/ InclusiveInt32(node) /\ node.xmin = None /\ node.xmax = None
        \/ ExclusiveInt32(node) /\ node.min = None /\ node.max = None
  THEN Result(Scalar("int"), used) ELSE Failure

RenderEnum(node, root, path, used) ==
  LET name == GeneratedName(root, path, "enum")
  IN IF /\ ~node.extra /\ node.enum # <<>> /\ IsInjective(node.enum)
        /\ \A symbol \in Range(node.enum) : IsIdentifier(symbol)
        /\ CanReserve(name, used)
     THEN Result(EnumType(name, node.enum), used \cup {name}) ELSE Failure

\* extractNullableSchema: the node that may be null as well, None if there is
\* none, the failure if the union is another one.  What a list of types makes
\* nullable says nothing but its type: only a scalar can be rendered from that.
NullableOf(node) ==
  CASE node.type = "anyOf" ->
         IF ~node.extra /\ Len(node.nodes) = 2 /\ ((node.nodes[1] = Null) # (node.nodes[2] = Null))
         THEN IF node.nodes[1] = Null THEN node.nodes[2] ELSE node.nodes[1]
         ELSE Failure
    [] node.type = "union" ->
         IF /\ ~node.extra /\ Len(node.types) = 2 /\ "null" \in Range(node.types)
            /\ Range(node.types) \cap Scalars # {}
         THEN Plain(CHOOSE type \in Range(node.types) : type # "null")
         ELSE Failure
    [] OTHER -> None

ScalarOf == [string |-> "string", boolean |-> "boolean", number |-> "double"]

RECURSIVE RenderNode(_, _, _, _), RenderNonNull(_, _, _, _), RenderRecord(_, _, _, _, _)

\* The properties in their order; optional ones are not supported.
RenderFields(node, root, path, used) ==
  FoldLeft(LAMBDA sofar, f :
             IF sofar.failed \/ ~IsIdentifier(f.name) \/ f.name \notin Range(node.required)
             THEN Failure
             ELSE LET field == RenderNode(f.node, root, Append(path, f.name), sofar.used)
                  IN IF field.failed THEN Failure
                     ELSE Result(Append(sofar.type, [name |-> f.name, type |-> field.type]), field.used),
           Result(<<>>, used), node.fields)

RenderRecord(node, root, path, name, used) ==
  IF /\ node.type = "object" /\ ~node.extra /\ node.closed
     /\ IsInjective(node.required) /\ Range(node.required) \subseteq FieldNames(node)
     /\ CanReserve(name, used)
  THEN LET fields == RenderFields(node, root, path, used \cup {name})
       IN IF fields.failed THEN Failure ELSE Result(Record(name, fields.type), fields.used)
  ELSE Failure

RenderNonNull(node, root, path, used) ==
  CASE node.type = "object" -> RenderRecord(node, root, path, GeneratedName(root, path, "record"), used)
    [] node.type = "string" /\ node.enum # None -> RenderEnum(node, root, path, used)
    [] node.type \in Scalars /\ ~node.extra /\ node.enum = None -> Result(Scalar(ScalarOf[node.type]), used)
    [] node.type = "integer" -> RenderInt32(node, used)
    [] node.type = "array" /\ ~node.extra ->
         LET items == RenderNode(node.items, root, path, used)
         IN IF items.failed THEN Failure ELSE Result(ArrayOf(items.type), items.used)
    [] OTHER -> Failure

RenderNode(node, root, path, used) ==
  LET nonNull == NullableOf(node)
  IN CASE nonNull = None    -> RenderNonNull(node, root, path, used)
       [] nonNull = Failure -> Failure
       [] OTHER -> LET of == RenderNonNull(nonNull, root, path, used)
                   IN IF of.failed THEN Failure ELSE Result(Nullable(of.type), of.used)

\* The schema of a contract, with the options recordName and namespace.
Render(payload, recordName, namespace) ==
  IF IsNamedTypeName(recordName) /\ IsNamespace(namespace)
  THEN LET root == RenderRecord(payload, recordName, <<>>, recordName, {})
       IN IF root.failed \/ namespace = None THEN root
          ELSE [root EXCEPT !.type = @ @@ [namespace |-> namespace]]
  ELSE Failure

=============================================================================
