---------------------------- MODULE EventSchemas ----------------------------
(***************************************************************************)
(* An event contract and its schemas.  A payload is declared, rendered as  *)
(* Avro and as Protobuf, and declared again with its properties in another *)
(* order, in any sequence.  Nothing is stored: each rendering starts anew. *)
(***************************************************************************)
EXTENDS EventSchema

CONSTANTS
  Contracts,        \* what may be declared: a payload, its name and namespace in a
                    \* schema and the numbers of its fields
  MaxFieldNumber,
  ReservedNumbers,
  Alphabet,
  Uppercase

VARIABLES contract, avro, protobuf
vars == <<contract, avro, protobuf>>

Avro     == INSTANCE AvroRenderer
Protobuf == INSTANCE ProtobufRenderer

Init == contract \in Contracts /\ avro = None /\ protobuf = None

RenderAvro ==
  /\ avro' = Avro!Render(contract.payload, contract.name, contract.namespace)
  /\ UNCHANGED <<contract, protobuf>>

RenderProtobuf ==
  /\ protobuf' = Protobuf!Render(contract.payload, contract.name, contract.namespace, contract.numbers)
  /\ UNCHANGED <<contract, avro>>

\* A node whose objects declare their properties the other way round.
RECURSIVE Mirrored(_)
Mirrored(node) ==
  CASE node.type = "object" ->
         [node EXCEPT !.fields = [i \in DOMAIN @ |->
            LET f == @[Len(@) + 1 - i] IN Field(f.name, Mirrored(f.node))]]
    [] node.type = "array" -> [node EXCEPT !.items = Mirrored(@)]
    [] OTHER -> node

DeclareInOtherOrder ==
  /\ contract' = [contract EXCEPT !.payload = Mirrored(@)]
  /\ avro' = None
  /\ UNCHANGED protobuf

Next == RenderAvro \/ RenderProtobuf \/ DeclareInOtherOrder
Spec == Init /\ [][Next]_vars

-----------------------------------------------------------------------------
(* What a rendered schema says of a value. *)

RECURSIVE AvroAccepts(_, _)
AvroAccepts(type, v) ==
  CASE type.type = "record" ->
         /\ v[1] = "object" /\ DOMAIN v[2] = {f.name : f \in Range(type.fields)}
         /\ \A f \in Range(type.fields) : AvroAccepts(f.type, v[2][f.name])
    [] type.type = "enum"     -> v[1] = "text" /\ v[2] \in Range(type.symbols)
    [] type.type = "array"    -> v[1] = "list" /\ \A i \in DOMAIN v[2] : AvroAccepts(type.items, v[2][i])
    [] type.type = "nullable" -> v = NullValue \/ AvroAccepts(type.of, v)
    [] type.type = "int"      -> v[1] = "integer" /\ v[2] \in Int32Min .. Int32Max
    [] type.type = "double"   -> v[1] \in {"integer", "fraction"}
    [] type.type = "string"   -> v[1] = "text"
    [] OTHER                  -> v[1] = type.type

\* The names an Avro schema defines, each as often as it does.
RECURSIVE Defines(_)
Defines(type) ==
  CASE type.type = "record" -> <<type.name>> \o FoldLeft(LAMBDA s, f : s \o Defines(f.type), <<>>, type.fields)
    [] type.type = "enum"     -> <<type.name>>
    [] type.type = "array"    -> Defines(type.items)
    [] type.type = "nullable" -> Defines(type.of)
    [] OTHER                  -> <<>>

\* A proto3 field without a label has no presence, an absent one is its default,
\* as is a repeated one; a message is found by its name and a field by its number
\* or its JSON name.  A type that reads like a scalar is the scalar.
RECURSIVE TypeAccepts(_, _, _), MessageAccepts(_, _, _)
TypeAccepts(messages, type, v) ==
  CASE type = <<"string">> -> v[1] = "text"
    [] type = <<"bool">>   -> v[1] = "boolean"
    [] type = <<"double">> -> v[1] \in {"integer", "fraction"}
    [] type = <<"int32">>  -> v[1] = "integer" /\ v[2] \in Int32Min .. Int32Max
    [] OTHER -> \E message \in Range(messages) :
                  message.name = type /\ MessageAccepts(messages, message, v)

FieldAccepts(messages, f, v) ==
  IF f.label = "repeated"
  THEN v[1] = "list" /\ \A i \in DOMAIN v[2] : TypeAccepts(messages, f.type, v[2][i])
  ELSE TypeAccepts(messages, f.type, v)

MessageAccepts(messages, message, v) ==
  LET fields == message.fields IN
  /\ v[1] = "object"
  /\ IsInjective([i \in DOMAIN fields |-> fields[i].number])
  /\ IsInjective([i \in DOMAIN fields |-> Protobuf!JsonName(fields[i].name)])
  /\ DOMAIN v[2] \subseteq {f.name : f \in Range(fields)}
  /\ \A f \in Range(fields) : IF f.name \in DOMAIN v[2]
                               THEN FieldAccepts(messages, f, v[2][f.name])
                               ELSE f.label = "optional"

Rendered(schema) == schema # None /\ ~schema.failed

-----------------------------------------------------------------------------
(* Safety. *)

\* "fail instead of being widened or silently reinterpreted"
\* (event-schema-avro/README.md:43): an Avro schema accepts what the payload
\* accepts and nothing else, and no type of it is defined twice.
AvroMeansThePayload ==
  Rendered(avro) =>
    /\ IsInjective(Defines(avro.type))
    /\ \A v \in Samples(contract.payload) : Accepts(contract.payload, v) <=> AvroAccepts(avro.type, v)

\* So does a Protobuf schema, and its reader gets what was sent: by numbers and by
\* JSON names, with absent fields absent.
ProtobufMeansThePayload ==
  Rendered(protobuf) =>
    /\ IsInjective([i \in DOMAIN protobuf.messages |-> protobuf.messages[i].name])
    /\ \A v \in Samples(contract.payload) :
         Accepts(contract.payload, v)
           <=> MessageAccepts(protobuf.messages, protobuf.messages[1], v)

\* Declared in another order and rendered again, the Protobuf schema is the same:
\* numbers, order and names do not come from the declaration, nor does a failure.
ProtobufIgnoresOrder == [][protobuf # None => protobuf' = protobuf]_vars

=============================================================================
