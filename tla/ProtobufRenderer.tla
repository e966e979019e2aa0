-------------------------- MODULE ProtobufRenderer --------------------------
(***************************************************************************)
(* renderEventContractProtobufSchema: a payload as proto3 messages, or a   *)
(* failure.  The context (usedMessageNames and nestedMessages) is threaded *)
(* through the rendering, every result holds what it has become.           *)
(***************************************************************************)
EXTENDS EventSchema

CONSTANTS
  MaxFieldNumber,   \* 536870911
  ReservedNumbers,  \* 19000 .. 19999
  Alphabet,         \* the tokens of names, in the order of their characters
  Uppercase         \* the tokens with a capital, by token

Failure == [failed |-> TRUE]
Result(of, context) == [failed |-> FALSE, of |-> of, context |-> context]

Message(name, fields) == [name |-> name, fields |-> fields]

-----------------------------------------------------------------------------
(* protobuf-naming.ts *)

\* A package is the sequence of its parts, <<>> is ''.
IsPackage(package) == package # None => /\ package # <<>>
                                        /\ \A part \in Range(package) : IsIdentifier(part)

\* toProtobufJsonName: without "_", what follows one begins with a capital.
JsonName(name) ==
  LET kept == SelectSeq([i \in DOMAIN name |-> i], LAMBDA i : name[i] # "_")
  IN [i \in DOMAIN kept |-> IF kept[i] > 1 /\ name[kept[i] - 1] = "_"
                            THEN Uppercase[name[kept[i]]] ELSE name[kept[i]]]

MessageName(root, path, arrayItem) ==
  Joined(<<root>> \o path \o (IF arrayItem THEN <<<<"item">>>> ELSE <<>>) \o <<<<"message">>>>)

CanReserve(name, context) == IsIdentifier(name) /\ name \notin context.used

-----------------------------------------------------------------------------
(* protobuf-field-number.ts *)

IsFieldNumber(number) == number \in 1 .. MaxFieldNumber /\ number \notin ReservedNumbers

\* requireProtobufFieldNumber: an explicit number, not one of the message.
IsNumbered(path, taken, fieldNumbers) ==
  /\ path \in DOMAIN fieldNumbers /\ IsFieldNumber(fieldNumbers[path])
  /\ fieldNumbers[path] \notin {g.number : g \in taken}

-----------------------------------------------------------------------------
(* render-event-contract-protobuf-schema.ts *)

IsInt32Format(node) == node.format \in {None, "int32"}

InclusiveInt32(node) == node.min = Int32Min /\ node.max = Int32Max
ExclusiveInt32(node) == node.xmin = Int32Min - 1 /\ node.xmax = Int32Max + 1

IsInt32(node) == /\ ~node.extra /\ IsInt32Format(node)
                 /\ \/ InclusiveInt32(node) /\ node.xmin = None /\ node.xmax = None
                    \/ ExclusiveInt32(node) /\ node.min = None /\ node.max = None

IsNullable(node) == \/ node.type = "anyOf" /\ Null \in Range(node.nodes)
                    \/ node.type = "union" /\ "null" \in Range(node.types)

\* Mutation: an array that is absent is an empty one.
MayRepeatAbsent(node, optional) ==
  node.type = "array" => ~node.extra /\ ~IsNullable(node.items) /\ node.items.type # "array"

\* An array is repeated, which has no presence, no null and no array as an item.
MayRepeat(node, optional) ==
  node.type = "array" =>
    ~optional /\ ~node.extra /\ ~IsNullable(node.items) /\ node.items.type # "array"

ScalarOf == [string |-> "string", boolean |-> "bool", number |-> "double"]

\* The smaller of two names as texts.
Before(m, n) ==
  LET Rank(t) == CHOOSE r \in DOMAIN Alphabet : Alphabet[r] = t
      least == IF Len(m) < Len(n) THEN Len(m) ELSE Len(n)
      differ == {i \in 1 .. least : m[i] # n[i]}
  IN IF differ = {} THEN Len(m) < Len(n)
     ELSE LET i == CHOOSE i \in differ : \A j \in differ : i =< j
          IN Rank(m[i]) < Rank(n[i])

ByNumber(fields) == SortSeq(fields, LAMBDA f, g : f.number < g.number)

\* Mutation: messages in the order they were met.
AsMet(messages) == messages

ByName(messages) == SortSeq(messages, LAMBDA m, n : Before(m.name, n.name))

RECURSIVE RenderType(_, _, _, _), RenderMessage(_, _, _, _)

\* The properties in their order, beside the names and numbers taken already.
RenderFields(node, path, given) ==
  FoldLeft(LAMBDA sofar, f :
    LET fieldPath == Append(path, f.name)
        optional  == f.name \notin Range(node.required)
        repeated  == f.node.type = "array"
        taken     == IF sofar.failed THEN {} ELSE Range(sofar.of)
    IN IF \/ sofar.failed \/ ~IsIdentifier(f.name)
          \/ JsonName(f.name) \in {JsonName(g.name) : g \in taken}
          \/ ~IsNumbered(fieldPath, taken, given.fieldNumbers)
          \/ IsNullable(f.node) \/ ~MayRepeat(f.node, optional)
       THEN Failure
       ELSE LET type == RenderType(IF repeated THEN f.node.items ELSE f.node, fieldPath, repeated,
                                   sofar.context)
            IN IF type.failed THEN Failure
               ELSE Result(Append(sofar.of,
                      [name |-> f.name, number |-> given.fieldNumbers[fieldPath], type |-> type.of,
                       label |-> IF repeated THEN "repeated" ELSE IF optional THEN "optional" ELSE "none"]),
                      type.context),
    Result(<<>>, given), node.fields)

RenderMessage(node, path, name, given) ==
  IF /\ node.type = "object" /\ ~node.extra /\ node.closed
     /\ IsInjective(node.required) /\ Range(node.required) \subseteq FieldNames(node)
  THEN LET fields == RenderFields(node, path, given)
       IN IF fields.failed THEN Failure
          ELSE Result(Message(name, ByNumber(fields.of)), fields.context)
  ELSE Failure

\* A type that is not repeated; a message is one of the context.
RenderType(node, path, arrayItem, given) ==
  CASE node.type = "object" ->
         LET name    == MessageName(given.root, path, arrayItem)
             message == RenderMessage(node, path, name, [given EXCEPT !.used = @ \cup {name}])
         IN IF ~CanReserve(name, given) \/ message.failed THEN Failure
            ELSE Result(name, [message.context EXCEPT !.nested = Append(@, message.of)])
    [] node.type \in Scalars /\ ~node.extra /\ node.enum = None ->
         Result(<<ScalarOf[node.type]>>, given)
    [] node.type = "integer" /\ IsInt32(node) -> Result(<<"int32">>, given)
    [] OTHER -> Failure

\* The messages of a contract, with the options messageName, package and
\* fieldNumbers.
Render(payload, messageName, package, fieldNumbers) ==
  LET root == RenderMessage(payload, <<>>, messageName,
                [root |-> messageName, fieldNumbers |-> fieldNumbers,
                 used |-> {messageName}, nested |-> <<>>])
  IN IF ~IsIdentifier(messageName) \/ ~IsPackage(package) \/ root.failed THEN Failure
     ELSE [failed |-> FALSE, package |-> package,
           messages |-> <<root.of>> \o ByName(root.context.nested)]

=============================================================================
