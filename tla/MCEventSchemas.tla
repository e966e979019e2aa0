--------------------------- MODULE MCEventSchemas ---------------------------
(* Instances of EventSchemas for TLC. *)
EXTENDS EventSchemas

MCAlphabet  == <<"-", "B", "_", "a", "b", "enum", "item", "message", "record", "root", "string">>
MCUppercase == ("a" :> "A" @@ "b" :> "B" @@ "item" :> "Item")

Root == <<"root">>
A == <<"a">>  B == <<"b">>  A_B == <<"a", "_", "b">>  AB == <<"a", "B">>  Item == <<"item">>

Int32s == {Integer(Int32Min, Int32Max, None, None, None),
           Integer(None, None, Int32Min - 1, Int32Max + 1, None),
           Integer(None, None, Int32Min, Int32Max, None),
           Integer(Int32Min, Int32Max - 1, None, None, None),
           Integer(Int32Min, Int32Max, None, 1, None),
           Integer(None, None, None, None, None)}

\* Nodes that are rendered, and what must not be taken for one of them.
Simple == {Plain(type) : type \in Scalars} \cup Int32s \cup
  { Null, Enum(<<A, B>>), Enum(<<A, <<"-">>>>), Enum(<<A, A>>), Enum(<<>>),
    [Plain("string") EXCEPT !.extra = TRUE], [Plain("number") EXCEPT !.extra = TRUE],
    [Array(Plain("string")) EXCEPT !.extra = TRUE],
    AnyOf(<<Plain("string"), Plain("number")>>),
    TypeUnion(<<"string", "null">>), TypeUnion(<<"string", "number">>) }

Objects(node) == {Object(closed, <<Field(B, node)>>, required) :
                    closed \in BOOLEAN, required \in {<<>>, <<B>>}}

Nodes == Simple \cup {Array(node) : node \in Simple} \cup {AnyOf(<<node, Null>>) : node \in Simple}
  \cup {Array(Array(Plain("string"))), AnyOf(<<Null, Array(Plain("string"))>>)}
  \cup Objects(Plain("string")) \cup {Array(o) : o \in Objects(Plain("string"))}
  \cup {AnyOf(<<o, Null>>) : o \in Objects(Plain("string"))}

\* Numbers by the path of a field: each its own, the same in different messages,
\* the same in one, a reserved one, one that is none and one that is missing.
Paths == {<<n>> : n \in {A, B, A_B, AB, Item}} \cup {<<m, n>> : m \in {A, B, A_B, AB, Item}, n \in {B, Item}}
Position == (A :> 2 @@ B :> 1 @@ A_B :> 3 @@ AB :> 5 @@ Item :> 6)
ByPosition == [path \in Paths |-> Position[path[Len(path)]]]
Numberings == {ByPosition, [path \in Paths |-> 1],
               [ByPosition EXCEPT ![<<B>>] = 4], [ByPosition EXCEPT ![<<B>>] = 7],
               [path \in Paths \ {<<A, B>>} |-> ByPosition[path]]}

Payload(fields, required) == Object(TRUE, fields, required)

\* One field of any node: what a type is taken for.
OfTypes == {[payload |-> Payload(<<Field(A, node)>>, required), numbers |-> ByPosition,
             name |-> name, namespace |-> namespace] :
              node \in Nodes, required \in {<<>>, <<A>>}, name \in {Root, <<"string">>},
              namespace \in {None, <<>>, <<Root, <<"-">>>>}}

\* Two fields whose names, types and numbers may collide.
Nested == {Plain("string"), Enum(<<A>>), Array(Plain("string"))}
  \cup {Object(TRUE, <<Field(n, node)>>, <<n>>) :
          n \in {B, Item}, node \in {Plain("string"), Object(TRUE, <<>>, <<>>)}}
  \cup {Array(Object(TRUE, <<>>, <<>>))}
Pairs == {<<A, B>>, <<A, A_B>>, <<AB, A_B>>, <<A, AB>>, <<B, Item>>, <<Item, A>>}
OfNames == {[payload |-> Payload(<<Field(pair[1], first), Field(pair[2], second)>>, required),
             numbers |-> numbers, name |-> Root, namespace |-> <<Root>>] :
              pair \in Pairs, first \in Nested, second \in Nested,
              required \in {<<>>} \cup Pairs, numbers \in Numberings}
OfNamesRequired == {c \in OfNames : Range(c.payload.required) \subseteq FieldNames(c.payload)}

MCContracts == OfTypes \cup OfNamesRequired

=============================================================================
