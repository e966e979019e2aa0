----------------------------- MODULE EventSchema -----------------------------
(***************************************************************************)
(* What the renderers of event schemas read: the payload of an event       *)
(* contract after z.toJSONSchema() has normalized it.  A node is a record  *)
(* tagged with its type; keywords a renderer knows nothing of (a pattern,  *)
(* a minimal length) are one flag, "extra".  Accepts is what JSON Schema   *)
(* says of a value, the reference for every rendered schema.               *)
(*                                                                         *)
(* A name is a sequence of tokens: letters and words, "_" and "-", where   *)
(* "-" stands for a character no identifier may have.                      *)
(***************************************************************************)
EXTENDS Integers, Sequences, SequencesExt, TLC

CONSTANTS
  Int32Max,  \* 2147483647
  None       \* a keyword that is absent

Int32Min == -(Int32Max + 1)

(* Nodes. *)
Object(closed, fields, required) ==
  [type |-> "object", closed |-> closed, fields |-> fields, required |-> required, extra |-> FALSE]
Field(name, node) == [name |-> name, node |-> node]
Plain(type)       == [type |-> type, enum |-> None, extra |-> FALSE]
Enum(symbols)     == [type |-> "string", enum |-> symbols, extra |-> FALSE]
Integer(min, max, xmin, xmax, format) ==
  [type |-> "integer", min |-> min, max |-> max, xmin |-> xmin, xmax |-> xmax,
   format |-> format, extra |-> FALSE]
Array(items)      == [type |-> "array", items |-> items, extra |-> FALSE]
AnyOf(nodes)      == [type |-> "anyOf", nodes |-> nodes, extra |-> FALSE]
TypeUnion(types)  == [type |-> "union", types |-> types, extra |-> FALSE]
Unrepresentable   == [type |-> "unrepresentable", extra |-> FALSE]

\* isPlainNullJsonSchema
Null == Plain("null")

Scalars == {"string", "boolean", "number"}

FieldNames(node) == {node.fields[i].name : i \in DOMAIN node.fields}

-----------------------------------------------------------------------------
(* Names. *)

Underscore == <<"_">>
Joined(path) == FoldLeft(LAMBDA name, part : IF name = <<>> THEN part ELSE name \o Underscore \o part,
                         <<>>, path)

\* /^[A-Za-z_][A-Za-z0-9_]*$/
IsIdentifier(name) == name # <<>> /\ "-" \notin Range(name)

-----------------------------------------------------------------------------
(* Values: tagged, as TLC compares no text with a number. *)

Text(t)    == <<"text", t>>
Number(n)  == <<"integer", n>>
Fraction   == <<"fraction">>
Truth(b)   == <<"boolean", b>>
NullValue  == <<"null">>
List(s)    == <<"list", s>>
Fields(f)  == <<"object", f>>

\* A text that no enum lists.
PlainText == Text(<<"-">>)

\* What an extra keyword forbids: one text, one number, the empty list.
Forbidden == {PlainText, Fraction, List(<<>>)}

Atoms == {Number(n) : n \in Int32Min - 1 .. Int32Max + 1} \cup {Truth(TRUE)}
           \cup {PlainText, Fraction, NullValue}

Within(node, n) == /\ node.min  # None => n >= node.min
                   /\ node.max  # None => n =< node.max
                   /\ node.xmin # None => n > node.xmin
                   /\ node.xmax # None => n < node.xmax

AcceptsType(type, v) ==
  CASE type = "number"  -> v[1] \in {"integer", "fraction"}
    [] type = "string"  -> v[1] = "text"
    [] type = "array"   -> v[1] = "list"
    [] OTHER            -> v[1] = type

RECURSIVE Accepts(_, _)
Accepts(node, v) ==
  /\ node.extra => v \notin Forbidden
  /\ CASE node.type = "object" ->
            /\ v[1] = "object"
            /\ Range(node.required) \subseteq DOMAIN v[2]
            /\ node.closed => DOMAIN v[2] \subseteq FieldNames(node)
            /\ \A f \in Range(node.fields) : f.name \in DOMAIN v[2] => Accepts(f.node, v[2][f.name])
       [] node.type = "string" ->
            /\ v[1] = "text"
            /\ node.enum # None => v[2] \in Range(node.enum)
       [] node.type = "integer" -> v[1] = "integer" /\ Within(node, v[2])
       [] node.type = "array"   -> v[1] = "list" /\ \A i \in DOMAIN v[2] : Accepts(node.items, v[2][i])
       [] node.type = "anyOf"   -> \E i \in DOMAIN node.nodes : Accepts(node.nodes[i], v)
       [] node.type = "union"   -> \E i \in DOMAIN node.types : AcceptsType(node.types[i], v)
       [] OTHER                 -> AcceptsType(node.type, v)

Merged(f, g) == [x \in DOMAIN f \cup DOMAIN g |-> IF x \in DOMAIN f THEN f[x] ELSE g[x]]

\* Values that tell the schemas apart: right and wrong in every position.
RECURSIVE Samples(_)
Samples(node) ==
  CASE node.type = "object" ->
         LET of[i \in 0 .. Len(node.fields)] ==
               IF i = 0 THEN {<<>>}
               ELSE {Merged(f, g) : f \in of[i - 1], g \in
                       {<<>>} \cup {(node.fields[i].name :> v) : v \in Samples(node.fields[i].node)}}
         IN {Fields(f) : f \in of[Len(node.fields)]} \cup {Fields(<<"-">> :> Fraction), NullValue}
    [] node.type = "array"  -> {NullValue, List(<<>>)} \cup {List(<<v>>) : v \in Samples(node.items)}
    [] node.type = "string" -> {PlainText, NullValue, Fraction}
                                 \cup (IF node.enum = None THEN {} ELSE {Text(s) : s \in Range(node.enum)})
    [] node.type = "anyOf"  -> UNION {Samples(node.nodes[i]) : i \in DOMAIN node.nodes}
    [] OTHER                -> Atoms

=============================================================================
