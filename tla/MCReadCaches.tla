---------------------------- MODULE MCReadCaches ----------------------------
(* Instances of ReadCaches and of IdentityKeys for TLC. *)
EXTENDS ReadCachesInvariant, IdentityKeys

MCPlain == {"m", "a", "b", "l", "v", "d", "1", "2", "3", "4", "5", "6", "7", "A", "C", "D"}

MCEscapeOf ==
  (":" :> <<"%", "3", "A">>) @@ ("&" :> <<"%", "2", "6">>) @@ ("=" :> <<"%", "3", "D">>)
    @@ ("|" :> <<"%", "7", "C">>) @@ ("@" :> <<"%", "4", "A">>) @@ ("%" :> <<"%", "2", "5">>)

MCChars == MCPlain \cup Separators

\* Two tenants whose type and id read the same when joined by a colon, and two
\* logical keys of one of them.
MCKeys == {[type |-> <<"m", ":", "a">>, id |-> <<"b">>, key |-> "x"],
           [type |-> <<"m">>, id |-> <<"a", ":", "b">>, key |-> "x"],
           [type |-> <<"m">>, id |-> <<"a", ":", "b">>, key |-> "y"]}

\* An encoder of the application that tells no logical keys apart.
SameForAll(k) == <<"l">>

-----------------------------------------------------------------------------
(* Identities whose texts have separators in them, and buckets. *)

MCLetters ==
  LET words == FoldSet(LAMBDA w, listed : Append(listed, w), <<>>, Words)
  IN [w \in Words |-> [i \in 1 .. CHOOSE n \in DOMAIN words : words[n] = w |-> "l"]]

MCNumbers == {1, 11}
MCDecimal == (1 :> <<"1">>) @@ (11 :> <<"1", "1">>)

\* Texts that unescaped would end their part and begin the next one.
Texts      == {<<"a">>, <<"a", "|", "a">>, <<"a", "&", "a", "=", "a">>, <<":", "a">>,
               <<"%", "3", "A">>}
Labels     == {JoinedBy("&", <<<<"a">>, Labelled("eventIndex", <<"1">>),
                                        Labelled("eventName", <<"a">>)>>),
               JoinedBy(":", <<<<"a">>, Labelled("slot", <<"a">>)>>),
               JoinedBy(":", <<<<"a">>, Labelled("slot", <<"a">>),
                                        Labelled("discriminator", <<"a">>)>>)}
SomeNames  == {<<"a">>, <<"b">>}
References == [type : Texts, id : Texts]
Lists(S)   == {<<x>> : x \in S} \cup {<<x, y>> : x, y \in S}

SomeDescriptors == [namespace : SomeNames, action : {<<"b">>}, version : Numbers,
                    tenant : References, components : Lists([name : {<<"a">>}, value : Texts])]
SomeDerivations == [parent : Texts \cup Labels, slot : SomeNames,
                    discriminator : Texts \cup Labels \cup {Absent}]
SomeEvents      == [intentId : Texts \cup Labels, eventIndex : Numbers,
                    eventName : Texts \cup Labels, schemaVersion : Numbers]
SomeAttempts    == [executionId : Texts, attemptNumber : Numbers]
SomeLimits      == [key : Texts, scope : Scopes]
SomeOperations  == [actor : References, tenant : {[type |-> <<"a">>, id |-> <<"|">>]},
                    subject : {[type |-> <<"|">>, id |-> <<"a">>]}, name : Texts,
                    schemaVersion : Numbers]

TellsApart(build(_), S) == Cardinality({build(x) : x \in S}) = Cardinality(S)

\* What KeyProofs proves of all texts.
ASSUME TellsApart(BuildIntentKey, SomeDescriptors \cup SomeDerivations)
ASSUME TellsApart(BuildEventIdKey, SomeEvents)
ASSUME TellsApart(BuildExecutionAttemptIdKey, SomeAttempts)
ASSUME Cardinality({BuildRateLimitBucketKey(l, o) : l \in SomeLimits, o \in SomeOperations})
         = Cardinality({<<l, Sharers(l.scope, o)>> : l \in SomeLimits, o \in SomeOperations})

=============================================================================
