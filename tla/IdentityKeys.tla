----------------------------- MODULE IdentityKeys -----------------------------
(***************************************************************************)
(* The keys that identities are made of: an intent, an event and an        *)
(* execution attempt are the UUID of their key, a rate limit is counted    *)
(* under its key.                                                          *)
(***************************************************************************)
EXTENDS KeyText

CONSTANTS
  Letters,  \* the characters of each word the code writes into a key
  Numbers,  \* versions, indices and attempt numbers
  Decimal,  \* their decimal digits
  Absent    \* no discriminator

Words  == {"derived", "v", "v1", "parentIntentId", "slot", "discriminator", "tenantType",
           "tenantId", "intentId", "eventIndex", "eventName", "schemaVersion",
           "executionId", "attemptNumber", "global", "actor", "tenant", "subject",
           "operation"}
Scopes == {"global", "actor", "tenant", "subject", "operation"}

ASSUME WordsAssumption ==
  /\ Letters \in [Words -> Seq(Plain)]
  /\ \A v, w \in Words : Letters[v] = Letters[w] => v = w
ASSUME NumbersAssumption ==
  /\ Decimal \in [Numbers -> Seq(Plain)]
  /\ \A m, n \in Numbers : Decimal[m] = Decimal[n] => m = n
ASSUME AbsentAssumption == Absent \notin Seq(Chars)

Text == Seq(Chars)

\* What the schemas admit: kebab-case and camelCase are plain, and there is at least
\* one component.  The components are listed as localeCompare orders them.
Name              == Seq(Plain)
Reference         == [type : Text, id : Text]
Component         == [name : Name, value : Text]
IntentDescriptors == [namespace : Name, action : Name, version : Numbers,
                      tenant : Reference, components : Seq(Component) \ {<<>>}]
Derivations       == [parent : Text, slot : Name, discriminator : Text \cup {Absent}]
EventIds          == [intentId : Text, eventIndex : Numbers, eventName : Text,
                      schemaVersion : Numbers]
AttemptIds        == [executionId : Text, attemptNumber : Numbers]
RateLimits        == [key : Text, scope : Scopes]  \* as far as the key goes
Operations        == [actor : Reference, tenant : Reference, subject : Reference,
                      name : Text, schemaVersion : Numbers]

-----------------------------------------------------------------------------

Labelled(word, text) == (Letters[word] \o <<"=">>) \o text

TenantParts(tenant) ==
  <<Labelled("tenantType", EncodeURIComponent(tenant.type)),
    Labelled("tenantId", EncodeURIComponent(tenant.id))>>

ComponentParts(components) ==
  [i \in DOMAIN components |-> JoinedBy("=", <<EncodeURIComponent(components[i].name),
                                              EncodeURIComponent(components[i].value)>>)]

RootParts(d) ==
  <<d.namespace, d.action, Letters["v"] \o Decimal[d.version],
    JoinedBy("&", TenantParts(d.tenant)), JoinedBy("&", ComponentParts(d.components))>>

BuildRootIntentKey(d) == JoinedBy(":", RootParts(d))

DerivedSegments(r) ==
  <<<<"@">> \o Letters["derived"], Letters["v1"],
    Labelled("parentIntentId", EncodeURIComponent(r.parent)),
    Labelled("slot", EncodeURIComponent(r.slot))>>

DerivedParts(r) ==
  IF r.discriminator = Absent THEN DerivedSegments(r)
  ELSE Append(DerivedSegments(r), Labelled("discriminator", EncodeURIComponent(r.discriminator)))

BuildDerivedIntentKey(r) == JoinedBy(":", DerivedParts(r))

BuildIntentKey(d) ==
  IF "parent" \in DOMAIN d THEN BuildDerivedIntentKey(d) ELSE BuildRootIntentKey(d)

BuildEventIdKey(d) ==
  JoinedBy("&", <<Labelled("intentId", EncodeURIComponent(d.intentId)),
                  Labelled("eventIndex", Decimal[d.eventIndex]),
                  Labelled("eventName", EncodeURIComponent(d.eventName)),
                  Labelled("schemaVersion", Decimal[d.schemaVersion])>>)

BuildExecutionAttemptIdKey(d) ==
  JoinedBy("&", <<Labelled("executionId", EncodeURIComponent(d.executionId)),
                  Labelled("attemptNumber", Decimal[d.attemptNumber])>>)

\* Who shares the bucket, by scope.
Sharers(scope, operation) ==
  CASE scope = "global"    -> <<>>
    [] scope = "actor"     -> <<operation.actor.type, operation.actor.id>>
    [] scope = "tenant"    -> <<operation.tenant.type, operation.tenant.id>>
    [] scope = "subject"   -> <<operation.subject.type, operation.subject.id>>
    [] scope = "operation" -> <<operation.name, Decimal[operation.schemaVersion]>>

BucketParts(limit, sharers) ==
  [i \in 1 .. 2 + Len(sharers) |->
     CASE i = 1 -> EncodeURIComponent(limit.key)
       [] i = 2 -> Letters[limit.scope]
       [] i > 2 -> EncodeURIComponent(sharers[i - 2])]

BuildRateLimitBucketKey(limit, operation) ==
  JoinedBy("|", BucketParts(limit, Sharers(limit.scope, operation)))

=============================================================================
