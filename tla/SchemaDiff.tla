----------------------------- MODULE SchemaDiff -----------------------------
(* DiffEngine._diff_schema, ._diff_protobuf_schema and ._diff_2020_12       *)
(* (diff/engine.py): the changes between two schemas of one operation.      *)
(* A change keeps its kind, its direction, the path of the node, `note`     *)
(* (which of the engine's messages describes it, all the rules read of the  *)
(* text) and `delta` (its old and new value, where the rules read them).    *)
EXTENDS Schema

Change(kind, dir, at, note, delta) ==
  [kind |-> kind, dir |-> dir, at |-> at, note |-> note, delta |-> delta]

NoDelta == [none |-> {}]

BodyKind(dir) == IF dir = "request" THEN "REQUEST_SCHEMA_CHANGED" ELSE "RESPONSE_SCHEMA_CHANGED"

\* One change when the condition holds, none otherwise.
When(condition, change) == IF condition THEN {change} ELSE {}

\* default, nullable, type, format and enum of one node.
ValueChanges(o, n, dir, p) ==
  When(o.default # n.default, Change(BodyKind(dir), dir, p, "default changed", NoDelta))
  \cup When(o.nullable # n.nullable,
            Change("NULLABILITY_CHANGED", dir, p, "nullability", [flag |-> n.nullable]))
  \cup When(o.type # n.type,
            Change(IF dir = "request" THEN "PARAMETER_TYPE_CHANGED" ELSE "RESPONSE_SCHEMA_CHANGED",
                   dir, p, "type changed", NoDelta))
  \cup When(o.format # n.format,
            Change("PARAMETER_CONSTRAINT_CHANGED", dir, p, "format changed", NoDelta))
  \cup When(o.enum # n.enum,
            Change("ENUM_CHANGED", dir, p, "enum changed", [values |-> <<o.enum, n.enum>>]))

\* Mutant: const is not in the list of constraints.
ConstraintChanges_NoConst(o, n, dir, p) ==
  { Change("PARAMETER_CONSTRAINT_CHANGED", dir, p, b, [bound |-> <<o.bounds[b], n.bounds[b]>>]) :
      b \in { b \in BoundNames : o.bounds[b] # n.bounds[b] } }

\* The constraint attributes, each compared on its own.
ConstraintChanges(o, n, dir, p) ==
  LET Constraint(attr, delta) == Change("PARAMETER_CONSTRAINT_CHANGED", dir, p, attr, delta)
  IN { Constraint(b, [bound |-> <<o.bounds[b], n.bounds[b]>>]) :
         b \in { b \in BoundNames : o.bounds[b] # n.bounds[b] } }
     \cup When(o.const # n.const, Constraint("const", [present |-> n.const # None]))
     \cup When(o.pattern # n.pattern, Constraint("pattern", NoDelta))
     \cup When(o.unique # n.unique, Constraint("unique_items", [flag |-> n.unique]))

\* Mutant: a field that came or went also changed its requiredness.
FieldChanges_Twice(old, new, dir, p) ==
  LET was == Names(old, p, "properties")
      now == Names(new, p, "properties")
      turned == (old[p].required \ new[p].required) \cup (new[p].required \ old[p].required)
  IN { Change("PARAMETER_REMOVED", dir, Child(p, "properties", x), "field removed", NoDelta) :
         x \in was \ now }
     \cup { Change("PARAMETER_REQUIREDNESS", dir, Child(p, "properties", x),
                   "field became required", [flag |-> x \in new[p].required]) : x \in turned }

\* Fields that came, went, or changed requiredness.  A field only changes its
\* requiredness when it is a property on both sides.
FieldChanges(old, new, dir, p) ==
  LET was == Names(old, p, "properties")
      now == Names(new, p, "properties")
      req(x) == x \in new[p].required
      gone == IF dir = "request" THEN "PARAMETER_REMOVED" ELSE "RESPONSE_SCHEMA_CHANGED"
      came == IF dir = "request" THEN "PARAMETER_ADDED" ELSE "RESPONSE_SCHEMA_CHANGED"
      turned == (old[p].required \ new[p].required) \cup (new[p].required \ old[p].required)
  IN { Change(gone, dir, Child(p, "properties", x), "field removed", NoDelta) : x \in was \ now }
     \cup { Change(came, dir, Child(p, "properties", x),
                   IF req(x) THEN "field added (required)" ELSE "field added", NoDelta) :
              x \in now \ was }
     \cup { Change("PARAMETER_REQUIREDNESS", dir, Child(p, "properties", x),
                   IF req(x) THEN "field became required" ELSE "field became optional",
                   [flag |-> req(x)]) :
              x \in turned \cap was \cap now }

\* The discriminator's property and its mapping.
DiscriminatorChanges(o, n, dir, p) ==
  LET Disc(x, note) == Change(BodyKind(dir), dir, Child(p, "mapping", x), note, NoDelta)
      was == DOMAIN o.mapping
      now == DOMAIN n.mapping
  IN When(o.discriminator # n.discriminator, Disc("", "discriminator property changed"))
     \cup { Disc(x, "discriminator mapping removed") : x \in was \ now }
     \cup { Disc(x, "discriminator mapping added") : x \in now \ was }
     \cup { Disc(x, "discriminator remapped") :
              x \in { y \in was \cap now : o.mapping[y] # n.mapping[y] } }

\* dependentRequired, contains bounds: the 2020-12 keywords of the node itself.
KeywordChanges(o, n, dir, p) ==
  LET names == DOMAIN o.dependentRequired \cup DOMAIN n.dependentRequired
      before(x) == Get(o.dependentRequired, x, {})
      after(x) == Get(n.dependentRequired, x, {})
  IN { Change("DEPENDENT_REQUIRED_CHANGED", dir, Child(p, "dependentRequired", x),
              "dependent fields", [gained |-> after(x) \ before(x) # {}]) :
         x \in { y \in names : before(y) # after(y) } }
     \cup When(o.minContains # n.minContains,
               Change("CONTAINS_CHANGED", dir, p, "minContains", NoDelta))
     \cup When(o.maxContains # n.maxContains,
               Change("CONTAINS_CHANGED", dir, p, "maxContains", NoDelta))

\* Subschemas that only one side has, and the kind that says so.
PresenceKind ==
  [dependentSchemas |-> "DEPENDENT_SCHEMA_CHANGED",
   patternProperties |-> "PATTERN_PROPERTIES_CHANGED",
   propertyNames |-> "PROPERTY_NAMES_CHANGED", contains |-> "CONTAINS_CHANGED",
   if |-> "CONDITIONAL_SCHEMA_CHANGED", then |-> "CONDITIONAL_SCHEMA_CHANGED",
   else |-> "CONDITIONAL_SCHEMA_CHANGED"]

PresenceChanges(old, new, dir, p) ==
  UNION { LET was == Names(old, p, kw)
              now == Names(new, p, kw)
          IN { Change(PresenceKind[kw], dir, Child(p, kw, x), "subschema", NoDelta) :
                 x \in (was \ now) \cup (now \ was) } : kw \in DOMAIN PresenceKind }

\* A tuple that changed length, or the type at one of its positions.
TupleChanges(old, new, dir, p) ==
  LET was == Names(old, p, "prefixItems")
      now == Names(new, p, "prefixItems")
      at(i) == Child(p, "prefixItems", i)
  IN IF was # now
     THEN { Change("TUPLE_SHAPE_CHANGED", dir, p, "tuple length", NoDelta) }
     ELSE { Change("TUPLE_SHAPE_CHANGED", dir, at(i), "tuple position", NoDelta) :
              i \in { j \in was : old[at(j)].type # new[at(j)].type } }

-----------------------------------------------------------------------------
(* Protobuf: the number, not the name, is a field's identity.               *)

\* How a field is encoded: its format, or its type (a repeated field wraps its item's shape).
WireShape(s, p, name) ==
  LET q == Child(p, "properties", name)
      scalar(r) == IF s[r].format # None THEN s[r].format
                   ELSE IF s[r].type # None THEN s[r].type ELSE "unknown"
  IN IF q \notin DOMAIN s THEN <<"unknown">>
     ELSE IF s[q].type = "array" /\ Has(s, q, "items", "")
          THEN <<"repeated", scalar(Child(q, "items", ""))>>
          ELSE <<scalar(q)>>

NumberChanges(old, new, dir, p) ==
  LET o == old[p]
      n == new[p]
      reused == { k \in DOMAIN o.numbers \cap DOMAIN n.numbers : o.numbers[k] # n.numbers[k] }
      sameShape(k) == WireShape(old, p, o.numbers[k]) = WireShape(new, p, n.numbers[k])
      unreserved == (DOMAIN o.numbers \ DOMAIN n.numbers) \ n.reserved
  IN { IF sameShape(k)
       THEN Change(BodyKind(dir), dir, Child(p, "number", k), "field renamed", NoDelta)
       ELSE Change("FIELD_NUMBER_REUSED", dir, Child(p, "number", k), "number reused", NoDelta) :
         k \in reused }
     \cup { Change(BodyKind(dir), dir, Child(p, "number", k),
                   "field removed without reserving its number", NoDelta) : k \in unreserved }
     \cup { Change("RESERVATION_CHANGED", dir, Child(p, "number", k), "no longer reserved", NoDelta) :
              k \in (o.reserved \ n.reserved) \ DOMAIN n.numbers }

\* Explicit presence lost, and moves into and out of a oneof.
MembershipChanges(old, new, dir, p) ==
  LET o == old[p]
      n == new[p]
      was == Names(old, p, "properties")
      now == Names(new, p, "properties")
      Field(kind, x, note) == Change(kind, dir, Child(p, "properties", x), note, NoDelta)
  IN { Field("FIELD_PRESENCE_CHANGED", x, "lost presence") :
         x \in (o.presence \ n.presence) \cap now }
     \cup { Field("ONEOF_MEMBERSHIP_CHANGED", x, "moved into") :
              x \in (DOMAIN n.oneofs \ DOMAIN o.oneofs) \cap was }
     \cup { Field("ONEOF_MEMBERSHIP_CHANGED", x, "moved out of") :
              x \in (DOMAIN o.oneofs \ DOMAIN n.oneofs) \cap now }

ProtobufChanges(old, new, dir, p) ==
  IF DOMAIN old[p].numbers = {} /\ DOMAIN new[p].numbers = {} THEN {}
  ELSE NumberChanges(old, new, dir, p) \cup MembershipChanges(old, new, dir, p)

-----------------------------------------------------------------------------

NodeChanges(old, new, dir, p) ==
  ProtobufChanges(old, new, dir, p)
  \cup ValueChanges(old[p], new[p], dir, p)
  \cup ConstraintChanges(old[p], new[p], dir, p)
  \cup FieldChanges(old, new, dir, p)
  \cup DiscriminatorChanges(old[p], new[p], dir, p)
  \cup KeywordChanges(old[p], new[p], dir, p)
  \cup PresenceChanges(old, new, dir, p)
  \cup TupleChanges(old, new, dir, p)

\* The recursion's calls: it enters a child both sides have, the variants of a
\* composition only when the lists are as long, a tuple position only when its
\* type did not change, and never additionalProperties or not.
Entered(old, new, path, step) ==
  LET kw == step[1]
  IN /\ kw \notin {"additional", "not"}
     /\ kw \in {"oneOf", "anyOf", "allOf", "prefixItems"} =>
          Names(old, path, kw) = Names(new, path, kw)
     /\ kw = "prefixItems" =>
          old[Append(path, step)].type = new[Append(path, step)].type

Compared(old, new) ==
  { p \in DOMAIN old \cap DOMAIN new :
      \A i \in 1 .. Len(p) : Entered(old, new, SubSeq(p, 1, i - 1), p[i]) }

SchemaChanges(old, new, dir) ==
  UNION { NodeChanges(old, new, dir, p) : p \in Compared(old, new) }
=============================================================================
