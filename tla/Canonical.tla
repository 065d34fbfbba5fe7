------------------------------ MODULE Canonical ------------------------------
(* core/canonical.py: the schema that is compared instead of the one that   *)
(* was written.  allOf is collapsed into its parent where the branches      *)
(* agree.  Order and duplicates in enum, required and dependentRequired are *)
(* abstracted: a node holds sets.                                           *)
EXTENDS Schema, SequencesExt

\* The schema with this root node and these children, by step.
Assemble(node, kids) ==
  [ p \in {<<>>} \cup UNION { { <<st>> \o q : q \in DOMAIN kids[st] } : st \in DOMAIN kids } |->
      IF p = <<>> THEN node ELSE kids[p[1]][Tail(p)] ]

Kids(s) == [ st \in { p[1] : p \in DOMAIN s \ {<<>>} } |-> Subtree(s, <<st>>) ]

\* The bounds where a conjunction takes the larger value, and the smaller one.
TightenMax == {"minimum", "exclusive_minimum", "min_length", "min_items", "min_properties"}
TightenMin == {"maximum", "exclusive_maximum", "max_length", "max_items", "max_properties"}

Tighten(ours, theirs, bound) ==
  IF bound \notin TightenMax \cup TightenMin \/ theirs = None THEN ours
  ELSE IF ours = None THEN theirs
  ELSE IF bound \in TightenMax THEN IF ours >= theirs THEN ours ELSE theirs
  ELSE IF ours <= theirs THEN ours ELSE theirs

FirstOf(ours, theirs) == IF ours # None THEN ours ELSE theirs

\* What the root of a branch adds to the root it is merged into.
MergedNode(t, b) ==
  [t EXCEPT !.type = FirstOf(t.type, b.type),
            !.required = t.required \cup b.required,
            !.enum = IF b.enum = None THEN t.enum
                     ELSE IF t.enum = None THEN b.enum ELSE t.enum \cap b.enum,
            !.bounds = [k \in BoundNames |-> Tighten(t.bounds[k], b.bounds[k], k)],
            !.format = FirstOf(t.format, b.format), !.pattern = FirstOf(t.pattern, b.pattern),
            !.const = FirstOf(t.const, b.const), !.default = FirstOf(t.default, b.default),
            !.nullable = t.nullable \/ b.nullable]

\* Keywords of a branch that refuse the merge.
Unmergeable(b) ==
  \/ DOMAIN b[<<>>].dependentRequired # {}
  \/ \E kw \in {"dependentSchemas", "patternProperties", "prefixItems", "if", "contains",
                "propertyNames"} : Names(b, <<>>, kw) # {}

\* A branch merged into a schema; None when they disagree.
RECURSIVE MergeInto(_, _)
MergeInto(t, b) ==
  LET types == {t[<<>>].type, b[<<>>].type} \ {None}
      mine == Kids(t)
      taken == [ st \in { x \in DOMAIN Kids(b) : \/ x[1] = "properties"
                                                 \/ x[1] = "items" /\ x \notin DOMAIN mine } |->
                   IF st \in DOMAIN mine THEN MergeInto(mine[st], Kids(b)[st]) ELSE Kids(b)[st] ]
  IN IF Cardinality(types) > 1 \/ Unmergeable(b) \/ \E st \in DOMAIN taken : taken[st] = None
     THEN None
     ELSE Assemble(MergedNode(t[<<>>], b[<<>>]),
                   [ st \in DOMAIN mine \cup DOMAIN taken |->
                       IF st \in DOMAIN taken THEN taken[st] ELSE mine[st] ])

\* Branches merged one after the other, or left as they are when one disagrees.
CollapseAllOf(s, branches) ==
  LET kids == Kids(s)
      rest == [ st \in { x \in DOMAIN kids : x[1] # "allOf" } |-> kids[st] ]
      merge(t, b) == IF t = None THEN None ELSE MergeInto(t, b)
      merged == FoldLeft(merge, Assemble(s[<<>>], rest), branches)
  IN IF merged # None THEN merged
     ELSE Assemble(s[<<>>], [ st \in DOMAIN kids |-> IF st[1] = "allOf" THEN branches[st[2]]
                                                     ELSE kids[st] ])

\* canonicalize_schema: the children first, then the composition; `not` is left alone.
RECURSIVE Canonicalize(_)
Canonicalize(s) ==
  LET kids == Kids(s)
      done == Assemble(s[<<>>], [ st \in DOMAIN kids |-> IF st[1] \in {"allOf", "not"} THEN kids[st]
                                                         ELSE Canonicalize(kids[st]) ])
      branches == [ i \in 1 .. Cardinality(Names(s, <<>>, "allOf")) |->
                      Canonicalize(kids[<<"allOf", i>>]) ]
  IN IF branches = <<>> THEN done ELSE CollapseAllOf(done, branches)

\* canonicalize_service: bodies, responses and parameters; not the items of a stream.
CanonicalContent(content) == [ m \in DOMAIN content |-> Canonicalize(content[m]) ]

CanonicalOperation(op) ==
  [op EXCEPT
     !.body = IF op.body = None THEN None
              ELSE [op.body EXCEPT !.content = CanonicalContent(op.body.content)],
     !.responses = [ st \in DOMAIN op.responses |->
                       [op.responses[st] EXCEPT !.content = CanonicalContent(op.responses[st].content)] ],
     !.params = [ x \in DOMAIN op.params |->
                    IF op.params[x].schema = None THEN op.params[x]
                    ELSE [op.params[x] EXCEPT !.schema = Canonicalize(op.params[x].schema)] ]]

CanonicalContract(c) == [c EXCEPT !.ops = [ k \in DOMAIN c.ops |-> CanonicalOperation(c.ops[k]) ]]
=============================================================================
