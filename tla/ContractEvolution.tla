-------------------------- MODULE ContractEvolution --------------------------
(***************************************************************************)
(* Authors edit a contract; `diff` and `breaking` (diff/engine.py,         *)
(* core/canonical.py, rules/breaking.py) say what the edits mean for those *)
(* who call it.  The reference for what they mean is the validator         *)
(* (core/validation.py): a payload that was accepted and no longer is, an  *)
(* answer that may come and could not.                                     *)
(*                                                                         *)
(* A contract has one component schema, which the body of an operation and *)
(* its answer both refer to, so every edit of the schema is judged in both *)
(* directions.  The edits are the environment.                             *)
(***************************************************************************)
EXTENDS ContractDiff, BreakingRules, Canonical, Validation

CONSTANTS Starts,     \* what a history starts from: a component and a contract around it
          Payloads,   \* the values sent and answered
          MaxEdits    \* bound: edits between the two versions

ASSUME EvolutionAssumption == MaxEdits \in Nat

VARIABLES schema,    \* [old, new]: the two versions of the component
          contract,  \* [old, new]: the two versions of what is around it
          changes,   \* what `diff` says of them
          edits

vars == <<schema, contract, changes, edits>>

Sides == {"old", "new"}

\* The component standing for a media type's schema.
Placeholder == "component"

Resolve(c, s) ==
  LET content(media) == [ m \in media |-> s ]
  IN [c EXCEPT !.ops = [ k \in DOMAIN c.ops |->
        [c.ops[k] EXCEPT
           !.body = IF c.ops[k].body = None THEN None
                    ELSE [c.ops[k].body EXCEPT !.content = content(c.ops[k].body.content)],
           !.responses = [ st \in DOMAIN c.ops[k].responses |->
              [c.ops[k].responses[st] EXCEPT
                 !.content = content(c.ops[k].responses[st].content)] ] ] ] ]

NoOverrides == [r \in {} |-> "ERROR"]

\* diff_services: both documents are canonicalized first.
DiffServices(old, new) == ContractChanges(CanonicalContract(old), CanonicalContract(new))

\* What `breaking` says of the changes.
Findings == Evaluate(changes, NoOverrides)

-----------------------------------------------------------------------------
(* Edits of the component. *)

Leaf(type) == [ p \in {<<>>} |-> [AnyNode EXCEPT !.type = type] ]

Graft(s, path, step, sub) ==
  [ p \in DOMAIN s \cup { (path \o <<step>>) \o q : q \in DOMAIN sub } |->
      IF p \in DOMAIN s THEN s[p] ELSE sub[SubSeq(p, Len(path) + 2, Len(p))] ]

Prune(s, path) ==
  [ p \in { q \in DOMAIN s : ~(Len(q) >= Len(path) /\ SubSeq(q, 1, Len(path)) = path) } |-> s[p] ]

\* A keyword of one node gets another value.
Scalars(n) ==
  {[n EXCEPT !.nullable = ~n.nullable], [n EXCEPT !.format = "f"]}
  \cup { [n EXCEPT !.type = t] : t \in {"integer", "number", "string"} }
  \cup (CASE n.type = "integer" ->
               { [n EXCEPT !.bounds[b] = x] : b \in {"minimum", "maximum", "exclusive_maximum"},
                                              x \in {None, 1, 2} }
               \cup { [n EXCEPT !.bounds["multiple_of"] = x] : x \in {None, 2, 3} }
               \cup { [n EXCEPT !.enum = e] : e \in {None, {[t |-> "integer", n |-> 1]},
                                 {[t |-> "integer", n |-> 1], [t |-> "integer", n |-> 2]}} }
               \cup { [n EXCEPT !.const = x] : x \in {None, [t |-> "integer", n |-> 2]} }
          [] n.type = "string" ->
               { [n EXCEPT !.bounds[b] = x] : b \in {"min_length", "max_length"}, x \in {None, 1} }
               \cup { [n EXCEPT !.pattern = x] : x \in DOMAIN Matches \cup {None} }
          [] n.type = "array" ->
               { [n EXCEPT !.bounds[b] = x] : b \in {"min_items", "max_items"}, x \in {None, 1} }
               \cup {[n EXCEPT !.unique = ~n.unique]}
               \cup { [n EXCEPT !.maxContains = x] : x \in {None, 1} }
               \cup { [n EXCEPT !.minContains = x] : x \in {None, 2} }
          [] n.type = "object" ->
               { [n EXCEPT !.required = r] : r \in SUBSET {"a", "b"} }
               \cup { [n EXCEPT !.additional = x] : x \in {None, FALSE} }
               \cup { [n EXCEPT !.dependentRequired = x] :
                        x \in {NoNames, [a |-> {"b"}], [a |-> {"c"}], [a |-> {"b", "c"}]} }
          [] OTHER -> {})

\* Children a node may gain.
Growths(n) ==
  (IF n.type = "array"
   THEN { <<<<"items", "">>, Leaf("integer")>>, <<<<"contains", "">>, Leaf("integer")>>,
          <<<<"prefixItems", 1>>, Leaf("integer")>>, <<<<"prefixItems", 1>>, Leaf("string")>> }
   ELSE {})
  \cup (IF n.type = "object"
        THEN { <<<<"properties", x>>, Leaf("string")>> : x \in {"b", "c"} }
             \cup { <<<<"patternProperties", x>>, Leaf("integer")>> : x \in DOMAIN Matches }
             \cup { <<<<"propertyNames", "">>, [Leaf("string") EXCEPT ![<<>>].pattern = x]>> :
                      x \in DOMAIN Matches }
             \cup { <<<<kw, "">>, [Leaf("object") EXCEPT ![<<>>].required = {x}]>> :
                      kw \in {"if", "then", "else"}, x \in {"a", "b"} }
             \cup { <<<<"dependentSchemas", "a">>, [Leaf("object") EXCEPT ![<<>>].required = {"b"}]>> }
        ELSE {})

IsMessage(n) == DOMAIN n.numbers # {}

\* A protobuf message's field leaves, with or without its number reserved, gets
\* another name or another number, loses presence or joins a oneof.
Renumberings(s) ==
  LET n == s[<<>>]
      With(f) == [s EXCEPT ![<<>>].numbers = f]
      Gone(k, r) == [Prune(s, <<<<"properties", n.numbers[k]>>>>) EXCEPT
                       ![<<>>].numbers = [ j \in DOMAIN n.numbers \ {k} |-> n.numbers[j] ],
                       ![<<>>].reserved = r,
                       ![<<>>].presence = n.presence \ {n.numbers[k]}]
      Renamed(k) == Graft([Gone(k, {}) EXCEPT ![<<>>].numbers = [n.numbers EXCEPT ![k] = "c"]],
                          <<>>, <<"properties", "c">>, Under(s, "properties", n.numbers[k]))
      Swap(k, j) == [n.numbers EXCEPT ![k] = n.numbers[j], ![j] = n.numbers[k]]
  IN { Gone(k, r) : k \in DOMAIN n.numbers, r \in {{}, DOMAIN n.numbers} }
     \cup { Renamed(k) : k \in { x \in DOMAIN n.numbers : n.numbers[x] # "c" } }
     \cup { With(Swap(k, j)) : k, j \in DOMAIN n.numbers }
     \cup { With([ j \in {3} |-> n.numbers[k] ] @@ [ j \in DOMAIN n.numbers \ {k} |-> n.numbers[j] ]) :
               k \in DOMAIN n.numbers }
     \cup {[s EXCEPT ![<<>>].presence = {}], [s EXCEPT ![<<>>].reserved = {}],
           [s EXCEPT ![<<>>].oneofs = [ x \in Names(s, <<>>, "properties") |-> "one" ]]}

EditedSchemas(s) ==
  (UNION { { [s EXCEPT ![p] = n] : n \in Scalars(s[p]) } :
            p \in { q \in DOMAIN s : ~IsMessage(s[q]) } })
  \cup (IF IsMessage(s[<<>>]) THEN Renumberings(s)
        ELSE (UNION { { Graft(s, p, g[1], g[2]) :
                         g \in { x \in Growths(s[p]) : Append(p, x[1]) \notin DOMAIN s } } :
                     p \in DOMAIN s })
             \cup { Prune(s, p) : p \in { q \in DOMAIN s \ {<<>>} :
                                           q[Len(q)][1] \notin {"allOf", "prefixItems"} } })

EditSchema(side) ==
  /\ \E s \in EditedSchemas(schema[side]) : schema' = [schema EXCEPT ![side] = s]
  /\ contract["old"] = contract["new"]
  /\ UNCHANGED contract

-----------------------------------------------------------------------------
(* Edits of what is around it. *)

Toggle(S, x) == IF x \in S THEN S \ {x} ELSE S \cup {x}

OperationEdits(op) ==
  { [op EXCEPT !.params = [ y \in DOMAIN op.params \ {x} |-> op.params[y] ]] : x \in DOMAIN op.params }
  \cup { [op EXCEPT !.params = (<<"q", "query">> :> [required |-> r, schema |-> t]) @@ op.params] :
           r \in BOOLEAN, t \in {None, Leaf("integer"), Leaf("string")} }
  \cup { [op EXCEPT !.body = b] :
           b \in {None} \cup [required : BOOLEAN, content : {{"json"}, {"json", "lines"}},
                              streams : {NoNames}] }
  \cup { [op EXCEPT !.security = x] : x \in {None, {}, {"key"}} }
  \cup { [op EXCEPT !.responses = [ st \in DOMAIN op.responses \ {x} |-> op.responses[st] ]] :
           x \in DOMAIN op.responses }
  \cup { [op EXCEPT !.responses[st].content = Toggle(op.responses[st].content, "lines")] :
           st \in DOMAIN op.responses }
  \cup { [op EXCEPT !.responses[st].headers = Toggle(op.responses[st].headers, "etag")] :
           st \in DOMAIN op.responses }
  \cup { [op EXCEPT !.responses[st].streams =
            ("lines" :> [item |-> i, encoding |-> NoNames, prefix |-> 0])] :
           st \in DOMAIN op.responses, i \in {None, Leaf("integer"), Leaf("string")} }
  \cup {[op EXCEPT !.deprecated = ~op.deprecated], [op EXCEPT !.doc = "e"]}
  \cup (CASE op.kind = "mcp_tool" ->
               { [op EXCEPT !.hints[h] = x] : h \in DOMAIN op.hints,
                                              x \in {"true", "false", "undeclared"} }
               \cup {[op EXCEPT !.declaresOutput = ~op.declaresOutput]}
          [] op.kind = "soap_operation" ->
               {[op EXCEPT !.soap.action = "b"], [op EXCEPT !.soap.version = "1.2"]}
          [] op.kind = "grpc_rpc" -> { [op EXCEPT !.streaming = <<x, TRUE>>] : x \in BOOLEAN }
          [] OTHER -> {})

EditOperation(side) ==
  LET c == contract[side]
  IN /\ \/ \E k \in DOMAIN c.ops : \E op \in OperationEdits(c.ops[k]) :
             contract' = [contract EXCEPT ![side].ops[k] = op]
        \/ \E k \in DOMAIN c.ops :
             contract' = [contract EXCEPT ![side].ops =
                            [ j \in DOMAIN c.ops \ {k} |-> c.ops[j] ]]
        \/ \E k \in DOMAIN c.ops : contract' = [contract EXCEPT ![side].ops = "renamed" :> c.ops[k]]
        \/ \E x \in SUBSET {"key"} : contract' = [contract EXCEPT ![side].security = x]
        \/ c.protocol = "mcp" /\ contract' = [contract EXCEPT ![side].truncated = ~c.truncated]
     /\ schema["old"] = schema["new"]
     /\ UNCHANGED schema

-----------------------------------------------------------------------------

Init == /\ \E x \in Starts : /\ schema = [side \in Sides |-> x[1]]
                              /\ contract = [side \in Sides |-> x[2]]
        /\ changes = {} /\ edits = 0

\* A history edits the component or what is around it, not both.
Next == /\ edits < MaxEdits
        /\ edits' = edits + 1
        /\ \E side \in Sides : EditSchema(side) \/ EditOperation(side)
        /\ changes' = DiffServices(Resolve(contract'["old"], schema'["old"]),
                                   Resolve(contract'["new"], schema'["new"]))

Spec == Init /\ [][Next]_vars

-----------------------------------------------------------------------------
(* Properties. *)

AllOf(s) == Names(s, <<>>, "allOf")

\* What a composition says: the schema and every branch of it.
Meaning(s, v) == Valid(s, v) /\ \A i \in AllOf(s) : Valid(Under(s, "allOf", i), v)

\* What a branch says and the merge leaves behind, or decides by who comes first.
LeftBehind(s) ==
  LET below == { p \in DOMAIN s : p # <<>> /\ p[1][1] = "allOf" }
      kept(p) == SubSeq(p, 2, Len(p))
      two(attr(_)) == \E p, q \in below \cup {<<>>} :
                        /\ p # q /\ attr(s[p]) # attr(s[q]) /\ None \notin {attr(s[p]), attr(s[q])}
                        /\ (IF p = <<>> THEN p ELSE kept(p)) = (IF q = <<>> THEN q ELSE kept(q))
  IN \/ \E p \in below : \/ s[p].bounds["multiple_of"] # None \/ s[p].unique
                          \/ s[p].additional # None
                          \/ s[p].minContains # None \/ s[p].maxContains # None
     \/ AllOf(s) # {} /\ \E p \in DOMAIN s : s[p].nullable
     \/ two(LAMBDA n : n.pattern) \/ two(LAMBDA n : n.const) \/ two(LAMBDA n : n.format)
     \/ \E p, q \in below : /\ p # q /\ kept(p) = kept(q) /\ Len(p) > 1
                             /\ p[Len(p)][1] = "items"

\* The component is sent to the service, or read by its clients: what the
\* application sends as an event is read by them, like an answer.
IsSent(op) == op.body # None /\ ~(op.kind = "event" /\ op.sends)
IsRead(op) == DOMAIN op.responses # {} \/ (op.kind = "event" /\ op.sends)
Some(Holds(_)) == \E k \in DOMAIN contract["new"].ops : Holds(contract["new"].ops[k])

\* Somebody has to look at it.
Reported(dir) == \E f \in Findings : f.change.dir = dir /\ f.severity # "INFO"

\* The two versions as they are compared.
Old == Canonicalize(schema["old"])
New == Canonicalize(schema["new"])
Shared == DOMAIN Old \cap DOMAIN New

\* What nobody compares, or only in the wrong direction: additionalProperties;
\* items or a composition that one side has and the other has not; what stands
\* where a looser schema forbids more (`if`, `contains` under a maximum).
Uncompared ==
  LET o == Old
      n == New
      appeared == (DOMAIN o \cup DOMAIN n) \ Shared
      inverted(p, i) == \/ p[i][1] = "if"
                        \/ p[i][1] = "contains" /\ \E s \in {o, n} :
                             /\ SubSeq(p, 1, i - 1) \in DOMAIN s
                             /\ s[SubSeq(p, 1, i - 1)].maxContains # None
  IN \/ LeftBehind(schema["old"]) \/ LeftBehind(schema["new"])
     \/ \E p \in Shared : o[p].additional # n[p].additional
     \/ \E p \in appeared : p[Len(p)][1] \in {"additional", "items", "anyOf", "oneOf", "allOf"}
     \/ \E p \in DOMAIN o \cup DOMAIN n :
          /\ \E i \in 1 .. Len(p) : inverted(p, i)
          /\ p \in Shared => o[p] # n[p]

\* A required name that is no field (a property of neither side).
RequiredElsewhere(a, b) ==
  \E p \in Shared : ~((a[p].required \ b[p].required) \subseteq
                        (Names(a, p, "properties") \cup Names(b, p, "properties")))

\* A payload that was accepted and is refused now (the module header's first
\* rule) is never news at INFO, but for what nobody compares and four cases
\* the rules misjudge: a first enum (EnumRules), a lower multipleOf
\* (IsTightening), a new optional field that used to take any value, and a
\* required name that is no field.
RequestNarrowingIsReported ==
  LET o == Old
      n == New
      misjudged == \/ \E p \in Shared :
                        \/ o[p].enum = None /\ n[p].enum # None
                        \/ /\ None \notin {o[p].bounds["multiple_of"], n[p].bounds["multiple_of"]}
                           /\ o[p].bounds["multiple_of"] > n[p].bounds["multiple_of"]
                        \/ Names(n, p, "properties") \ Names(o, p, "properties") # {}
                   \/ RequiredElsewhere(n, o)
  IN contract["old"] = contract["new"] /\ Some(IsSent) /\ ~Uncompared /\ ~misjudged
     /\ (\E v \in Payloads : Meaning(schema["old"], v) /\ ~Meaning(schema["new"], v))
     => Reported("request")

\* An answer that could not come and may come now is reported, but for what
\* nobody compares, an enum that gained values (INFO by the catalogue), a new
\* field, and a name no longer required that the old side did not declare.
ResponseWideningIsReported ==
  LET o == Old
      n == New
      misjudged == \E p \in Shared :
                     \/ None \notin {o[p].enum, n[p].enum} /\ o[p].enum \subseteq n[p].enum
                                                            /\ o[p].enum # n[p].enum
                     \/ Names(n, p, "properties") \ Names(o, p, "properties") # {}
                     \/ ~((o[p].required \ n[p].required) \subseteq Names(o, p, "properties"))
  IN contract["old"] = contract["new"] /\ Some(IsRead) /\ ~Uncompared /\ ~misjudged
     /\ (\E v \in Payloads : Meaning(schema["new"], v) /\ ~Meaning(schema["old"], v))
     => Reported("response")

\* A change breaks at most one rule, and one of the catalogue, where the engine
\* looks its severity up; and one edit of a field is one finding about its presence
\* (engine.py: "Without the guard every such edit produced two findings").
OneEditOneFinding ==
  /\ \A c \in changes : RulesOf(c) \subseteq Rules /\ Cardinality(RulesOf(c)) <= 1
  /\ \A f, g \in Findings :
       /\ IsBodyField(f.change) /\ IsBodyField(g.change)
       /\ f.change.op = g.change.op /\ f.change.at = g.change.at
       => f = g

\* A number of a message that means another encoding now is reported to both
\* sides, as an error when another field has taken it.
MisdecodedFieldIsReported ==
  \A p \in Shared :
    LET o == Old
        n == New
        taken == { k \in DOMAIN o[p].numbers \cap DOMAIN n[p].numbers :
                     WireShape(o, p, o[p].numbers[k]) # WireShape(n, p, n[p].numbers[k]) }
    IN contract["old"] = contract["new"] /\ taken # {} =>
         /\ Reported("request") /\ Reported("response")
         /\ \/ \A k \in taken : o[p].numbers[k] = n[p].numbers[k]
            \/ \E f \in Findings : f.change.dir = "response" /\ f.severity = "ERROR"

\* What a caller or a reader of a payload loses between the versions is reported
\* to it: a payload that is refused, an answer it never saw, a number of a message
\* that stands for another field.
BrokenPayloadIsReported ==
  RequestNarrowingIsReported /\ ResponseWideningIsReported /\ MisdecodedFieldIsReported

\* What two versions may differ in without a change: what is not compared,
\* names required of no field, presence gained, numbers reserved, fields that
\* got another number, and the group of a oneof.
SilentDifference ==
  \/ RequiredElsewhere(Old, New) \/ RequiredElsewhere(New, Old)
  \/ \E p \in Shared : Old[p].additional # New[p].additional
  \/ \E p \in (DOMAIN Old \cup DOMAIN New) \ Shared :
        p[Len(p)][1] \in {"additional", "items", "anyOf", "oneOf", "allOf"}
  \/ \E p \in Shared : \/ New[p].presence \ Old[p].presence # {}
                       \/ New[p].reserved \ Old[p].reserved # {}
                       \/ DOMAIN New[p].numbers # DOMAIN Old[p].numbers

\* No change means the same contract, but for what may differ silently: no part
\* of a contract is forgotten by the differ (engine.py has a comment for each
\* part that once was).
SilenceMeansEqual ==
  changes = {} /\ edits > 0 /\ ~SilentDifference =>
    /\ Old = New
    /\ \A k \in DOMAIN contract["old"].ops : SchemesOf(contract["old"], contract["old"].ops[k])
                                             = SchemesOf(contract["new"], contract["new"].ops[k])
    /\ LET open(c) == [ k \in DOMAIN c.ops |-> [c.ops[k] EXCEPT !.security = None] ]
       IN open(contract["old"]) = open(contract["new"])

-----------------------------------------------------------------------------
(* Calls. *)

\* What a client may do: the parameters it sends, the media type of the body
\* (or no body) and its credentials.
Accepts(c, k, call) ==
  LET op == c.ops[k]
      schemes == SchemesOf(c, op)
  IN /\ k \in DOMAIN c.ops
     /\ \A x \in DOMAIN op.params : op.params[x].required => x \in call.params
     /\ call.params \subseteq DOMAIN op.params
     /\ IF call.media = "none" THEN op.body = None \/ ~op.body.required
        ELSE op.body # None /\ call.media \in op.body.content
     /\ schemes = {} \/ schemes \cap call.credentials # {}

Calls == [params : SUBSET {<<"p", "query">>, <<"q", "query">>}, media : {"none", "json", "lines"},
          credentials : SUBSET {"key"}]

\* A call that was accepted and is refused now is an error of its operation,
\* except for a body that is asked for where there was none: no message of the
\* differ says that it is required.
BrokenCallsAreErrors ==
  \A k \in DOMAIN contract["old"].ops :
    LET o == contract["old"]
        n == contract["new"]
        bodyCame == o.ops[k].body = None /\ k \in DOMAIN n.ops /\ n.ops[k].body # None
        broken == { call \in Calls : Accepts(o, k, call) /\ ~Accepts(n, k, call) }
    IN broken # {} /\ ~bodyCame =>
         \E f \in Findings : f.change.op = k /\ f.severity = "ERROR"

\* What a consumer loses between two versions, of a payload or as a caller, is
\* reported to it (docs/rule-catalog.md lists a rule for each).
LossIsReported == BrokenPayloadIsReported /\ BrokenCallsAreErrors

-----------------------------------------------------------------------------
(* Compositions. *)

\* A composition that is collapsed accepts what it accepted: the tightest bound
\* of the branches, the common enum, every required name (core/canonical.py,
\* "It collapses only what it can collapse without deciding anything").
CollapseKeepsMeaning(s) ==
  LET c == Canonicalize(s)
  IN AllOf(s) # {} /\ AllOf(c) = {} /\ ~LeftBehind(s) =>
       \A v \in Payloads : Valid(c, v) <=> Meaning(s, v)

\* The order of the branches changes nothing (core/canonical.py's header).
ReorderingIsSilent(s) ==
  LET last == Cardinality(AllOf(s))
      mirror(st) == IF st[1] = "allOf" THEN <<"allOf", last + 1 - st[2]>> ELSE st
      swapped == Assemble(s[<<>>], [ st \in DOMAIN Kids(s) |-> Kids(s)[mirror(st)] ])
  IN ~LeftBehind(s) /\ AllOf(Canonicalize(s)) = {} =>
       SchemaChanges(Canonicalize(s), Canonicalize(swapped), "request") = {}
=============================================================================
