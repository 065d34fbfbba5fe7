------------------------- MODULE MCContractEvolution -------------------------
(* The instance TLC runs: the schemas and contracts a history starts from,   *)
(* and the payloads that tell two schemas apart.                             *)
EXTENDS ContractEvolution

Num(n) == [t |-> "integer", n |-> n]
Str(s) == [t |-> "string", s |-> s]
Arr(e) == [t |-> "array", e |-> e]
Obj(f) == [t |-> "object", f |-> f]

MCMatches == [x \in {"^[ab]", "^a"} |-> IF x = "^a" THEN {"a", "aa"} ELSE {"a", "aa", "b"}]

Fields == UNION { [ns -> {Num(1), Str("a")}] : ns \in SUBSET {"a", "b", "c"} }

MCPayloads ==
  {[t |-> "null"]} \cup { Num(n) : n \in 0 .. 3 } \cup { Str(x) : x \in {"", "a", "b", "aa"} }
  \cup { Arr(e) : e \in {<<>>} \cup { <<x>> : x \in {Num(1), Str("a")} }
                                \cup { <<x, y>> : x, y \in {Num(1), Num(2), Str("a")} } }
  \cup { Obj(f) : f \in Fields }

Node(type) == [AnyNode EXCEPT !.type = type]

Tree(root, kids) == Assemble(root, kids)

Record == Tree([Node("object") EXCEPT !.required = {"a"}],
               (<<"properties", "a">> :> Leaf("integer")) @@ (<<"properties", "b">> :> Leaf("string")))

Composition ==
  Tree(AnyNode, (<<"allOf", 1>> :> Record)
                @@ (<<"allOf", 2>> :> Tree(Node("object"), <<"properties", "a">> :> Leaf("integer"))))

Numbers == Tree(AnyNode, (<<"allOf", 1>> :> [Leaf("integer") EXCEPT ![<<>>].bounds["minimum"] = 1])
                         @@ (<<"allOf", 2>> :> [Leaf("integer") EXCEPT ![<<>>].enum = {Num(1), Num(2)}]))

Choice == Tree(AnyNode, (<<"anyOf", 1>> :> Leaf("integer")) @@ (<<"anyOf", 2>> :> Leaf("string")))

Tuple == Tree(Node("array"), (<<"prefixItems", 1>> :> Leaf("integer")) @@ (<<"items", "">> :> Leaf("integer")))

Message == [Record EXCEPT ![<<>>].required = {}, ![<<>>].numbers = <<"a", "b">>,
                          ![<<>>].presence = {"a"}]

Body(required) == [required |-> required, content |-> {"json"}, streams |-> NoNames]
Answer == [headers |-> {}, content |-> {"json"}, streams |-> NoNames]

Operation ==
  [kind |-> "http", sends |-> FALSE, streaming |-> <<FALSE, FALSE>>,
   params |-> (<<"p", "query">> :> [required |-> FALSE, schema |-> Leaf("integer")]),
   body |-> Body(FALSE), responses |-> ("200" :> Answer), security |-> None,
   deprecated |-> FALSE, doc |-> "d", examples |-> {}, declaresOutput |-> FALSE,
   soap |-> [action |-> "a", style |-> "document", version |-> "1.1"],
   hints |-> [readOnlyHint |-> "undeclared"]]

Contract(protocol, op) ==
  [protocol |-> protocol, version |-> "1", servers |-> <<"s">>, security |-> {"key"},
   truncated |-> FALSE, ops |-> ("op" :> op)]

Tool == [Operation EXCEPT !.kind = "mcp_tool", !.hints = [readOnlyHint |-> "true"]]
Event == [Operation EXCEPT !.kind = "event", !.sends = TRUE, !.responses = [st \in {} |-> Answer]]
Rpc == [Operation EXCEPT !.kind = "grpc_rpc"]
Soap == [Operation EXCEPT !.kind = "soap_operation"]

MCStarts ==
  { <<s, Contract("openapi", Operation)>> :
      s \in {Leaf("integer"), Leaf("string"), Record, Composition, Numbers, Choice, Tuple} }
  \cup {<<Message, Contract("grpc", Rpc)>>, <<Leaf("integer"), Contract("asyncapi", Event)>>,
        <<Leaf("string"), Contract("mcp", Tool)>>, <<Leaf("string"), Contract("wsdl", Soap)>>}

\* Every composition two edits away from these.
Compositions ==
  LET one == UNION { EditedSchemas(s) : s \in {Composition, Numbers} }
  IN {Composition, Numbers} \cup one \cup UNION { EditedSchemas(s) : s \in one }

ASSUME CollapseIsSound ==
  \A s \in Compositions : CollapseKeepsMeaning(s) /\ ReorderingIsSilent(s)
=============================================================================
