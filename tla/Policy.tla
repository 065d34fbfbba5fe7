-------------------------------- MODULE Policy --------------------------------
(* What `validate` says of one contract: rules/dsl.py (a team's policy file),  *)
(* rules/policy.py (rule packs), rules/lint.py and the authentication part of  *)
(* security/checks.py.  A contract is ContractDiff's, its operations with an   *)
(* id, tags and the texts a policy may ask about.                              *)
EXTENDS Schema

CONSTANTS Validates(_, _),   \* core/validation.py: does the schema take the value? (Valid of Validation)
          Matching           \* regular expression -> the texts it matches; no expression is "None"

Report(rule, severity, op) == [rule |-> rule, severity |-> severity, op |-> op, about |-> None]

-----------------------------------------------------------------------------
(* The vocabulary of a policy file. *)

OperationFields == {"operation_id", "method", "path", "summary", "description", "tags", "security",
                    "responses", "parameters", "request_body"}
ServiceFields == {"title", "version", "servers", "security_schemes", "global_security"}
Predicates == {"present", "absent", "matches", "not_matches", "includes", "excludes", "one_of"}

\* One text, or none when it is empty.
Text(x) == IF x = None THEN {} ELSE {x}

\* The values a field has; an operation that declares an empty security has the value "".
OperationValues(op, field) ==
  CASE field = "operation_id" -> Text(op.id)
    [] field = "tags" -> { op.tags[i] : i \in DOMAIN op.tags }
    [] field = "security" -> IF op.security = None THEN {}
                             ELSE IF op.security = {} THEN {""} ELSE op.security
    [] field = "responses" -> DOMAIN op.responses
    [] field = "parameters" -> { x[1] : x \in DOMAIN op.params }
    [] field = "request_body" -> IF op.body = None THEN {} ELSE {"declared"}
    [] OTHER -> Text(Get(op.texts, field, None))

ServiceValues(contract, field) ==
  CASE field = "servers" -> { contract.servers[i] : i \in DOMAIN contract.servers }
    [] field = "security_schemes" -> DOMAIN contract.schemes
    [] field = "global_security" -> contract.security
    [] OTHER -> Text(Get(contract.texts, field, None))

\* A field that is not there passes "absent" and nothing else.
Holds(values, predicate, expected) ==
  IF values = {} THEN predicate = "absent"
  ELSE CASE predicate = "present" -> TRUE
         [] predicate = "matches" -> values \subseteq Matching[expected]
         [] predicate = "not_matches" -> values \cap Matching[expected] = {}
         [] predicate = "includes" -> expected \in values
         [] predicate = "excludes" -> expected \notin values
         [] predicate = "one_of" -> values \subseteq expected
         [] OTHER -> FALSE

\* What a rule looks at: the contract (None) or one of its operations.
ValuesOf(contract, k, field) ==
  IF k = None THEN ServiceValues(contract, field) ELSE OperationValues(contract.ops[k], field)

\* `where` maps a field to a test [predicate, expected].
Fails(rule, contract, k) ==
  \E field \in DOMAIN rule.where :
    ~Holds(ValuesOf(contract, k, field), rule.where[field].predicate, rule.where[field].expected)

\* DslRule.check
Objections(rule, contract) ==
  { Report(rule.id, rule.severity, k) :
      k \in { j \in (IF rule.select = "service" THEN {None} ELSE DOMAIN contract.ops \ rule.exempt) :
                Fails(rule, contract, j) } }

\* What the loader refuses.  `predicate` is None for a test that is neither a
\* name nor one pair; an expected None is the shorthand's.
Unusable(rule, protocols) ==
  \/ None \in {rule.id, rule.rationale, rule.remediation}
  \/ rule.severity \notin {"INFO", "WARN", "ERROR"}
  \/ rule.select \notin {"operation", "service"}
  \/ ~(rule.protocols \subseteq protocols)
  \/ DOMAIN rule.where = {}
  \/ \E field \in DOMAIN rule.where :
       LET test == rule.where[field]
       IN \/ field \notin (IF rule.select = "operation" THEN OperationFields ELSE ServiceFields)
          \/ test.predicate \notin Predicates
          \/ test.predicate \in {"matches", "not_matches"} /\ test.expected \notin DOMAIN Matching

\* load: a file with one rule it cannot use is not used at all.
LoadsPolicy(file, protocols) ==
  /\ file.pack # None /\ file.version # None /\ file.rules # <<>>
  /\ \A i \in DOMAIN file.rules : ~Unusable(file.rules[i], protocols)
  /\ \A i, j \in DOMAIN file.rules : file.rules[i].id = file.rules[j].id => i = j

-----------------------------------------------------------------------------
(* Rule packs. *)

UnusedSchemes(contract) ==
  { Report("GOV-UNUSED-SECURITY-SCHEME", "INFO", None) :
      x \in DOMAIN contract.schemes \ (contract.security \cup UNION
              { IF contract.ops[k].security = None THEN {} ELSE contract.ops[k].security :
                  k \in DOMAIN contract.ops }) }

MissingIds(contract) ==
  { Report("GOV-MISSING-OPERATION-ID", "INFO", k) :
      k \in { j \in DOMAIN contract.ops : contract.ops[j].kind = "http" /\ contract.ops[j].id = None } }

\* PolicyEngine.evaluate: a rule is [id, protocols, crashes, says].
RunPacks(packs, protocol) ==
  UNION { UNION { IF protocol \notin r.protocols THEN {}
                  ELSE IF r.crashes THEN {Report("POLICY-RULE-CRASHED", "WARN", None)}
                  ELSE r.says : r \in p.rules } : p \in packs }

DefaultPack(contract, protocols) ==
  [name |-> "apiverity-governance",
   rules |-> {[id |-> "GOV-UNUSED-SECURITY-SCHEME", protocols |-> protocols,
               crashes |-> FALSE, says |-> UnusedSchemes(contract)],
              [id |-> "GOV-MISSING-OPERATION-ID", protocols |-> {"openapi"},
               crashes |-> FALSE, says |-> MissingIds(contract)]}]

PolicyPack(file, contract, protocols) ==
  [name |-> file.pack,
   rules |-> { [id |-> file.rules[i].id, protocols |-> file.rules[i].protocols,
                crashes |-> FALSE, says |-> Objections(file.rules[i], contract)] : i \in DOMAIN file.rules }]

-----------------------------------------------------------------------------
(* Lint and authentication. *)

TwoHundreds == {"200", "201", "204"}

\* Every schema of an operation: parameters, body, answers.
SchemasOf(op) ==
  { op.params[x].schema : x \in { y \in DOMAIN op.params : op.params[y].schema # None } }
  \cup (IF op.body = None THEN {} ELSE { op.body.content[m] : m \in DOMAIN op.body.content })
  \cup UNION { { op.responses[st].content[m] : m \in DOMAIN op.responses[st].content } :
                 st \in DOMAIN op.responses }

\* The nodes the schema rules walk: below choices, properties and items only.
Linted(s) ==
  { p \in DOMAIN s : \A i \in DOMAIN p : p[i][1] \in {"oneOf", "anyOf", "properties", "items"} }

Contradictory(s, p) == s[p].required \ Names(s, p, "properties") # {}

Ambiguous(s, p) ==
  \E kw \in {"oneOf", "anyOf"} :
    /\ Cardinality(Names(s, p, kw)) > 1
    /\ \A x \in Names(s, p, kw) : s[Child(p, kw, x)].title = None
    /\ Names(s, p, "properties") = {}

LintFindings(contract) ==
  LET LintOf(k) ==
        LET op == contract.ops[k]
            schemas == SchemasOf(op)
            bodies == IF op.body = None THEN {} ELSE { op.body.content[m] : m \in DOMAIN op.body.content }
            Says(rule, severity, wrong) == IF wrong THEN {Report(rule, severity, k)} ELSE {}
        IN Says("LINT-EMPTY-RESPONSE", "INFO",
                \E st \in DOMAIN op.responses \cap TwoHundreds :
                  DOMAIN op.responses[st].content = {} /\ op.responses[st].headers = {})
           \cup Says("LINT-CONTRADICTORY-REQUIRED", "ERROR",
                     \E s \in schemas : \E p \in Linted(s) : Contradictory(s, p))
           \cup Says("LINT-AMBIGUOUS-COMPOSITION", "WARN",
                     \E s \in schemas : \E p \in Linted(s) : Ambiguous(s, p))
           \cup Says("LINT-INVALID-EXAMPLE", "WARN",
                     \/ \E s \in schemas : s[<<>>].example # None /\ ~Validates(s, s[<<>>].example)
                     \/ \E s \in bodies : \E v \in op.examples : ~Validates(s, v))
  IN UNION { LintOf(k) : k \in DOMAIN contract.ops }

AuthBearing == {"openapi"}
AuthNotExpressible == {"graphql", "grpc", "mcp"}

\* None when neither the operation nor the contract says anything.
EffectiveSecurity(op, contract) ==
  IF op.security # None THEN op.security ELSE IF contract.security = {} THEN None ELSE contract.security

AuthenticationFindings(contract) ==
  LET Of(k) == LET sec == EffectiveSecurity(contract.ops[k], contract)
               IN (IF sec = {} THEN {Report("SEC-AUTH-ANONYMOUS", "INFO", k)} ELSE {})
                  \cup (IF sec = None THEN {Report("SEC-AUTH-MISSING", "WARN", k)} ELSE {})
                  \cup (IF sec = None /\ contract.ops[k].mutating
                        THEN {Report("SEC-UNAUTH-WRITE", "WARN", k)} ELSE {})
  IN IF contract.protocol \in AuthBearing THEN UNION { Of(k) : k \in DOMAIN contract.ops }
     ELSE {Report(IF contract.protocol \in AuthNotExpressible THEN "SEC-AUTH-NOT-EXPRESSIBLE"
                  ELSE "SEC-AUTH-NOT-READ", "INFO", None)}

\* Requirements that name a scheme the contract does not declare.
UnknownSchemes(contract) ==
  { Report("SEC-SCHEME-UNKNOWN", "ERROR", k) :
      k \in { j \in DOMAIN contract.ops :
                LET sec == EffectiveSecurity(contract.ops[j], contract)
                IN sec # None /\ ~(sec \subseteq DOMAIN contract.schemes) } }

\* Operations that ask for schemes of different types.
InconsistentSchemes(contract) ==
  LET asked == UNION { LET sec == EffectiveSecurity(contract.ops[k], contract)
                       IN IF sec = None THEN {} ELSE sec \cap DOMAIN contract.schemes :
                       k \in DOMAIN contract.ops }
  IN IF Cardinality({ contract.schemes[x] : x \in asked }) > 1
     THEN {Report("SEC-SCHEME-INCONSISTENT", "WARN", None)} ELSE {}
=============================================================================
