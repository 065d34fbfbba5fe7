----------------------------- MODULE Validation -----------------------------
(* validate_value (core/validation.py): which values a schema accepts.  The *)
(* code returns the list of violations; a value is valid when it is empty.  *)
(* A value is a record: [t |-> "null"], [t |-> "integer", n |-> number],    *)
(* [t |-> "string", s |-> text], [t |-> "array", e |-> sequence],           *)
(* [t |-> "object", f |-> function from names].                             *)
EXTENDS Schema

CONSTANT Matches   \* regular expression -> the texts it matches

TypeMatches(type, v) ==
  \/ type \in {None, v.t}
  \/ type = "number" /\ v.t = "integer"

\* A bound the node declares holds of a number.
Bounded(n, name, Holds(_)) == n.bounds[name] = None \/ Holds(n.bounds[name])

StringValid(n, v) ==
  /\ Bounded(n, "min_length", LAMBDA b : Len(v.s) >= b)
  /\ Bounded(n, "max_length", LAMBDA b : Len(v.s) <= b)
  /\ n.pattern # None => v.s \in Matches[n.pattern]

NumberValid(n, v) ==
  /\ Bounded(n, "minimum", LAMBDA b : v.n >= b)
  /\ Bounded(n, "maximum", LAMBDA b : v.n <= b)
  /\ Bounded(n, "exclusive_minimum", LAMBDA b : v.n > b)
  /\ Bounded(n, "exclusive_maximum", LAMBDA b : v.n < b)
  /\ Bounded(n, "multiple_of", LAMBDA b : b # 0 => v.n % b = 0)

RECURSIVE Valid(_, _)

ArrayValid(s, v) ==
  LET n == s[<<>>]
      prefix == Cardinality(Names(s, <<>>, "prefixItems"))
      matching == IF <<<<"contains", "">>>> \in DOMAIN s
                  THEN Cardinality({ i \in DOMAIN v.e : Valid(Under(s, "contains", ""), v.e[i]) })
                  ELSE 0
  IN /\ Bounded(n, "min_items", LAMBDA b : Len(v.e) >= b)
     /\ Bounded(n, "max_items", LAMBDA b : Len(v.e) <= b)
     /\ n.unique => \A i, j \in DOMAIN v.e : i # j => v.e[i] # v.e[j]
     /\ \A i \in DOMAIN v.e :
          IF i <= prefix THEN Valid(Under(s, "prefixItems", i), v.e[i])
          ELSE Has(s, <<>>, "items", "") => Valid(Under(s, "items", ""), v.e[i])
     /\ Has(s, <<>>, "contains", "") =>
          /\ matching >= (IF n.minContains = None THEN 1 ELSE n.minContains)
          /\ n.maxContains = None \/ matching <= n.maxContains

ObjectValid(s, v) ==
  LET n == s[<<>>]
      present == DOMAIN v.f
      byPattern(x) == { p \in Names(s, <<>>, "patternProperties") : x \in Matches[p] }
      extra == { x \in present : x \notin Names(s, <<>>, "properties") /\ byPattern(x) = {} }
      branch == IF Valid(Under(s, "if", ""), v) THEN "then" ELSE "else"
  IN /\ n.required \subseteq present
     /\ \A x \in present \cap Names(s, <<>>, "properties") : Valid(Under(s, "properties", x), v.f[x])
     /\ \A x \in present \cap DOMAIN n.dependentRequired : n.dependentRequired[x] \subseteq present
     /\ \A x \in present \cap Names(s, <<>>, "dependentSchemas") :
          Valid(Under(s, "dependentSchemas", x), v)
     /\ Has(s, <<>>, "propertyNames", "") =>
          \A x \in present : Valid(Under(s, "propertyNames", ""), [t |-> "string", s |-> x])
     /\ \A x \in present : \A p \in byPattern(x) : Valid(Under(s, "patternProperties", p), v.f[x])
     /\ Has(s, <<>>, "if", "") => (Has(s, <<>>, branch, "") => Valid(Under(s, branch, ""), v))
     /\ n.additional = FALSE => extra = {}
     /\ Has(s, <<>>, "additional", "") => \A x \in extra : Valid(Under(s, "additional", ""), v.f[x])

Valid(s, v) ==
  LET n == s[<<>>]
  IN IF v.t = "null" THEN n.nullable
     ELSE /\ n.enum # None => v \in n.enum
          /\ n.const # None => v = n.const
          /\ TypeMatches(n.type, v)
          /\ n.type = "string" => StringValid(n, v)
          /\ n.type \in {"integer", "number"} => NumberValid(n, v)
          /\ n.type = "array" => ArrayValid(s, v)
          /\ n.type = "object" => ObjectValid(s, v)
          /\ \A kw \in {"anyOf", "oneOf"} :
               LET variants == Names(s, <<>>, kw)
               IN variants = {} \/ \E i \in variants : Valid(Under(s, kw, i), v)
=============================================================================
