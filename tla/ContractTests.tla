---------------------------- MODULE ContractTests ----------------------------
(***************************************************************************)
(* `test` (fuzz/generate.py, generators.py, boundary.py, runner.py,        *)
(* minimize.py, security/guardrails.py, cli/commands/testing.py): requests *)
(* derived from the contract of an operation, valid ones and ones that     *)
(* break one constraint, are sent to a service, and what it answers is     *)
(* compared with what the contract says.  `test --authz`                   *)
(* (security/authz.py) makes an object as one identity and asks for it as  *)
(* another, and calls what that one holds no scope for.                    *)
(*                                                                         *)
(* The draws of the random generator are the least or the greatest choice. *)
(* Formats, patterns, fractions, multiples, headers and media types are    *)
(* left out, and path parameters, handled like those of the query.         *)
(***************************************************************************)
EXTENDS Validation, Integers, SequencesExt

CONSTANTS Interfaces,   \* the operations: [params, body, bodyRequired, responses]; params: name -> schema
          Services,     \* what a service does: [guarded, crashes, answer]
          Runs,         \* command lines: [generators, credential, allow, minimize]
          Secrets,      \* texts that look like a credential
          MaxPairs, MaxMinimized,  \* limits of the code
          OutagesAfter, \* a bound: after how many requests the service may go away
          Collections,  \* for `--authz`: lists of collections of a contract, [name, deletable]
          Functions,    \* its other operations, in order: [name, method, template, security]
          DefaultScopes,\* what an operation requires that says nothing
          Holdings,     \* the scopes the second identity declares, None if none are stated
          Guards        \* how a service keeps identities apart: [open, patch, id, scoped]

VARIABLES interface, behind, options, \* the contract, the service and the command line
          up,         \* the service can be reached
          cases,      \* what is left to send, in order
          results,    \* of what was sent, in order: [case, status]
          probe,      \* the run of `--authz`, None for the others
          exit        \* None while the command runs

vars == <<interface, behind, options, up, cases, results, probe, exit>>

-----------------------------------------------------------------------------
(* Values (generate.py). *)

Null == [t |-> "null"]
Num(n) == [t |-> "integer", n |-> n]
Text(s) == [t |-> "string", s |-> s]
List(e) == [t |-> "array", e |-> e]
Object(f) == [t |-> "object", f |-> f]
Letters(k) == Text(SubSeq("aaaaaaaaaaaaaaaa", 1, k))
OneField(name, v) == Object([x \in {name} |-> v])

Largest(a, b) == IF a > b THEN a ELSE b
Smallest(a, b) == IF a < b THEN a ELSE b
Or(v, otherwise) == IF v = None THEN otherwise ELSE v
OrZero(v, otherwise) == IF v \in {None, 0} THEN otherwise ELSE v

TypeOf(n) == IF n.type = None THEN "object" ELSE n.type
Fields(s) == Names(s, <<>>, "properties")

\* A text as long as three letters, as far as its bounds let it.
LengthOf(n) ==
  LET least == Largest(OrZero(n.bounds["min_length"], 1), 1)
  IN Smallest(Largest(least, 3), OrZero(n.bounds["max_length"], Largest(least, 8)))

\* Mutant: an exclusive bound is taken as one that is included.
Interval_Closed(n) ==
  LET lo == Or(n.bounds["minimum"], Or(n.bounds["exclusive_minimum"], 1))
  IN <<lo, Largest(lo, Or(n.bounds["maximum"], Or(n.bounds["exclusive_maximum"], lo + 100)))>>

\* The least and the greatest integer a generator draws.
Interval(n) ==
  LET lo == Largest(Or(n.bounds["minimum"], 1), Or(n.bounds["exclusive_minimum"], -101) + 1)
      first == Or(n.bounds["minimum"], 1)
      hi == Smallest(Or(n.bounds["maximum"], first + 100), Or(n.bounds["exclusive_maximum"], 1001) - 1)
  IN <<lo, Largest(lo, hi)>>

RECURSIVE Generate(_, _, _)

\* A value that is meant to satisfy a schema; `most` is what the draws are.
Generate(s, most, depth) ==
  LET n == s[<<>>]
      type == TypeOf(n)
      filled == IF most THEN Fields(s) ELSE n.required \cap Fields(s)
  IN IF depth > 8 THEN Null
     ELSE IF n.example # None THEN n.example
     ELSE IF n.const # None THEN n.const
     ELSE IF n.enum # None THEN (CHOOSE v \in n.enum : TRUE)
     ELSE IF n.default # None THEN n.default
     ELSE CASE type = "string" -> Letters(LengthOf(n))
            [] type = "integer" -> Num(Interval(n)[IF most THEN 2 ELSE 1])
            [] type = "boolean" -> [t |-> "boolean"]
            [] type = "array" ->
                 List([i \in 1..OrZero(n.bounds["min_items"], 1) |->
                         IF Has(s, <<>>, "items", "") THEN Generate(Under(s, "items", ""), most, depth + 1)
                         ELSE Letters(3)])
            [] type = "object" ->
                 Object([x \in filled |-> Generate(Under(s, "properties", x), most, depth + 1)])

Filled(s, most, depth) ==
  [x \in Fields(s) |-> Generate(Under(s, "properties", x), most, depth + 1)]

OfAnotherType(type) ==
  CASE type = "string" -> Num(12345)
    [] type = "array" -> OneField("not", Text("an-array"))
    [] type = "object" -> List(<<Text("not"), Text("an-object")>>)
    [] OTHER -> Text("not-a-value")

\* What breaks a bound of a number or a text, bound by bound.
OutOfBounds(n) ==
  LET b == n.bounds
      when(name, v) == IF b[name] = None THEN <<>> ELSE <<v>>
  IN CASE n.type = "string" ->
            when("min_length", Letters(Largest(Or(b["min_length"], 0) - 1, 0)))
            \o when("max_length", Letters(Or(b["max_length"], 0) + 5))
       [] n.type \in {"integer", "number"} ->
            when("minimum", Num(Or(b["minimum"], 0) - 1)) \o when("maximum", Num(Or(b["maximum"], 0) + 1))
            \o when("exclusive_minimum", Num(Or(b["exclusive_minimum"], 0)))
            \o when("exclusive_maximum", Num(Or(b["exclusive_maximum"], 0)))
       [] OTHER -> <<>>

FirstTwo(q) == SubSeq(q, 1, Smallest(2, Len(q)))

RECURSIVE Break(_, _, _)

\* Values that are meant to violate one constraint each, in the order of the code.
Break(s, most, depth) ==
  LET n == s[<<>>]
      type == TypeOf(n)
      full == Filled(s, most, depth)
      within(x) == [i \in 1..Len(FirstTwo(Break(Under(s, "properties", x), most, depth + 1))) |->
                      Object([full EXCEPT ![x] = Break(Under(s, "properties", x), most, depth + 1)[i]])]
      items == IF Has(s, <<>>, "items", "") THEN Break(Under(s, "items", ""), most, depth + 1) ELSE <<>>
  IN IF depth > 8 THEN <<>>
     ELSE <<OfAnotherType(type)>>
          \o (IF n.enum = None THEN <<>> ELSE <<Text("__invalid_enum")>>)
          \o OutOfBounds(n)
          \o (IF type # "array" THEN <<>>
              ELSE (IF n.bounds["min_items"] = None THEN <<>> ELSE <<List(<<>>)>>)
                   \o [i \in DOMAIN FirstTwo(items) |-> List(<<items[i]>>)])
          \o (IF type # "object" THEN <<>>
              ELSE [i \in 1..Cardinality(n.required) |->
                      LET left == SetToSeq(n.required)[i]
                      IN Object([x \in Fields(s) \ {left} |-> full[x]])]
                   \o FlattenSeq([i \in 1..Smallest(4, Cardinality(Fields(s))) |->
                                    within(SetToSeq(Fields(s))[i])]))

-----------------------------------------------------------------------------
(* Values on a bound (boundary.py, NumericBoundaryGenerator). *)

\* The least and the greatest permitted number, and what a text may be at its longest.
OnABound(n) ==
  LET b == n.bounds
      step == OrZero(b["multiple_of"], 1)
      low == Or(b["minimum"], IF b["exclusive_minimum"] = None THEN None ELSE b["exclusive_minimum"] + step)
      high == Or(b["maximum"], IF b["exclusive_maximum"] = None THEN None ELSE b["exclusive_maximum"] - step)
      next == Or(low, 0) + step
  IN IF n.enum # None THEN n.enum
     ELSE CASE n.type \in {"integer", "number"} ->
                 { Num(k) : k \in ({low, high} \ {None})
                                  \cup (IF low = None /\ high = None THEN {0, 1} ELSE {})
                                  \cup (IF OrZero(b["multiple_of"], 0) # 0 /\ (high = None \/ next <= high)
                                        THEN {next} ELSE {}) }
            [] n.type = "string" ->
                 IF n.pattern # None THEN {}
                 ELSE IF b["min_length"] = None /\ b["max_length"] = None THEN {Text(""), Text("seeded-value")}
                 ELSE { Letters(k) : k \in {b["min_length"], b["max_length"]} \ {None} }
            [] n.type = "boolean" -> {[t |-> "boolean"]}
            [] OTHER -> {Null}

\* Both sides of every bound of a number, and what each side should be.
Sweep(n) ==
  LET at(name, kind, by) ==
        IF n.bounds[name] = None THEN {} ELSE {<<kind, Num(n.bounds[name] + by)>>}
  IN IF n.type \notin {"integer", "number"} THEN {}
     ELSE at("minimum", "positive", 0) \cup at("minimum", "negative", -1)
          \cup at("exclusive_minimum", "negative", 0) \cup at("exclusive_minimum", "positive", 1)
          \cup at("maximum", "positive", 0) \cup at("maximum", "negative", 1)
          \cup at("exclusive_maximum", "negative", 0)

-----------------------------------------------------------------------------
(* Cases. *)

Case(kind, query, body) == [kind |-> kind, query |-> query, body |-> body]

GeneratedQuery(i, most) == [p \in DOMAIN i.params |-> Generate(i.params[p], most, 0)]
GeneratedBody(i, most) == IF i.body = None THEN None ELSE Generate(i.body, most, 0)

\* The request that should be accepted, then those that should not: a broken
\* parameter goes without the body.
SchemaCases(i, most) ==
  LET query == GeneratedQuery(i, most)
      broken(p) == FirstTwo(Break(i.params[p], most, 0))
      names == SetToSeq(DOMAIN i.params)
      bodies == IF i.body = None THEN <<>> ELSE Break(i.body, most, 0)
  IN <<Case("positive", query, GeneratedBody(i, most))>>
     \o FlattenSeq([k \in DOMAIN names |->
          [j \in DOMAIN broken(names[k]) |->
             Case("negative", [query EXCEPT ![names[k]] = broken(names[k])[j]], None)]])
     \o [j \in DOMAIN bodies |-> Case("negative", query, bodies[j])]

\* The nodes of a body schema with one of some types.
Leaves(s, types) ==
  { p \in DOMAIN s : s[p].type \in types /\ \A k \in DOMAIN p : p[k][1] \in {"properties", "items"} }

RECURSIVE SetAt(_, _, _)

\* A value with a part of it replaced, as far as the way there exists.
SetAt(v, path, new) ==
  IF path = <<>> THEN new
  ELSE LET name == path[1][2]
       IN IF path[1][1] = "items"
          THEN IF v.t # "array" THEN v
               ELSE IF v.e = <<>> THEN v ELSE List([v.e EXCEPT ![1] = SetAt(@, Tail(path), new)])
          ELSE IF v.t # "object" THEN v
          ELSE IF name \in DOMAIN v.f THEN Object([v.f EXCEPT ![name] = SetAt(@, Tail(path), new)])
          ELSE IF Len(path) > 1 THEN v
          ELSE Object([x \in DOMAIN v.f \cup {name} |-> IF x = name THEN new ELSE v.f[x]])

\* A kind and a value, at a parameter or somewhere in the body.
Swept(i, most, types, Found(_)) ==
  LET query == GeneratedQuery(i, most)
      body == GeneratedBody(i, most)
  IN (UNION { { Case(x[1], [query EXCEPT ![p] = x[2]], None) : x \in Found(i.params[p][<<>>]) } :
               p \in { q \in DOMAIN i.params : i.params[q][<<>>].type \in types } })
     \cup (IF body = None THEN {}
           ELSE UNION { { Case(x[1], query, SetAt(body, p, x[2])) : x \in Found(i.body[p]) } :
                          p \in Leaves(i.body, types) })

\* Text that real users send, two and six characters of it.
WideTexts == {"uu", "uuuuuu"}

Fitting(n) ==
  { <<"positive", Text(w)>> : w \in { x \in WideTexts : /\ Bounded(n, "min_length", LAMBDA b : Len(x) >= b)
                                                       /\ Bounded(n, "max_length", LAMBDA b : Len(x) <= b) } }

DeepValues == {OneField("n", OneField("n", Text("leaf"))), List(<<List(<<>>)>>)}

\* Every two values of every two parameters.
Pairs(i, most) ==
  LET base == [p \in DOMAIN i.params |-> CHOOSE v \in OnABound(i.params[p][<<>>]) : TRUE]
      pairs == UNION { { [base EXCEPT ![p] = v, ![q] = w] : v \in OnABound(i.params[p][<<>>]),
                                                          w \in OnABound(i.params[q][<<>>]) } :
                         <<p, q>> \in { r \in (DOMAIN i.params) \X (DOMAIN i.params) : r[1] # r[2] } }
  IN IF Cardinality(DOMAIN i.params) < 2 THEN <<>>
     ELSE LET all == SetToSeq(pairs)
          IN [k \in 1..Smallest(MaxPairs, Len(all)) |-> Case("positive", all[k], None)]

CasesOf(i, generator, most) ==
  CASE generator = "unicode" -> SetToSeq(Swept(i, most, {"string"}, Fitting))
    [] generator = "numeric" -> SetToSeq(Swept(i, most, {"integer", "number"}, Sweep))
    [] generator = "nesting" ->
         IF i.body = None THEN <<>>
         ELSE SetToSeq({ Case("negative", GeneratedQuery(i, most), v) : v \in DeepValues })
    [] generator = "pairwise" -> Pairs(i, most)

BuildCases(i, generators, most) ==
  LET named == SetToSeq(generators)
  IN SchemaCases(i, most) \o FlattenSeq([k \in DOMAIN named |-> CasesOf(i, named[k], most)])

-----------------------------------------------------------------------------
(* The service, which may skip one of the checks its contract declares. *)

\* What arrives of a value that travels in the query: text, read as its type says.
Arriving(n, v) == IF n.type = "string" /\ v.t # "string" THEN Text("12345") ELSE v

Checked(s, where, skip) ==
  IF skip = None THEN s
  ELSE IF skip.where # where \/ skip.path \notin DOMAIN s THEN s
  ELSE IF skip.bound = "required" THEN [s EXCEPT ![skip.path].required = {}]
  ELSE [s EXCEPT ![skip.path].bounds[skip.bound] = None]

Accepts(i, case, skip) ==
  /\ \A p \in DOMAIN i.params \cap DOMAIN case.query :
       Valid(Checked(i.params[p], p, skip), Arriving(i.params[p][<<>>], case.query[p]))
  /\ i.body # None => IF case.body = None THEN ~i.bodyRequired
                      ELSE Valid(Checked(i.body, "body", skip), case.body)

Status(service, i, case, credential) ==
  IF service.guarded /\ ~credential THEN "401"
  ELSE IF service.crashes /\ case.body \in DeepValues THEN "500"
  ELSE IF Accepts(i, case, service.skip) THEN "200" ELSE "400"

-----------------------------------------------------------------------------
(* Sending (runner.py, guardrails.py). *)

RECURSIVE TextsIn(_)
TextsIn(v) ==
  CASE v.t = "string" -> {v.s}
    [] v.t = "array" -> UNION { TextsIn(v.e[k]) : k \in DOMAIN v.e }
    [] v.t = "object" -> UNION { TextsIn(v.f[x]) : x \in DOMAIN v.f }
    [] OTHER -> {}

\* A payload that carries a credential stays here, unless that was asked for.
MaySend(case, run) == run.allow \/ case.body = None \/ TextsIn(case.body) \cap Secrets = {}

\* What is wrong with an answer.  A rejection of what should be rejected is not
\* looked at any further.
CheckResponse(i, case, status, answer) ==
  LET declared == IF status \in DOMAIN i.responses THEN status ELSE "default"
  IN IF status = "500" THEN {"server error"}
     ELSE IF case.kind = "negative" THEN IF status = "200" THEN {"invalid input accepted"} ELSE {}
     ELSE IF case.kind = "positive" /\ status # "200" THEN {"valid input rejected"}
     ELSE IF declared \notin DOMAIN i.responses THEN {"status not declared"}
     ELSE IF i.responses[declared] = None \/ Valid(i.responses[declared], answer) THEN {}
     ELSE {"response body"}

Outcome(i, service, case, credential) ==
  IF CheckResponse(i, case, Status(service, i, case, credential), service.answer) = {} THEN "pass" ELSE "fail"

RECURSIVE Shrunk(_, _, _)

\* minimize.py: leave out optional fields while the answer is still wrong.
Shrunk(i, service, case) ==
  LET without(x) == [case EXCEPT !.body = Object([y \in DOMAIN case.body.f \ {x} |-> case.body.f[y]])]
      spare == { x \in DOMAIN case.body.f \ i.body[<<>>].required :
                   Outcome(i, service, without(x), FALSE) = "fail" }
  IN IF spare = {} THEN case ELSE Shrunk(i, service, without(CHOOSE x \in spare : TRUE))

\* The first failures with an object for a body are sent again, without the
\* credential of the run, and the answer to the smallest is what is reported.
Minimized(done) ==
  LET candidates == SelectSeq([k \in DOMAIN done |-> k],
                              LAMBDA k : /\ done[k].status = "fail" /\ done[k].case.body # None
                                         /\ done[k].case.body.t = "object")
      chosen == ToSet(SubSeq(candidates, 1, Smallest(MaxMinimized, Len(candidates))))
  IN [k \in DOMAIN done |->
        IF k \notin chosen THEN done[k]
        ELSE LET small == Shrunk(interface, behind, done[k].case)
             IN [case |-> small, status |-> IF up THEN Outcome(interface, behind, small, FALSE) ELSE "error"]]

-----------------------------------------------------------------------------

\* The checks a service may have forgotten.
Forgettable(i) ==
  UNION { { [where |-> x[1], path |-> p, bound |-> b] :
              p \in DOMAIN x[2],
              b \in { c \in BoundNames : \E q \in DOMAIN x[2] : x[2][q].bounds[c] # None } \cup {"required"} } :
          x \in { <<p, i.params[p]>> : p \in DOMAIN i.params }
                \cup (IF i.body = None THEN {} ELSE {<<"body", i.body>>}) }

TestInit ==
  /\ probe = None /\ interface \in Interfaces /\ options \in Runs
  /\ \E most \in BOOLEAN : cases = BuildCases(interface, options.generators, most)
  /\ \E s \in Services, skip \in {None} \cup Forgettable(interface) :
       /\ skip # None => IF skip.where = "body" THEN interface.body # Checked(interface.body, "body", skip)
                         ELSE interface.params[skip.where] # Checked(interface.params[skip.where], skip.where, skip)
       /\ behind = [skip |-> skip, guarded |-> s.guarded, crashes |-> s.crashes, answer |-> s.answer]
  /\ up = TRUE /\ results = <<>> /\ exit = None

\* `held` is what the service keeps of what was made, `told` what the report says
\* it did not probe, `wrong` its errors, `lost` what the service forgot.
AuthzInit ==
  /\ interface = None /\ behind = None /\ options = None /\ up = None /\ cases = None /\ results = None
  /\ exit = None
  /\ \E g \in Guards, cs \in Collections, h \in Holdings, asked \in BOOLEAN, two \in BOOLEAN :
       probe = [guard |-> g, collections |-> ToSet(cs), holds |-> h, asked |-> asked, two |-> two,
                todo |-> [k \in DOMAIN cs |-> [does |-> "POST", to |-> cs[k]]]
                         \o (IF h = None THEN <<>>
                             ELSE [k \in DOMAIN Functions |-> [does |-> "call", to |-> Functions[k]]]),
                held |-> {}, told |-> IF cs = <<>> THEN {<<"*", "*">>} ELSE {}, wrong |-> {}, lost |-> {}]

Init == TestInit \/ AuthzInit

\* One case: not sent, not answered, or judged.
Send ==
  /\ probe = None /\ exit = None /\ cases # <<>>
  /\ cases' = Tail(cases)
  /\ results' = Append(results,
       [case |-> Head(cases),
        status |-> IF ~MaySend(Head(cases), options) \/ ~up THEN "error"
                   ELSE Outcome(interface, behind, Head(cases), options.credential)])
  /\ UNCHANGED <<interface, behind, options, up, probe, exit>>

\* Everything but a pass is a failure of the run, a service that is down too.
Report ==
  /\ probe = None /\ exit = None /\ cases = <<>>
  /\ results' = IF options.minimize THEN Minimized(results) ELSE results
  /\ exit' = IF \A k \in DOMAIN results' : results'[k].status = "pass" THEN 0 ELSE 1
  /\ UNCHANGED <<interface, behind, options, up, cases, probe>>

\* The service goes away and stays away, after so many requests.
Outage ==
  /\ probe = None /\ exit = None /\ up /\ Len(results) \in OutagesAfter /\ up' = FALSE
  /\ UNCHANGED <<interface, behind, options, cases, results, probe, exit>>

-----------------------------------------------------------------------------
(* Two identities (authz.py). *)

testing == <<interface, behind, options, up, cases, results>>

Methods == <<"GET", "PATCH", "DELETE">>

\* What the second identity is answered for the first one's object.
Touched(method, c) ==
  IF method = "PATCH" /\ ~probe.guard.patch THEN "405"
  ELSE IF c.name \notin probe.held THEN "404"
  ELSE IF method \in probe.guard.open THEN "200" ELSE "403"

Denied == {"401", "403", "404", "405", "410"}

Required(op) == IF op.security = None THEN DefaultScopes ELSE op.security

Safe == {"GET", "HEAD", "OPTIONS"}

\* What a step of the probe asks the service, if anything.
Sends(step) ==
  CASE step.does = "call" -> /\ ~(Required(step.to) \subseteq probe.holds)
                             /\ step.to.method \in Safe /\ ~step.to.template
    [] step.does = "DELETE" -> step.to.deletable
    [] OTHER -> TRUE

\* Two identities, and the word that this writes.
Decline ==
  /\ probe # None /\ exit = None /\ ~(probe.asked /\ probe.two)
  /\ exit' = 2 /\ UNCHANGED <<testing, probe>>

Probing(does) ==
  /\ probe # None /\ exit = None /\ probe.asked /\ probe.two
  /\ probe.todo # <<>> /\ Head(probe.todo).does = does

\* An object made as the first identity; without an id there is nothing to ask for.
Create ==
  /\ Probing("POST")
  /\ LET c == Head(probe.todo).to
         rest == Tail(probe.todo)
     IN probe' = IF probe.guard.id
                 THEN [probe EXCEPT !.held = @ \cup {c.name},
                                    !.todo = [k \in DOMAIN Methods |-> [does |-> Methods[k], to |-> c]] \o rest]
                 ELSE [probe EXCEPT !.told = @ \cup {<<"POST", c.name>>}, !.todo = rest]
  /\ UNCHANGED <<testing, exit>>

\* Mutant: the first finding ends the probe of an object.
Touch_UntilFound ==
  \E method \in ToSet(Methods) :
    /\ Probing(method)
    /\ LET c == Head(probe.todo).to
       IN probe' = IF method = "DELETE" /\ \E w \in probe.wrong : w[2] = c.name
                   THEN [probe EXCEPT !.todo = Tail(@)]
                   ELSE [probe EXCEPT !.todo = Tail(@),
                           !.wrong = @ \cup IF Touched(method, c) \in Denied THEN {} ELSE {<<method, c.name>>}]
    /\ UNCHANGED <<testing, exit>>

\* Read, then change, then delete, whatever was found before.
Touch ==
  \E method \in ToSet(Methods) :
    /\ Probing(method)
    /\ LET c == Head(probe.todo).to
           answered == Touched(method, c)
       IN probe' = IF ~Sends(Head(probe.todo))
                   THEN [probe EXCEPT !.told = @ \cup {<<method, c.name>>}, !.todo = Tail(@)]
                   ELSE [probe EXCEPT !.todo = Tail(@),
                           !.held = IF method = "DELETE" /\ answered = "200" THEN @ \ {c.name} ELSE @,
                           !.wrong = @ \cup IF answered \in Denied THEN {} ELSE {<<method, c.name>>}]
    /\ UNCHANGED <<testing, exit>>

\* What requires a scope the second identity does not hold, if that changes nothing.
Call ==
  /\ Probing("call")
  /\ LET op == Head(probe.todo).to
         kept == [probe EXCEPT !.todo = Tail(@)]
     IN probe' = IF Required(op) \subseteq probe.holds THEN kept
                 ELSE IF ~Sends(Head(probe.todo)) THEN [kept EXCEPT !.told = @ \cup {<<op.method, op.name>>}]
                 ELSE [kept EXCEPT !.wrong = @ \cup IF probe.guard.scoped THEN {} ELSE {<<op.method, op.name>>}]
  /\ UNCHANGED <<testing, exit>>

\* A service that keeps its objects in memory starts again.
Forget ==
  /\ probe # None /\ exit = None /\ probe.held # {}
  /\ probe' = [probe EXCEPT !.held = {}, !.lost = @ \cup probe.held] /\ UNCHANGED <<testing, exit>>

\* A request that is not answered ends the command, and what it found is not reported.
BreakOff ==
  /\ probe # None /\ exit = None /\ probe.asked /\ probe.two /\ probe.todo # <<>>
  /\ Sends(Head(probe.todo)) /\ exit' = 3 /\ UNCHANGED <<testing, probe>>

Conclude ==
  /\ probe # None /\ exit = None /\ probe.asked /\ probe.two /\ probe.todo = <<>>
  /\ exit' = IF probe.wrong = {} THEN 0 ELSE 1
  /\ UNCHANGED <<testing, probe>>

Next == Send \/ Report \/ Outage \/ Decline \/ Create \/ Touch \/ Call \/ Forget \/ BreakOff \/ Conclude

Spec == Init /\ [][Next]_vars

-----------------------------------------------------------------------------

\* The nodes of all schemas of the requests.
Nodes(i) ==
  UNION { { s[p] : p \in DOMAIN s } :
            s \in { i.params[q] : q \in DOMAIN i.params } \cup (IF i.body = None THEN {} ELSE {i.body}) }

\* Limits that a value meant to be valid does not keep: an upper one below the 1 that is
\* taken for the lower where none is declared, a length of 0, which counts as none, a number
\* of items below the least that is made, and an inclusive and an exclusive one of one side.
Overrun(n) ==
  LET b == n.bounds
  IN \/ n.type = "integer" /\ b["minimum"] = None /\ (Or(b["maximum"], 1) < 1 \/ Or(b["exclusive_maximum"], 2) < 2)
     \/ n.type = "string" /\ b["max_length"] = 0
     \/ n.type = "array" /\ b["max_items"] # None /\ b["max_items"] < OrZero(b["min_items"], 1)
     \/ None \notin {b["minimum"], b["exclusive_minimum"]} \/ None \notin {b["maximum"], b["exclusive_maximum"]}

\* Limits that nothing can break: what is made to is empty, and valid.
Void(n, bound) == bound \in {"min_length", "min_items"} /\ n.bounds[bound] = 0

RECURSIVE HasEmpty(_)
HasEmpty(v) ==
  CASE v.t = "string" -> v.s = ""
    [] v.t = "array" -> v.e = <<>> \/ \E k \in DOMAIN v.e : HasEmpty(v.e[k])
    [] v.t = "object" -> \E x \in DOMAIN v.f : HasEmpty(v.f[x])
    [] OTHER -> FALSE

\* Cases that call a service wrong which is right, against generate.py:4 ("positive cases
\* satisfy every constraint; negative cases violate exactly one"): what is no text still
\* arrives as text in a query; what goes without the body is refused for that where it
\* is required; wide text is put where an enum stands; what is nested deep may
\* be allowed; a schema without a type is taken for an object's; and some limits are
\* overrun by valid values, and some cannot be broken.
Unfair(case) ==
  LET i == interface
      values == { case.query[p] : p \in DOMAIN case.query } \cup ({case.body} \ {None})
  IN \/ case.kind = "negative" /\ \E p \in DOMAIN i.params :
          i.params[p][<<>>].type = "string" /\ case.query[p].t # "string"
     \/ case.kind = "positive" /\ i.body # None /\ case.body = None /\ i.bodyRequired
     \/ case.kind = "positive" /\ case.body # None
        /\ \E p \in Leaves(i.body, {"string"}) : i.body[p].enum # None /\ TextsIn(case.body) \cap WideTexts # {}
     \/ case.body \in DeepValues
     \/ case.kind = "negative" /\ i.body # None /\ \E p \in DOMAIN i.body : i.body[p].type = None
     \/ case.kind = "positive" /\ \E n \in Nodes(i) : Overrun(n)
     \/ case.kind = "negative" /\ (\E v \in values : HasEmpty(v))
        /\ \E n \in Nodes(i) : Void(n, "min_length") \/ Void(n, "min_items")

\* A service that does what the contract says: it asks for a credential the run has.
Right == /\ behind.skip = None /\ ~behind.crashes
         /\ behind.guarded => options.credential
         /\ \A r \in DOMAIN interface.responses :
              interface.responses[r] = None \/ Valid(interface.responses[r], behind.answer)

\* The forgotten checks a run finds: all of the body itself, the only one of a
\* field or an item (any of a number's with --generator numeric), a parameter's
\* where no body is required.  An enum hides the other checks of its node, a
\* list that asks for two items or more those of its items, and a limit that valid
\* values overrun all others; the greatest number of items is never exceeded.
Sought(skip) ==
  LET n == IF skip.where = "body" THEN interface.body[skip.path] ELSE interface.params[skip.where][skip.path]
      declared == { b \in BoundNames : n.bounds[b] # None }
  IN /\ skip.where # "body" => ~interface.bodyRequired
     /\ n.enum = None
     /\ skip.bound # "max_items" /\ ~Void(n, skip.bound)
     /\ \A m \in Nodes(interface) : Overrun(m) => m = n /\ declared = {skip.bound}
     /\ (skip.where = "body" /\ skip.path # <<>>) =>
          OrZero(interface.body[Front(skip.path)].bounds["min_items"], 1) = 1
     /\ \/ skip.where = "body" /\ skip.path = <<>>
        \/ Len(skip.path) <= 1 /\ declared = {skip.bound}
        \/ "numeric" \in options.generators /\ n.type = "integer" /\ declared # {}

\* A failing case is earned by the service and a passing run by its contract:
\* a service that is right is called wrong by no fair case, and one that forgot
\* a check the run looks for never gets exit 0, minimized or not, unless the
\* minimizer is turned away for want of the credential it does not send.
CasesAreEarned ==
  (exit # None /\ probe = None) =>
    /\ Right => \A k \in DOMAIN results : results[k].status = "fail" => Unfair(results[k].case)
    /\ (behind.skip # None /\ (behind.guarded => options.credential /\ ~options.minimize)) =>
         (Sought(behind.skip) => \E k \in DOMAIN results : results[k].status # "pass" /\ ~Unfair(results[k].case))

\* A run with two identities that is over names every way in: what the service
\* leaves open to the second one is an error or said not to be probed; unless the
\* service has forgotten the object, which counts as refused, or knows no PATCH.
\* And a service that keeps the two apart has no error.
StrangersAreNoticed ==
  (probe # None /\ exit \in {0, 1}) =>
    /\ \A c \in probe.collections, method \in probe.guard.open :
         \/ {<<method, c.name>>, <<"POST", c.name>>} \cap (probe.wrong \cup probe.told) # {}
         \/ c.name \in probe.lost
         \/ (method = "PATCH" /\ ~probe.guard.patch)
    /\ \A k \in DOMAIN Functions :
         LET op == Functions[k]
         IN (~probe.guard.scoped /\ probe.holds # None)
            => (Required(op) \subseteq probe.holds \/ <<op.method, op.name>> \in probe.wrong \cup probe.told)
    /\ (probe.guard.open = {} /\ probe.guard.scoped) => exit = 0

\* What `test` says of a service is earned by the service and by the contract.
VerdictIsEarned == CasesAreEarned /\ StrangersAreNoticed
===============================================================================
