------------------------------ MODULE MCPipeline ------------------------------
(***************************************************************************)
(* The commands a pipeline runs on a project: those of PipelineCommands    *)
(* and generated tests.  They are explored side by side, one of them in    *)
(* each behaviour.                                                         *)
(***************************************************************************)
EXTENDS PipelineCommands, Validation, FiniteSets, TLC

CONSTANTS Interfaces, Services, Runs, Secrets, MaxPairs, MaxMinimized, OutagesAfter,
          Collections, Functions, DefaultScopes, Holdings, Guards

VARIABLES interface, behind, options, up, cases, results, probe, exit

testVars  == <<interface, behind, options, up, cases, results, probe, exit>>

Tests  == INSTANCE ContractTests

NoCommands == NoRelease /\ NoSweep /\ NoTools /\ NoChecks /\ NoLoads /\ NoRefs

NoTests ==
  /\ interface = None /\ behind = None /\ options = None /\ up = None
  /\ cases = None /\ results = None /\ probe = None /\ exit = None

PipelineInit ==
  \/ CommandsInit /\ NoTests
  \/ stage = "tests" /\ Tests!Init /\ NoCommands

PipelineNext ==
  \/ CommandsNext /\ UNCHANGED testVars
  \/ stage = "tests" /\ Tests!Next /\ UNCHANGED commandVars

PipelineSpec == PipelineInit /\ [][PipelineNext]_<<commandVars, testVars>>

-----------------------------------------------------------------------------
(* What it promises besides; the module states it in full. *)

\* A failing case of `test` is earned by the service and a passing run by its contract (ContractTests).
VerdictIsEarned == stage = "tests" => Tests!VerdictIsEarned

-----------------------------------------------------------------------------
(* A base contract, what an author may make of it, and the projects it is released in. *)

Leaf(type) == [p \in {<<>>} |-> [AnyNode EXCEPT !.type = type]]

Answer == [headers |-> {"etag"}, content |-> ("json" :> Leaf("integer")), streams |-> NoNames]

Plan == [announced |-> None, sunset |-> None, guide |-> None, impact |-> None]

Reading ==
  [kind |-> "http", sends |-> FALSE, streaming |-> <<FALSE, FALSE>>, mutating |-> FALSE,
   id |-> "read", tags |-> <<"t">>, order |-> <<>>, texts |-> [description |-> "d"],
   params |-> (<<"h", "header">> :> [required |-> FALSE, schema |-> Leaf("integer")]),
   body |-> None, responses |-> ("200" :> Answer), security |-> None,
   deprecated |-> FALSE, doc |-> "d", examples |-> {}, declaresOutput |-> FALSE,
   idempotent |-> None, pagination |-> None, guided |-> FALSE, plan |-> <<Plan, Plan>>, retirement |-> NoNames,
   soap |-> [action |-> "a", style |-> "document", version |-> "1.1"],
   hints |-> [readOnlyHint |-> "undeclared"]]

Writing == [Reading EXCEPT !.id = "write", !.mutating = TRUE,
                           !.body = [required |-> FALSE, content |-> ("json" :> Leaf("integer")),
                                     streams |-> NoNames]]

Base == [protocol |-> "openapi", version |-> <<1, 2, 0>>, servers |-> <<"s">>, security |-> {"key"},
         schemes |-> ("key" :> "apiKey"), truncated |-> FALSE, texts |-> [title |-> "t"],
         ops |-> ("read" :> Reading) @@ ("write" :> Writing)]

At(c, major, minor, micro) == [c EXCEPT !.version = <<major, minor, micro>>]

HeaderAsked == [Base EXCEPT !.ops["read"].params[<<"h", "header">>].required = TRUE]
WriteGone == [Base EXCEPT !.ops = "read" :> Reading]
Retyped == [Base EXCEPT !.schemes = "key" :> "http"]
EtagGone == [Base EXCEPT !.ops["read"].responses["200"].headers = {}]
Retiring == [Base EXCEPT !.ops["write"].deprecated = TRUE, !.ops["write"].plan[1].sunset = 0,
                         !.ops["write"].plan[1].guide = "g"]
\* The block says it in words, the flat extension gives the day.
RetiringInWords == [Retiring EXCEPT !.ops["write"].plan[1].sunset = NotADate,
                                    !.ops["write"].plan[2].sunset = 0]
Nameless == [Base EXCEPT !.ops["read"].id = None]
MediaGone == [Base EXCEPT !.ops["write"].body.content = "xml" :> Leaf("integer")]
Contradiction == [Base EXCEPT !.ops["write"].body.content["json"][<<>>].required = {"a"},
                              !.ops["write"].body.content["json"][<<>>].type = "object"]

\* A GraphQL field with an argument, and a gRPC method with a message.
Field ==
  [Reading EXCEPT !.kind = "graphql_field", !.params = (<<"a", "argument">> :> [required |-> FALSE, schema |-> Leaf("string")]),
                  !.responses = ("200" :> [headers |-> {}, streams |-> NoNames,
                     content |-> ("application/graphql" :> [Leaf("object") EXCEPT ![<<>>].title = "T"])])]

Graph == [Base EXCEPT !.protocol = "graphql", !.ops = ("Query.user" :> Field), !.security = {},
                      !.schemes = NoNames]

Message == [p \in {<<>>, <<<<"properties", "f">>>>} |->
              IF p = <<>> THEN [AnyNode EXCEPT !.type = "object", !.title = "M"]
              ELSE [AnyNode EXCEPT !.type = "integer", !.format = "int32"]]

Method ==
  [Reading EXCEPT !.kind = "grpc_rpc", !.params = NoNames,
                  !.body = [required |-> TRUE, content |-> ("application/x-protobuf" :> Message), streams |-> NoNames],
                  !.responses = ("200" :> [headers |-> {}, streams |-> NoNames,
                                           content |-> ("application/x-protobuf" :> Message)])]

Rpc == [Graph EXCEPT !.protocol = "grpc", !.ops = ("svc.Do" :> Method)]

ArgumentAsked == [Graph EXCEPT !.ops["Query.user"].params[<<"a", "argument">>].required = TRUE]
ArgumentGone == [Graph EXCEPT !.ops["Query.user"].params = NoNames]
ReturnRelaxed ==
  [Graph EXCEPT !.ops["Query.user"].responses["200"].content["application/graphql"][<<>>].nullable = TRUE]
FieldRetyped ==
  [Rpc EXCEPT !.ops["svc.Do"].body.content["application/x-protobuf"][<<<<"properties", "f">>>>].type = "string"]
FieldWidened ==
  [Rpc EXCEPT !.ops["svc.Do"].body.content["application/x-protobuf"][<<<<"properties", "f">>>>].format = "int64"]

MCRevisions ==
  ("graph" :> Graph) @@ ("argument-asked" :> At(ArgumentAsked, 2, 0, 0))
  @@ ("argument-gone" :> At(ArgumentGone, 2, 0, 0)) @@ ("relaxed" :> At(ReturnRelaxed, 1, 3, 0))
  @@ ("rpc" :> Rpc) @@ ("field-retyped" :> At(FieldRetyped, 2, 0, 0))
  @@ ("field-widened" :> At(FieldWidened, 1, 3, 0))
  @@ ("base" :> Base) @@ ("same" :> Base)
  @@ ("asked-patch" :> At(HeaderAsked, 1, 2, 1)) @@ ("asked" :> At(HeaderAsked, 2, 0, 0))
  @@ ("gone" :> At(WriteGone, 2, 0, 0)) @@ ("retyped" :> At(Retyped, 2, 0, 0))
  @@ ("etag-minor" :> At(EtagGone, 1, 3, 0)) @@ ("etag-patch" :> At(EtagGone, 1, 2, 1))
  @@ ("etag-back" :> At(EtagGone, 0, 9, 0))
  @@ ("retiring" :> At(Retiring, 1, 3, 0))
  @@ ("retiring-in-words" :> At(RetiringInWords, 1, 3, 0)) @@ ("nameless" :> At(Nameless, 1, 3, 0))
  @@ ("media" :> [MediaGone EXCEPT !.version = Unparseable])
  @@ ("contradiction" :> At(Contradiction, 1, 3, 0))

Config ==
  [parses |-> TRUE, unknownKeys |-> {}, version |-> 1, profile |-> None, overrides |-> NoNames,
   failOn |-> None, suppressions |-> TRUE, maxDays |-> 2, approver |-> FALSE, checkSemver |-> FALSE]

Project ==
  [config |-> Config, flags |-> NoNames, sdk |-> {}, registry |-> None, bySeverity |-> FALSE,
   minorForWarnings |-> FALSE, policy |-> None]

Consumer(name, ops) == [name |-> name, uses |-> ops]
Registry(complete, ops) ==
  [parses |-> TRUE, version |-> 1, complete |-> complete,
   consumers |-> <<Consumer("app", ops), Consumer("batch", ops \cap {"write"})>>]

NeedsId ==
  [id |-> "HOUSE-ID", severity |-> "ERROR", rationale |-> "r", remediation |-> "r",
   select |-> "operation", exempt |-> {}, protocols |-> {"openapi"},
   where |-> [operation_id |-> [predicate |-> "present", expected |-> None]]]

PolicyFile(ruleset) == [pack |-> "house", version |-> "1", rules |-> ruleset]

MCProjects ==
  {Project,
   [Project EXCEPT !.config.checkSemver = TRUE, !.config.approver = TRUE],
   [Project EXCEPT !.config.checkSemver = TRUE, !.config.profile = "strict",
                   !.config.overrides = [x \in {"BRK-HEADER-REMOVED"} |-> "INFO"]],
   [Project EXCEPT !.config.profile = "advisory", !.config.checkSemver = TRUE,
                   !.minorForWarnings = TRUE],
   [Project EXCEPT !.config.failOn = "warn", !.config.suppressions = FALSE],
   [Project EXCEPT !.config.failOn = "werror"],
   [Project EXCEPT !.registry = Registry(TRUE, {"read"}), !.bySeverity = TRUE,
                   !.config.checkSemver = TRUE],
   [Project EXCEPT !.registry = Registry(FALSE, {"read"}), !.bySeverity = TRUE],
   [Project EXCEPT !.registry = [Registry(TRUE, {}) EXCEPT !.parses = FALSE]],
   [Project EXCEPT !.registry = Registry(FALSE, {"read", "write"})],
   [Project EXCEPT !.registry = [Registry(TRUE, {}) EXCEPT !.consumers[2] = Consumer("app", {"read"})],
                   !.bySeverity = TRUE],
   [Project EXCEPT !.sdk = Conventions, !.config.failOn = "warn"],
   [Project EXCEPT !.policy = PolicyFile(<<NeedsId>>)],
   [Project EXCEPT !.policy = PolicyFile(<<[NeedsId EXCEPT !.where =
                                  [operationId |-> [predicate |-> "present", expected |-> None]]]>>)]}

Entry == [rule |-> "COMPAT-HEADER-REQUIRED", op |-> "read", owner |-> TRUE, reason |-> TRUE,
          approver |-> FALSE, expires |-> 1]

MCWritable ==
  {[Entry EXCEPT !.rule = x] : x \in {"COMPAT-HEADER-REQUIRED", "BRK-PARAM-REQUIRED"}}
  \cup {[Entry EXCEPT !.rule = "BRK-OP-REMOVED", !.op = "write", !.expires = 3],
        [Entry EXCEPT !.rule = "BRK-OP-REMOVED", !.op = None, !.approver = TRUE],
        [Entry EXCEPT !.rule = "BRK-OP-REMOVED", !.op = "write", !.reason = FALSE],
        [Entry EXCEPT !.rule = "LIFECYCLE-SUNSET-PASSED", !.op = "write", !.expires = 0],
        [Entry EXCEPT !.rule = "COMPAT-SECURITY-TYPE-CHANGED", !.op = None, !.expires = NotADate]}

MCBases == {"base", "graph", "rpc"}

MCCalls ==
  [op : {"Query.user"}, params : SUBSET {<<"a", "argument">>}, body : {None}, credentials : {NoNames}]
  \cup [op : {"svc.Do"}, params : {{}}, body : {"application/x-protobuf"}, credentials : {NoNames}]
  \cup
  [op : {"read", "write"}, params : SUBSET {<<"h", "header">>}, body : {None, "json"},
   credentials : {"key" :> "apiKey"}]

MCMatching == ("None" :> {})

(* The repository of the sweeps: a contract is missing, broken, clean or in debt. *)

Unclean(key, severity) == [key |-> key, severity |-> severity]
Content(there, readable, findings, breaking) ==
  [there |-> there, readable |-> readable, findings |-> findings, breaking |-> breaking]
MCContents ==
  {Content(FALSE, FALSE, {}, {}), Content(TRUE, FALSE, {}, {}), Content(TRUE, TRUE, {}, {}),
   Content(TRUE, TRUE, {Unclean("w", "WARN")}, {Unclean("b", "ERROR")})}
MCBaseTree == [p \in Paths |-> IF p = 1 THEN "readable" ELSE "absent"]
MCRuleSets == {<<>>, <<[matches |-> {1, 2, 3}, owners |-> {"a"}], [matches |-> {1}, owners |-> {"b"}]>>}

(* The tools of an MCP server. *)

Tool(n, schema) == [name |-> n, schema |-> schema, object |-> TRUE, hints |-> {}, output |-> FALSE]
Find == Tool("find", "s")
Edit == [Tool("edit", "s") EXCEPT !.output = TRUE]
Send == Tool("send", "s")
Rewritten == [Tool("find", "t") EXCEPT !.hints = {"readOnlyHint"}]
MCManifests == {<<Find, Edit, Send>>}
MCSurfaces == {<<Find, Edit, Send>>, <<Edit, Send>>, <<Rewritten, Edit>>}
Listening == [discover |-> "ok", pageSize |-> 1, cacheFields |-> TRUE, auth |-> "open", where |-> "local",
              tls |-> TRUE]
MCServers ==
  {Listening, [Listening EXCEPT !.pageSize = 2, !.auth = "partial", !.where = "production"],
   [Listening EXCEPT !.pageSize = 5, !.auth = "deny", !.discover = "method-not-found"]}
MCGrades == [p \in {<<"s", "t">>, <<"t", "s">>} |-> "WARN"]
Well == [error |-> FALSE, leaks |-> FALSE, odd |-> FALSE, structured |-> "fits"]
MCReplies == {None, Well, [Well EXCEPT !.error = TRUE], [Well EXCEPT !.leaks = TRUE, !.structured = "none"],
              [Well EXCEPT !.odd = TRUE, !.structured = "misfit"]}
NoCall == [invoke |-> {}, execute |-> FALSE, allow |-> FALSE]
MCAsks == {NoCall, [NoCall EXCEPT !.invoke = {"edit"}, !.execute = TRUE]}

(* A small shop, what was recorded of it, and the commands over that. *)

Item == [required |-> {"id"}, properties |-> ("id" :> {"one", "two"}) @@ ("tag" :> {"x", "y", "personal"}),
         classified |-> {"tag"}]
Says(status, headers, content) == [status |-> status, headers |-> headers, content |-> content]
Route(method, path, responses) == [method |-> method, path |-> path, responses |-> responses]
AnItem == "json" :> Item
Silence == [media \in {} |-> Item]
MCOps == <<Route("GET", <<"items", Var>>, <<Says(200, {"etag"}, AnItem), Says(4, {}, Silence)>>),
           Route("GET", <<"items", "latest">>, <<Says(200, {}, AnItem)>>),
           Route("POST", <<"items">>, <<Says(201, {}, "any" :> Item), Says(0, {}, Silence)>>)>>
MCWas == MCOps \o <<Route("GET", <<"orders">>, <<Says(200, {}, AnItem)>>),
                    Route("DELETE", <<"items", Var>>, <<Says(204, {}, Silence)>>)>>
MCWildcards == "json" :> "any"

Seen(method, path, status, body, at) ==
  [method |-> method, path |-> path, status |-> status, mime |-> "json", headers |-> {"etag"},
   body |-> body, at |-> at]
Id == "id" :> "one"
Got(status, body, at) == Seen("GET", <<"items", "7">>, status, body, at)
MCCorpora ==
  ("clean" :> <<Got(200, Id, 1), Got(200, Id @@ ("tag" :> "x"), 4), Seen("GET", <<"items", "latest">>, 200, Id, 9)>>)
  @@ ("noisy" :> <<Got(200, "tag" :> "y", 2), Got(200, Id @@ ("new" :> "z"), 3), Got(200, "id" :> "three", 4),
                   Seen("PUT", <<"items">>, 200, None, 5), Seen(None, <<"items">>, 200, None, 6)>>)
  @@ ("burst" :> <<Got(200, Id, 1), Got(404, None, 4), Got(200, Id, 5), Got(200, Id, 6), Got(None, None, 7)>>)
  @@ ("undated" :> <<Got(200, "id" :> "credential", None), Got(500, Id, 3)>>)
  @@ ("unreadable" :> None)

Reply(status, body, headers) ==
  [status |-> status, mime |-> "json", body |-> body, headers |-> headers, exposed |-> {}]
MCBehaviours ==
  {<<Reply(200, Id @@ ("new" :> "personal"), {"etag"}), Reply(403, "id" :> "credential", {}),
     [Reply(201, None, {}) EXCEPT !.mime = None]>>,
   <<Reply(200, "tag" :> "personal", {}), Reply(404, None, {}), None>>,
   <<[Reply(404, None, {}) EXCEPT !.mime = "text", !.exposed = {"/"}], Reply(200, None, {}),
     [Reply(201, Id, {"etag"}) EXCEPT !.mime = "text", !.exposed = {"etag"}]>>}

Live == [corpus |-> None, against |-> None, bodies |-> TRUE, forbid |-> TRUE, samples |-> 1,
         save |-> None, baseline |-> None, json |-> TRUE, failOn |-> ""]
Recorded(c) == [Live EXCEPT !.corpus = c]
MCCommands ==
  {[Live EXCEPT !.save = "main"], [Live EXCEPT !.baseline = "main", !.forbid = FALSE],
   [Live EXCEPT !.save = "main", !.baseline = "main"],
   [Recorded("clean") EXCEPT !.baseline = "main", !.json = FALSE],
   [Recorded("noisy") EXCEPT !.baseline = "main", !.forbid = FALSE, !.failOn = "error"],
   [Recorded("noisy") EXCEPT !.save = "main", !.against = "clean"],
   [Recorded("noisy") EXCEPT !.against = "clean", !.bodies = FALSE],
   [Recorded("undated") EXCEPT !.failOn = "never", !.bodies = FALSE]}

Seconds(n) == [n |-> n, unit |-> "s"]
Allowed(op, max, window) == [op |-> op, max |-> max, window |-> window]
BudgetFile(limits, deny) == [parses |-> TRUE, version |-> 1, window |-> None, limits |-> limits, deny |-> deny]
KeyAt(i) == <<MCOps[i].method, MCOps[i].path>>
MCBudgets ==
  {BudgetFile(<<Allowed(KeyAt(1), 3, Seconds(2)), Allowed(KeyAt(3), 1, None)>>, FALSE),
   [BudgetFile(<<Allowed(KeyAt(1), 3, None), Allowed(KeyAt(2), 0, Seconds(1))>>, TRUE) EXCEPT !.window = Seconds(4)],
   BudgetFile(<<Allowed(KeyAt(1), 2, Seconds(2)), Allowed(<<"GET", <<"gone">>>>, 1, None)>>, FALSE),
   BudgetFile(<<Allowed(KeyAt(1), 5, None), Allowed(KeyAt(2), 1, None)>>, TRUE),
   [BudgetFile(<<Allowed(KeyAt(1), 3, Seconds(2))>>, FALSE) EXCEPT !.window = [n |-> 1, unit |-> "w"]],
   BudgetFile(<<Allowed(KeyAt(1), -1, Seconds(2))>>, FALSE)}

(* Two operations, measured four times each, and the loads to drive one with. *)

Of(outcome, ms) == [i \in 1..4 |-> [ms |-> ms[i], outcome |-> outcome[i]]]
All(outcome, ms) == Of(<<outcome, outcome, outcome, outcome>>, <<ms, ms, ms, ms>>)
Quick == Of(<<"ok", "ok", "ok", "ok">>, <<10, 11, 10, 12>>)
Flaky == Of(<<"ok", "error", "ok", "timeout">>, <<10, 2, 12, 50>>)
MCTargets ==
  { ("list" :> a) @@ ("get" :> b) :
      a \in {Quick, All("unreachable", 1)}, b \in {Quick, Flaky, All("timeout", 50), All("unreachable", 1)} }
NoObjectives == [op \in {} |-> None]
MCContractsMeasured ==
  {[ops |-> {"list", "get"}, objectives |-> NoObjectives],
   [ops |-> {"list", "get"}, objectives |-> "get" :> (("p95" :> 20) @@ ("window" :> 30) @@ ("p50" :> None))],
   [ops |-> {"list"}, objectives |-> "get" :> ("apdex" :> 1)]}
MCOlder ==
  {"get" :> [requests |-> 20, samples |-> 20, errors |-> 0, timeouts |-> 0, unreachable |-> 0,
             value |-> ("p95" :> 12) @@ ("error_rate" :> 0), ci |-> [p50 |-> None, p95 |-> None]]}
MCTolerances ==
  {<<>>, <<[metric |-> None, pct |-> 900], [metric |-> "p95", pct |-> 0]>>, <<[metric |-> None, pct |-> 900]>>,
   <<[metric |-> "apdex", pct |-> 1]>>}
MCPolicies == {{}, {[op |-> "get", metric |-> "error_rate", value |-> 30], [op |-> "list", metric |-> "p95", value |-> 30]}}
Profile(kind, from, to, poisson) ==
  [kind |-> kind, slots |-> 2, from |-> from, to |-> to, spike |-> 50, multiplier |-> IF kind = "spike" THEN 2 ELSE None,
   poisson |-> poisson]
MCProfiles ==
  {Profile("constant", 150, None, FALSE), Profile("ramp", 0, 200, FALSE), Profile("ramp", 100, None, FALSE),
   Profile("spike", 100, None, FALSE), Profile("soak", 100, None, TRUE)}

\* Sweeps of three levels, with one operation at every level and one that is left out of one.
SweptLevels == Loads!Levels({0, 4, 1, 2})
Sweeps3 == [1..3 -> [samples : {0, 5}, p95 : {0, 5, 10}, rps : {0, 10, 11, 20}]]
SweptAt(curve) ==
  [l \in Range(SweptLevels) |->
     LET i == CHOOSE j \in 1..3 : SweptLevels[j] = l
     IN IF i = 2 THEN "list" :> curve[i] ELSE ("list" :> curve[i]) @@ ("get" :> curve[i])]

\* performance/curve.py: a plateau is only named when a later level was measured,
\* so it is never the highest one swept, and no sweep is bound by its client.  What
\* is said to be rising rose from every level to the next that was measured.
ASSUME NoSweepIsClientBound ==
  \A measuredAt \in Sweeps3 :
    LET curves == Loads!MeasureCurve(SweptLevels, SweptAt(measuredAt))
    IN \A op \in DOMAIN curves :
         LET curve == curves[op]
             measured == { i \in DOMAIN curve.points : curve.points[i].samples > 0 }
         IN /\ curve.plateau # None => \E i \in measured : curve.points[i].level > curve.plateau
            /\ ~curve.clientBound /\ Loads!Summary(curve) # "client"
            /\ curve.knee # 1
            /\ Loads!Summary(curve) = "rising" =>
                 \A i, j \in measured :
                   (i < j /\ curve.points[i].rps > 0 /\ ~\E k \in measured : i < k /\ k < j)
                     => curve.points[j].rps > curve.points[i].rps

\* performance/slo.py: an objective is measured, or it is told why it is not.
ASSUME ObjectivesAreAccountedFor ==
  \A c \in MCContractsMeasured : \A o \in Loads!Objectives(c) :
    \/ o[2] \in Loads!Metrics /\ c.objectives[o[1]][o[2]] # None
    \/ \E f \in Loads!ObjectiveFindings(c) : f.op = o[1] /\ f.rule # "SLO-UNDECLARED"

(* Operations to derive requests for, and what may be behind them. *)

One == [t |-> "integer", n |-> 1]
Said(text) == [t |-> "string", s |-> text]
Number(bounds) == [p \in {<<>>} |-> [AnyNode EXCEPT !.type = "integer", !.bounds = bounds @@ NoBounds]]
Word(bounds) == [p \in {<<>>} |-> [AnyNode EXCEPT !.type = "string", !.bounds = bounds @@ NoBounds]]
WithFields(required, fields) ==
  [p \in {<<>>} |-> [AnyNode EXCEPT !.type = "object", !.required = required]]
  @@ [p \in { <<<<"properties", x>>>> : x \in DOMAIN fields } |-> fields[p[1][2]][<<>>]]
Words(bounds) == [p \in {<<>>} |-> [AnyNode EXCEPT !.type = "array", !.bounds = bounds @@ NoBounds]]
         @@ (<<<<"items", "">>>> :> Word("min_length" :> 2)[<<>>])
Choice == [Word("min_length" :> 1) EXCEPT ![<<>>].enum = {Said("x"), Said("secret")}]
ANumber == Number(NoBounds)
MCInterfaces ==
  {[params |-> ("limit" :> Number(("minimum" :> 1) @@ ("maximum" :> 3))) @@ ("name" :> Word("min_length" :> 2)),
    body |-> None, bodyRequired |-> FALSE, responses |-> ("200" :> ANumber) @@ ("default" :> None)],
   [params |-> "level" :> Number("exclusive_minimum" :> 0), bodyRequired |-> TRUE,
    body |-> WithFields({"a"}, ("a" :> Number("minimum" :> 1)) @@ ("b" :> Word("max_length" :> 2))
                               @@ ("c" :> Choice)),
    responses |-> "200" :> None],
   [params |-> [p \in {} |-> ANumber], bodyRequired |-> FALSE, body |-> Words("min_items" :> 2), responses |-> "default" :> ANumber]}
  \cup { [params |-> "limit" :> n, bodyRequired |-> FALSE, body |-> None, responses |-> "200" :> ANumber] :
           n \in {Number("maximum" :> 0), Number(("minimum" :> 3) @@ ("exclusive_minimum" :> 5)),
                  Word(("min_length" :> 0) @@ ("max_length" :> 0))} }
  \cup { [params |-> [p \in {} |-> ANumber], bodyRequired |-> TRUE, body |-> b, responses |-> "200" :> ANumber] :
           b \in {Words("min_items" :> 0), Words("max_items" :> 0), WithFields({}, [x \in {} |-> ANumber]), [p \in {<<>>} |-> AnyNode]} }
Honest == [guarded |-> FALSE, crashes |-> FALSE, answer |-> One]
MCServices ==
  {Honest, [Honest EXCEPT !.guarded = TRUE],
   [Honest EXCEPT !.answer = Said("odd"), !.crashes = TRUE]}
Plain == [generators |-> {}, credential |-> FALSE, allow |-> FALSE, minimize |-> FALSE]
MCRuns ==
  {Plain, [Plain EXCEPT !.generators = {"numeric", "pairwise"}],
   [Plain EXCEPT !.generators = {"unicode", "nesting"}, !.credential = TRUE, !.allow = TRUE],
   [Plain EXCEPT !.credential = TRUE, !.allow = TRUE, !.minimize = TRUE]}

(* Collections and operations of a contract with scopes, and services that keep them or not. *)

Kept(name, deletable) == [name |-> name, deletable |-> deletable]
MCCollections == {<<>>, <<Kept("orders", TRUE)>>, <<Kept("orders", TRUE), Kept("notes", FALSE)>>}
Requires(name, method, template, security) ==
  [name |-> name, method |-> method, template |-> template, security |-> security]
MCFunctions ==
  <<Requires("report", "GET", FALSE, None), Requires("purge", "DELETE", FALSE, {"admin"}),
    Requires("one", "GET", TRUE, {"read", "admin"}), Requires("health", "GET", FALSE, {})>>
MCGuards ==
  [open : {{}, {"GET"}, {"GET", "PATCH", "DELETE"}}, patch : BOOLEAN, id : BOOLEAN, scoped : BOOLEAN]

(* Two contracts, what they share, and two files a host serves. *)

To(kind, path, at) == [kind |-> kind, path |-> path, at |-> at]
InFile(path, at) == To("file", path, at)
Api == <<"svc", "api">>
Web == <<"web", "api">>
Order == <<"svc", "schemas", "order">>
Coin == <<"svc", "schemas", "money">>
Money == <<"shared", "money">>
Rates == <<"https://", "h", "rates">>
ATree ==
  (Api :> (("" :> <<InFile(<<"schemas", "order">>, "O"), InFile(<<"..", "shared", "money">>, "M"), To("here", <<>>, "Local"),
                    To("remote", Rates, "")>>) @@ ("Local" :> <<>>)))
  @@ (Web :> ("" :> <<InFile(<<"..", "shared", "money">>, "N"), To("absolute", <<"etc">>, "")>>))
  @@ (Order :> ("O" :> <<InFile(<<"money">>, "M"), InFile(<<"order">>, "O"), To("here", <<>>, "Local")>>))
  @@ (Coin :> ("M" :> <<InFile(<<"..", "..", "shared", "money">>, "M")>>))
  @@ (Money :> (("M" :> <<InFile(<<"party">>, "")>>) @@ ("L" :> <<>>)))
  @@ (<<"shared", "party">> :> ("P" :> <<InFile(<<"missing">>, "X")>>))
  @@ (Rates :> ("" :> <<InFile(<<"base">>, "B")>>))
  @@ (<<"https://", "h", "base">> :> ("B" :> <<>>))
MCDisks ==
  {ATree,
   [ATree EXCEPT ![Web][""] = <<InFile(<<"..", "svc", "api">>, ""), InFile(<<"..", "shared", "party">>, "P")>>],
   [ATree EXCEPT ![Api][""] = <<InFile(<<"..", "web", "api">>, ""), InFile(<<"..", "shared", "party">>, "Q")>>],
   [ATree EXCEPT ![Web] = None, ![Api][""] = <<InFile(<<"..", "shared", "money">>, "L")>>],
   [ATree EXCEPT ![Coin]["M"] = <<InFile(<<"coin">>, "C")>>] @@ (<<"svc", "schemas", "coin">> :> ("C" :> <<InFile(<<"money">>, "")>>)),
   [ATree EXCEPT ![Order] = ("O" :> <<InFile(<<"order">>, "P")>>) @@ ("P" :> <<InFile(<<"order">>, "Q")>>)
                            @@ ("Q" :> <<InFile(<<"order">>, "R")>>) @@ ("R" :> <<InFile(<<"money">>, "M")>>)],
   \* What an included file does not find beside itself lies beside the contract.
   [ATree EXCEPT ![Order]["O"] = <<InFile(<<"party">>, "P")>>] @@ (<<"svc", "party">> :> ("P" :> <<>>)),
   [ATree EXCEPT ![Api][""] = <<To("remote", Rates, "")>>] @@ (<<"svc", "base">> :> ("B" :> <<>>)),
   \* An included file refers back to the contract, in part or as a whole.
   [ATree EXCEPT ![Order]["O"] = <<InFile(<<"..", "api">>, "Local")>>],
   [ATree EXCEPT ![Order]["O"] = <<InFile(<<"..", "api">>, ""), InFile(<<"money">>, "M")>>]
     @@ (<<"svc", "money">> :> ("M" :> <<>>))}
MCRedone == {<<Order, "O" :> <<>>>>, <<Money, None>>, <<Money, "M" :> <<InFile(<<"..", "svc", "schemas", "order">>, "O")>>>>}
MCWalked == <<Api, Web>>
===============================================================================
