---------------------------- MODULE MCWorkflowRun -----------------------------
(* Two commands against the mock of a small shop. *)
EXTENDS WorkflowRun

CONSTANTS c1, c2

Op(method, path, status, schema) ==
  [method |-> method, path |-> path, status |-> status, schema |-> schema, example |-> << >>]
Order == {"id", "name", "state"}
Item == <<"orders", "{orderId}">>
MCOperations ==
  <<Op("POST", <<"orders">>, 201, Order), Op("GET", Item, 200, Order), Op("PATCH", Item, 200, Order),
    Op("DELETE", Item, 204, {}), Op("POST", Item \o <<"submit">>, 200, Order),
    Op("GET", <<"orders">>, 200, {"name"}), Op("POST", <<"token">>, 200, {"access", "token"}),
    Op("GET", <<"me">>, 200, {"name"}), Op("POST", <<"notes">>, 201, {"name"}), Op("GET", <<"notes", "{noteId}">>, 200, {"name"}),
    Op("PUT", <<"notes", "{noteId}">>, 200, {"name"}), Op("DELETE", <<"notes", "{noteId}">>, 204, {})>>
MCContract == Range(MCOperations) \cup {[method |-> "GET", path |-> <<"shops", "{b}", "orders", "{a}">>]}
MCTemplates == {"{orderId}", "{noteId}"}
MCPlaceholders == {"{id}", "{token}", "{access}", "{a}", "{b}"} \cup MCTemplates

\* A template, and manifests that are wrong, warned about, or stopped half way.
Create(v) == Extracting(Step("create", "POST", <<"orders">>, "name" :> "mine"), v, "id")
Delete(v) == Step("delete", "DELETE", <<"orders", v>>, << >>)
Read(v)   == Step("read", "GET", <<"orders", v>>, << >>)
Narrow ==
  [Manifest("narrow", {}, <<Create("{id}"), Step("update", "PATCH", <<"orders", "{id}">>, "name" :> "new")>>,
            <<Delete("{id}")>>) EXCEPT !.methods = {"GET", "POST", "DELETE"}]
Brief == Manifest("brief", {}, <<Create("{id}")>>, << >>)
MCManifests ==
  {Manifest("unordered", {}, <<Read("{id}"), Create("{id}")>>, <<Delete("{id}")>>),
   Manifest("undated", {}, <<Create("{id}"), Step("date", "PATCH", <<"orders", "{id}">>, "name" :> Unsendable)>>,
            <<Delete("{id}")>>),
   Manifest("untidy", {}, <<Create("{id}"), Read("{id}")>>, << >>),
   Manifest("again", {}, <<Create("{id}"), [Create("{id}") EXCEPT !.name = "more"]>>, <<Delete("{id}")>>),
   Narrow,
   Manifest("crossed", {"{a}", "{b}"}, <<Step("look", "GET", <<"shops", "{a}", "orders", "{b}">>, << >>)>>, << >>)}
Refused == AuthRefresh("{token}", "{access}")
MCAlone ==
  {ResourceLifecycle("orders", "{id}"), PaginationWalk("orders", 7), Refused}
  \cup {ModelBased(c) : c \in DiscoverCollections(Range(MCOperations))}

\* One command is given any of them, with and without the inputs they declare,
\* beside one that creates, fails a step for its method and deletes; the longest
\* template is beside one that only creates; the other templates and the
\* model-based runs are beside one refused for its inputs.
Supplied(w) == [v \in w.inputs |-> "1"]
Job(w, inputs) == [w |-> w, inputs |-> inputs]
MCJobs ==
  {(c1 :> Job(w, i) @@ c2 :> Job(Narrow, << >>)) :
     <<w, i>> \in UNION {{<<w, Supplied(w)>>, <<w, << >> >>} : w \in MCManifests}}
  \cup {(c1 :> Job(CrudLifecycle("orders", "{id}"), << >>) @@ c2 :> Job(Brief, << >>))}
  \cup {(c1 :> Job(w, Supplied(w)) @@ c2 :> Job(Refused, << >>)) : w \in MCAlone}

\* The texts above are as NothingUnfilled assumes them.
ASSUME MCPlainTexts == PlainTexts

\* The manifests above clean up as LeftoversExplained assumes it.
ASSUME MCCleanupsAim == CleanupsAim

\* A manifest written as Arazzo and read back is the manifest, but for what the
\* export reported and for paths whose names cross.
ASSUME ManifestsReadBack ==
  \A jobs \in MCJobs : \A c \in {c1, c2} : ReadsBack(jobs[c].w) /\ LossIsTold(jobs[c].w)
===============================================================================
