------------------------------ MODULE Workflows -------------------------------
(***************************************************************************)
(* The workflow manifest: its variables, the check of the manifest as a    *)
(* graph that runs before anything is sent, the four built-in templates    *)
(* and the transitions a contract's collections are driven through         *)
(* (apiverity/stateful).                                                   *)
(*                                                                         *)
(* A text is one string; a text that refers to a variable is that          *)
(* variable's placeholder (a member of Placeholders), so a variable table  *)
(* maps placeholders to texts.  A path is its sequence of segments; bodies *)
(* and headers map fields to texts, and a missing body is the empty map.   *)
(***************************************************************************)
EXTENDS Integers, Sequences, FiniteSets, SequencesExt

CONSTANT Placeholders       \* the texts "{name}"

Destructive == {"POST", "PUT", "PATCH", "DELETE"}
AllMethods == {"GET", "POST", "PUT", "PATCH", "DELETE", "HEAD"}

\* A value JSON cannot carry, such as the date an unquoted 2026-01-01 becomes.
Unsendable == "2026-01-01"

Step(name, method, path, body) ==
  [name |-> name, method |-> method, path |-> path, body |-> body,
   header |-> << >>, extract |-> << >>, status |-> {}, asserts |-> << >>]
Manifest(name, inputs, steps, cleanup) ==
  [name |-> name, inputs |-> inputs, methods |-> AllMethods,
   steps |-> steps, cleanup |-> cleanup]

(* ------------------------------- variables ------------------------------- *)

Substitute(text, vars) == IF text \in DOMAIN vars THEN vars[text] ELSE text
DeepSubstitute(f, vars) == [i \in DOMAIN f |-> Substitute(f[i], vars)]
VariablesIn(f) == Range(f) \cap Placeholders
Used(step) == VariablesIn(step.path) \cup VariablesIn(step.body) \cup VariablesIn(step.header)

MissingInputs(w, inputs) == w.inputs \ DOMAIN inputs

(* ----------------------- the manifest as a graph ------------------------- *)

DuplicateSteps(w) ==
  {i \in DOMAIN w.steps : \E j \in 1..(i - 1) : w.steps[j].name = w.steps[i].name}

\* Mutant: the order of the steps is forgotten.
Available_Any(w, i) == w.inputs \cup UNION {DOMAIN s.extract : s \in Range(w.steps)}

Available(w, i) == w.inputs \cup UNION {DOMAIN w.steps[j].extract : j \in 1..(i - 1)}
MissingVariables(w) == {i \in DOMAIN w.steps : ~ (Used(w.steps[i]) \subseteq Available(w, i))}

ExtractedBy(w) ==
  UNION {DOMAIN w.steps[i].extract : i \in {j \in DOMAIN w.steps : w.steps[j].method \in Destructive}}
Addressed(w) ==
  UNION {VariablesIn(s.path) : s \in Range(w.steps) \cup Range(w.cleanup)}
DeleteVars(w) ==
  UNION {VariablesIn(s.path) : s \in {c \in Range(w.cleanup) : c.method = "DELETE"}}

IncompleteCleanup(w) == (ExtractedBy(w) \cap Addressed(w)) \ DeleteVars(w)
UnknownCleanup(w) == DeleteVars(w) \ (ExtractedBy(w) \cup w.inputs)

\* What the command refuses to run: an input it was given counts as declared.
GraphIsSound(w) ==
  /\ DuplicateSteps(w) = {}
  /\ MissingVariables(w) = {}
  /\ UnknownCleanup(w) = {}
Preflight(w, inputs) == GraphIsSound([w EXCEPT !.inputs = @ \cup DOMAIN inputs])


(* ------------------------------- templates ------------------------------- *)

WithStatus(step, codes) == [step EXCEPT !.status = codes]
Extracting(step, var, field) == [step EXCEPT !.extract = (var :> field)]
Asserting(step, field, value) == [step EXCEPT !.asserts = (field :> value)]

CrudLifecycle(collection, var) ==
  LET item == <<collection, var>>
  IN  Manifest("crud-lifecycle", {},
        <<Extracting(WithStatus(Step("create", "POST", <<collection>>, "name" :> "verity"), {200, 201}), var, "id"),
          WithStatus(Step("read", "GET", item, << >>), {200}),
          WithStatus(Step("update", "PATCH", item, "name" :> "updated"), {200})>>,
        <<WithStatus(Step("delete", "DELETE", item, << >>), {200, 202, 204, 404})>>)

PaginationWalk(collection, pages) ==
  Manifest("pagination-walk", {},
    [p \in 1..pages |-> WithStatus(Step("page-" \o ToString(p), "GET", <<collection>>, << >>), {200})], << >>)

AuthRefresh(refresh, access) ==
  Manifest("auth-refresh", {refresh},
    <<Extracting(WithStatus(Step("refresh", "POST", <<"token">>, "secret" :> refresh), {200}), access, "access"),
      [WithStatus(Step("authenticated-call", "GET", <<"me">>, << >>), {200})
         EXCEPT !.header = ("authorization" :> access)]>>, << >>)

ResourceLifecycle(resource, var) ==
  LET item == <<resource, var>>
  IN  Manifest("resource-lifecycle", {},
        <<Extracting(WithStatus(Step("create-order", "POST", <<resource>>, "state" :> "draft"), {201}), var, "id"),
          WithStatus(Step("submit", "POST", item \o <<"submit">>, << >>), {200}),
          Asserting(WithStatus(Step("verify-terminal", "GET", item, << >>), {200}), "state", "submitted")>>,
        <<WithStatus(Step("cancel-cleanup", "DELETE", item, << >>), {200, 204, 404})>>)

(* -------------------------- collections to drive ------------------------- *)

\* ops are the contract's operations: [method, path, ...] with path templates.
Declares(ops, method, path) == \E o \in ops : o.method = method /\ o.path = path
IsItemPath(path) == Len(path) > 1 /\ Last(path) \in Placeholders

\* A path with a POST and a sibling {id} path with a GET.
DiscoverCollections(ops) ==
  {[path |-> Front(o.path), item |-> o.path,
    update |-> IF Declares(ops, "PATCH", o.path) THEN "PATCH"
               ELSE IF Declares(ops, "PUT", o.path) THEN "PUT" ELSE "none",
    deletable |-> Declares(ops, "DELETE", o.path)] :
     o \in {i \in ops : /\ i.method = "GET" /\ IsItemPath(i.path)
                        /\ Declares(ops, "POST", Front(i.path))}}

\* The run over one collection: each transition from the state the one before
\* it leads to, the body sent on POST and PATCH, no cleanup after it.
Transitions(c) ==
  LET item == <<c.path[1], Last(c.item)>>
      create == Extracting(WithStatus(Step("create", "POST", c.path, "name" :> "model"), {200, 201}),
                           Last(c.item), "id")
      read   == WithStatus(Step("read", "GET", item, << >>), {200})
      update == WithStatus(Step("update", c.update, item,
                                IF c.update = "PATCH" THEN "name" :> "model-v2" ELSE << >>), {200})
      again  == Asserting(WithStatus(Step("read-after-update", "GET", item, << >>), {200}), "name", "model-v2")
      delete == WithStatus(Step("delete", "DELETE", item, << >>), {200, 202, 204})
      gone   == WithStatus(Step("read-deleted", "GET", item, << >>), {404, 410})
  IN  <<create, read>> \o (IF c.update = "none" THEN << >> ELSE <<update, again>>)
                       \o (IF c.deletable THEN <<delete, gone>> ELSE << >>)
ModelBased(c) == Manifest("model-based", {}, Transitions(c), << >>)

===============================================================================
