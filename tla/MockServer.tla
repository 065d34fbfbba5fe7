------------------------------ MODULE MockServer ------------------------------
(***************************************************************************)
(* What one request does to a mock server's state (apiverity/mock): the    *)
(* operators are the parts of the handler between which another handler    *)
(* thread may run.  A generated value is "gen" in every field of the       *)
(* schema: the generator is seeded, so two mocks generate alike.           *)
(***************************************************************************)
EXTENDS Integers, Sequences, FiniteSets, SequencesExt

CONSTANTS Templates,        \* the placeholders in the contract's path templates
          Operations,       \* [method, path, status, schema, example] in document order
          RateLimitAfter    \* the request after which 429 is answered

\* Nothing stored, nothing deleted, ids from 1.
FreshMock == [count |-> 0, next |-> 1, store |-> << >>, deleted |-> {}]

Merge(f, g) == [x \in DOMAIN f \cup DOMAIN g |-> IF x \in DOMAIN g THEN g[x] ELSE f[x]]
Without(f, k) == [x \in DOMAIN f \ {k} |-> f[x]]

\* First and last segment: the resource and the id, "" on a collection path.
Address(path) == <<path[1], IF Len(path) > 1 THEN Last(path) ELSE "">>

MatchesTemplate(template, path) ==
  /\ Len(template) = Len(path)
  /\ \A i \in DOMAIN path : template[i] \in Templates \/ template[i] = path[i]

\* The operation of exactly that path, else the first whose template fits: 0
\* when there is none.
OperationFor(method, path) ==
  LET fits == {i \in DOMAIN Operations : /\ Operations[i].method = method
                                         /\ MatchesTemplate(Operations[i].path, path)}
      same == {i \in fits : Operations[i].path = path}
      first(s) == CHOOSE i \in s : \A j \in s : i <= j
  IN  IF same # {} THEN first(same) ELSE IF fits # {} THEN first(fits) ELSE 0

Templated(op) == Range(op.path) \cap Templates # {}

IsGone(mock, method, op, path) ==
  method # "POST" /\ Templated(op) /\ Address(path) \in mock.deleted

\* What the handler answers before it touches the store: 0 to go on.
Refusal(mock, method, path) ==
  LET i == OperationFor(method, path)
  IN  IF mock.count > RateLimitAfter THEN 429
      ELSE IF i = 0 \/ (i # 0 /\ IsGone(mock, method, Operations[i], path)) THEN 404
      ELSE 0

\* A DELETE of an item of the template: it is stored no more, and 404 from now on.
Deleted(mock, method, op, path) ==
  IF method = "DELETE" /\ Templated(op)
  THEN [mock EXCEPT !.store = Without(@, Address(path)), !.deleted = @ \cup {Address(path)}]
  ELSE mock

\* A PATCH merges into the stored item it read and a PUT replaces it; the result is
\* written back whatever became of the item since, for the handler holds no lock.
Updates(mock, method, op, path) ==
  method \in {"PATCH", "PUT"} /\ Templated(op) /\ Address(path) \in DOMAIN mock.store

Updated(mock, method, path, body) ==
  Merge(Merge(IF method = "PATCH" THEN mock.store[Address(path)] ELSE << >>, body), [id |-> Address(path)[2]])

WriteBack(mock, path, item) == [mock EXCEPT !.store = Merge(@, [k \in {Address(path)} |-> item])]

\* The three with nothing in between.
ApplyState(mock, method, op, path, body) ==
  IF Updates(mock, method, op, path) THEN WriteBack(mock, path, Updated(mock, method, path, body))
  ELSE Deleted(mock, method, op, path)

Generated(op) == [f \in op.schema |-> "gen"]

\* A POST that declares a body and no example stores what it answers.
Creates(method, op) == method = "POST" /\ op.example = << >> /\ op.schema # {}

NewItem(op, body, id) ==
  IF body = << >> THEN Merge([id |-> id], Generated(op))
  ELSE Merge(Merge(Generated(op), body), [id |-> id])

\* Mutant: the next id is counted from what is stored.
StoreNew_ByCount(mock, op, path, body, id) ==
  LET store == Merge(mock.store, [k \in {<<path[1], id>>} |-> NewItem(op, body, id)])
  IN  [mock EXCEPT !.store = store, !.deleted = @ \ {<<path[1], id>>},
                   !.next = 1 + Cardinality(DOMAIN store)]

\* The id was read before; the counter moves by one from where it is now.
StoreNew(mock, op, path, body, id) ==
  LET at == <<path[1], id>>
  IN  [mock EXCEPT !.next = @ + 1, !.deleted = @ \ {at},
                   !.store = Merge(@, [k \in {at} |-> NewItem(op, body, id)])]

BuildBody(mock, method, op, path) ==
  IF op.example # << >> THEN op.example
  ELSE IF op.schema = {} THEN << >>
  ELSE IF method \in {"GET", "PATCH", "PUT"} /\ Templated(op) /\ Address(path) \in DOMAIN mock.store
    THEN mock.store[Address(path)]
  ELSE Generated(op)

\* One whole request with nothing in between.
Serve(mock, method, path, body) ==
  LET counted == [mock EXCEPT !.count = @ + 1]
  IN  IF Refusal(counted, method, path) # 0 THEN counted
      ELSE LET op == Operations[OperationFor(method, path)]
               applied == ApplyState(counted, method, op, path, body)
           IN  IF Creates(method, op) THEN StoreNew(applied, op, path, body, ToString(applied.next))
               ELSE applied
===============================================================================
