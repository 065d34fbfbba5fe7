------------------------------ MODULE Observed ------------------------------
(***************************************************************************)
(* What recorded traffic says: against the contract                        *)
(* (runtime/corpus_drift.py), against earlier traffic                      *)
(* (runtime/semantic.py), against a call budget (rules/budget.py), and     *)
(* which routes a contract dropped and a server kept (runtime/ghosts.py).  *)
(*                                                                         *)
(* A path is a sequence of segments, a template has Var where a parameter  *)
(* stands; a body is its fields with their values.                         *)
(***************************************************************************)
EXTENDS Integers, Sequences, FiniteSets

CONSTANTS Var,         \* a path parameter
          None,
          JsonTypes,   \* media types that fall back to a declared JSON type
          Wildcards,   \* media type -> the declared range it belongs to
          SafeMethods,
          ValueCap     \* distinct values a profile keeps

\* The element of a nonempty set of numbers that no other exceeds.
Most(S) == CHOOSE x \in S : \A y \in S : y <= x
Least(S) == CHOOSE x \in S : \A y \in S : x <= y

-----------------------------------------------------------------------------
(* Which operation and which response an entry belongs to. *)

Fits(template, path) ==
  /\ Len(template) = Len(path)
  /\ \A i \in DOMAIN path : template[i] = Var \/ template[i] = path[i]

Literals(template) == Cardinality({ i \in DOMAIN template : template[i] # Var })

\* The literal path wins, then the template with the most literal segments, then the first.
MatchOperation(ops, method, path) ==
  LET sameMethod == { i \in DOMAIN ops : ops[i].method = method }
      exact == { i \in sameMethod : ops[i].path = path }
      fitting == { i \in sameMethod : Fits(ops[i].path, path) }
      best == { i \in fitting : \A j \in fitting : Literals(ops[j].path) <= Literals(ops[i].path) }
  IN CASE exact # {} -> ops[Least(exact)]
       [] exact = {} /\ best # {} -> ops[Least(best)]
       [] OTHER -> None

\* The exact status, else its range, else the default.
SelectResponse(op, status) ==
  LET R == op.responses
      Of(codes) == { i \in DOMAIN R : R[i].status \in codes }
      ranked == <<Of({status}), Of({status \div 100}), Of({0})>>
      found == { k \in 1..3 : ranked[k] # {} }
  IN IF found = {} THEN None ELSE R[Least(ranked[Least(found)])]

\* The media type returned, else a JSON type for a JSON type, else its range.
SelectSchema(response, mime) ==
  LET declared == DOMAIN response.content
      json == declared \cap JsonTypes
      range == { m \in declared : mime \in DOMAIN Wildcards /\ Wildcards[mime] = m }
  IN CASE mime \in declared -> response.content[mime]
       [] mime \notin declared /\ mime \in JsonTypes /\ json # {} -> response.content[CHOOSE m \in json : TRUE]
       [] mime \notin declared /\ ~(mime \in JsonTypes /\ json # {}) /\ range # {} ->
            response.content[CHOOSE m \in range : TRUE]
       [] OTHER -> None

-----------------------------------------------------------------------------
(* Drift of a corpus. *)

\* What one body gets wrong.
Problems(schema, body, forbid) ==
  { <<"DRIFT-MISSING-FIELD", f>> : f \in schema.required \ DOMAIN body }
  \cup { <<"DRIFT-UNDECLARED-FIELD", f>> :
           f \in IF forbid THEN DOMAIN body \ DOMAIN schema.properties ELSE {} }
  \cup { <<"DRIFT-SCHEMA", f>> :
           f \in { g \in DOMAIN body \cap DOMAIN schema.properties : body[g] \notin schema.properties[g] } }

Leaks(body) == { f \in DOMAIN body : body[f] = "credential" }

\* What looks like a person's, where no schema of that answer says it may be.
Unclassified(op, status, body) ==
  { f \in DOMAIN body : body[f] = "personal" }
  \ UNION { UNION { R.content[m].classified : m \in DOMAIN R.content } :
              R \in { op.responses[i] : i \in { j \in DOMAIN op.responses :
                                               op.responses[j].status \in {status, 0} } } }

\* The drift of one matched entry: <<rule, what, severity>>.
EntryDrift(op, entry, forbid) ==
  LET declared == SelectResponse(op, entry.status)
      schema == SelectSchema(declared, entry.mime)
      read == entry.body # None
  IN IF declared = None THEN {<<"DRIFT-STATUS", entry.status, "WARN">>}
     ELSE (IF DOMAIN declared.content # {} /\ schema = None
           THEN {<<"DRIFT-CONTENT-TYPE", 0, "WARN">>} ELSE {})
          \cup { <<"DRIFT-RESPONSE-CREDENTIAL", f, "ERROR">> : f \in IF read THEN Leaks(entry.body) ELSE {} }
          \cup { <<p[1], p[2], "WARN">> :
                   p \in IF read /\ schema # None THEN Problems(schema, entry.body, forbid) ELSE {} }
          \cup { <<"DRIFT-HEADER", h, "WARN">> : h \in declared.headers \ entry.headers }

Malformed(entry) == entry.method = None \/ entry.path = None \/ entry.status = None

Matched(ops, entries) ==
  { i \in DOMAIN entries : /\ ~Malformed(entries[i])
                           /\ MatchOperation(ops, entries[i].method, entries[i].path) # None }

KeyOf(op) == <<op.method, op.path>>

OperationOf(ops, entry) == MatchOperation(ops, entry.method, entry.path)

EntriesOf(ops, entries, key) ==
  { i \in Matched(ops, entries) : KeyOf(OperationOf(ops, entries[i])) = key }

\* Equal findings of one operation are one finding with a count.
AnalyzeCorpus(ops, entries, forbid) ==
  LET drift == [i \in Matched(ops, entries) |-> EntryDrift(OperationOf(ops, entries[i]), entries[i], forbid)]
      key == [i \in Matched(ops, entries) |-> KeyOf(OperationOf(ops, entries[i]))]
      found == UNION { { <<key[i], d>> : d \in drift[i] } : i \in Matched(ops, entries) }
  IN { [op |-> p[1], rule |-> p[2][1], what |-> p[2][2], severity |-> p[2][3],
        occurrences  |-> Cardinality({ i \in DOMAIN key : key[i] = p[1] /\ p[2] \in drift[i] }),
        observations |-> Cardinality({ i \in DOMAIN key : key[i] = p[1] })] : p \in found }

\* Always so, or almost never.
Systematic(f) == f.observations > 0 /\ 10 * f.occurrences >= 9 * f.observations
OneOff(f) == f.observations > 0 /\ 10 * f.occurrences <= f.observations

\* What the corpus could not say.
Quality(ops, entries) ==
  LET malformed == { i \in DOMAIN entries : Malformed(entries[i]) }
      matched == Matched(ops, entries)
  IN [entries |-> Len(entries), analysed |-> Cardinality(matched),
      malformed |-> Cardinality(malformed),
      unmatched |-> Cardinality(DOMAIN entries \ (malformed \cup matched)),
      unmatchedPaths |-> { <<entries[i].method, entries[i].path>> :
                             i \in DOMAIN entries \ (malformed \cup matched) },
      uncovered |-> { KeyOf(ops[i]) : i \in DOMAIN ops }
                    \ { KeyOf(OperationOf(ops, entries[i])) : i \in matched }]

-----------------------------------------------------------------------------
(* Behaviour against earlier behaviour. *)

\* What one field did in the responses of one operation.
FieldProfile(entries, of, f) ==
  LET carrying == { i \in of : entries[i].body # None /\ f \in DOMAIN entries[i].body }
      values == { entries[i].body[f] : i \in carrying } \ {"null"}
  IN [observations |-> Cardinality(of), present |-> Cardinality(carrying),
      nulls |-> Cardinality({ i \in carrying : entries[i].body[f] = "null" }),
      unbounded |-> Cardinality(values) > ValueCap,
      values |-> IF Cardinality(values) > ValueCap THEN {} ELSE values]

FieldsOf(entries, of) == UNION { IF entries[i].body = None THEN {} ELSE DOMAIN entries[i].body : i \in of }

Often(p) == p.observations > 0 /\ 10 * p.present >= 9 * p.observations
Never(p) == p.present = 0

CompareField(old, new) ==
  (IF Often(old) /\ Never(new) THEN {<<"SEMANTIC-FIELD-ABANDONED", "ERROR">>}
   ELSE IF Often(old) /\ 20 * new.present < 13 * new.observations
   THEN {<<"SEMANTIC-FIELD-INTERMITTENT", "WARN">>}
   ELSE IF Never(old) /\ Often(new) THEN {<<"SEMANTIC-FIELD-APPEARED", "INFO">>} ELSE {})
  \cup (IF /\ old.present > 0 /\ new.present > 0
           /\ 4 * (new.nulls * old.present - old.nulls * new.present) >= old.present * new.present
        THEN {<<"SEMANTIC-NULL-RATE-ROSE", "WARN">>} ELSE {})
  \cup (IF old.values # {} /\ new.values # {} /\ old.values \ new.values # {}
        THEN {<<"SEMANTIC-VALUE-GONE", "WARN">>} ELSE {})
  \cup (IF old.values # {} /\ new.values # {} /\ new.values \ old.values # {}
        THEN {<<"SEMANTIC-VALUE-NEW", "WARN">>} ELSE {})

\* Operations both corpora saw often enough.
Comparable(ops, before, after, minSamples) ==
  { k \in { KeyOf(ops[i]) : i \in DOMAIN ops } :
      /\ EntriesOf(ops, before, k) # {} /\ EntriesOf(ops, after, k) # {}
      /\ Cardinality(EntriesOf(ops, before, k)) >= minSamples
      /\ Cardinality(EntriesOf(ops, after, k)) >= minSamples }

CompareProfiles(ops, before, after, minSamples) ==
  UNION { LET old == EntriesOf(ops, before, k) new == EntriesOf(ops, after, k)
              fields == FieldsOf(before, old) \cup FieldsOf(after, new)
          IN UNION { { [op |-> k, field |-> f, rule |-> c[1], severity |-> c[2]] :
                         c \in CompareField(FieldProfile(before, old, f), FieldProfile(after, new, f)) }
                     : f \in fields }
          : k \in Comparable(ops, before, after, minSamples) }

-----------------------------------------------------------------------------
(* The call budget.  A budget file is [parses, version, window, limits, deny]; its *)
(* limits are [op, max, window], a window is [n, unit] or None.                  *)

UnitSeconds ==
  [u \in {"s", "m", "h", "d"} |-> CASE u = "s" -> 1 [] u = "m" -> 60 [] u = "h" -> 3600 [] OTHER -> 86400]

ParseWindow(text) == IF text.unit \in DOMAIN UnitSeconds THEN text.n * UnitSeconds[text.unit] ELSE None

DefaultWindow(file) == ParseWindow(IF file.window = None THEN [n |-> 1, unit |-> "h"] ELSE file.window)

WindowOf(file, limit) == IF limit.window = None THEN DefaultWindow(file) ELSE ParseWindow(limit.window)

\* load_budget: None when the file is refused.
LoadBudget(file) ==
  IF \/ ~file.parses \/ file.version # 1 \/ DefaultWindow(file) = None
     \/ \E i \in DOMAIN file.limits : \/ file.limits[i].max \notin Nat
                                      \/ WindowOf(file, file.limits[i]) = None
  THEN None
  ELSE [deny |-> file.deny,
        limits |-> { [file.limits[i] EXCEPT !.window = WindowOf(file, file.limits[i])] :
                       i \in DOMAIN file.limits }]

\* Mutant: windows that do not overlap.
BusiestWindow_Fixed(instants, window) ==
  IF DOMAIN instants = {} THEN 0
  ELSE Most({ Cardinality({ i \in DOMAIN instants :
                              instants[i] \div (window + 1) = instants[e] \div (window + 1) })
              : e \in DOMAIN instants })

\* The most calls in a window that ends with a call: a burst across a boundary counts.
BusiestWindow(instants, window) ==
  IF DOMAIN instants = {} THEN 0
  ELSE Most({ Cardinality({ i \in DOMAIN instants :
                              instants[i] <= instants[e] /\ instants[e] - instants[i] <= window })
              : e \in DOMAIN instants })

\* When the calls of an operation were made that say when.
Instants(calls, op) == [i \in { j \in DOMAIN calls : calls[j].op = op /\ calls[j].at # None } |-> calls[i].at]

Total(calls, op) == Cardinality({ i \in DOMAIN calls : calls[i].op = op })

BudgetFinding(rule, severity, op) == [rule |-> rule, severity |-> severity, op |-> op]

\* One limit over the calls seen.
LimitFindings(limit, calls) ==
  LET total == Total(calls, limit.op)
  IN CASE total = 0 -> {BudgetFinding("BUDGET-UNUSED", "INFO", limit.op)}
       [] total > 0 /\ limit.max = 0 -> {BudgetFinding("BUDGET-FORBIDDEN", "ERROR", limit.op)}
       [] OTHER ->
            (IF BusiestWindow(Instants(calls, limit.op), limit.window) > limit.max
             THEN {BudgetFinding("BUDGET-EXCEEDED", "ERROR", limit.op)} ELSE {})
            \cup (IF Cardinality(DOMAIN Instants(calls, limit.op)) < total
                  THEN {BudgetFinding("BUDGET-UNDATED-CALLS", "WARN", limit.op)} ELSE {})

EvaluateBudget(budget, calls, declared) ==
  { BudgetFinding("BUDGET-OPERATION-UNKNOWN", "ERROR", l.op) :
      l \in { m \in budget.limits : declared # None /\ m.op \notin declared } }
  \cup (UNION { LimitFindings(l, calls) : l \in budget.limits })
  \cup { BudgetFinding("BUDGET-UNBUDGETED", IF budget.deny THEN "ERROR" ELSE "INFO", op) :
           op \in { calls[i].op : i \in DOMAIN calls } \ { l.op : l \in budget.limits } }

\* What was asked of an operation, answered or not.
Called(ops, entries) ==
  { i \in DOMAIN entries : /\ entries[i].method # None /\ entries[i].path # None
                           /\ OperationOf(ops, entries[i]) # None }

\* A HAR names no operation: its calls are those a contract's operations match.
CallsOf(ops, entries) ==
  [i \in Called(ops, entries) |-> [op |-> KeyOf(OperationOf(ops, entries[i])), at |-> entries[i].at]]

-----------------------------------------------------------------------------
(* Routes the contract dropped. *)

RemovedOperations(old, new) == { KeyOf(old[i]) : i \in DOMAIN old } \ { KeyOf(new[i]) : i \in DOMAIN new }

\* What one candidate is reported as, given the status it answered (None: no answer).
GhostFinding(candidate, status) ==
  LET Report(rule, severity) == [op |-> candidate, rule |-> rule, severity |-> severity]
  IN CASE candidate[1] \notin SafeMethods -> Report("GHOST-NOT-PROBED", "INFO")
       [] candidate[1] \in SafeMethods /\ status = None -> Report("GHOST-UNREACHABLE", "INFO")
       [] candidate[1] \in SafeMethods /\ status \in {404, 410} -> Report("GHOST-GONE", "INFO")
       [] candidate[1] \in SafeMethods /\ status = 405 -> Report("GHOST-PATH-ALIVE", "WARN")
       [] OTHER -> Report("GHOST-ROUTE", "ERROR")
=============================================================================
