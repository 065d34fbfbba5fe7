------------------------------- MODULE Lifecycle -------------------------------
(* rules/lifecycle.py and rules/migration.py: what an operation says about its *)
(* retirement.  An operation has `deprecated`, `guided` (its description tells *)
(* what to do instead), `plan` (what its extensions say, the structured block  *)
(* before the flat ones: each [announced, sunset, guide, impact], None where   *)
(* it is silent) and `retirement` (the response headers: header -> how its     *)
(* schema declares it, with an example).  A day may be written as NotADate.    *)
EXTENDS ProjectFiles, FiniteSetsExt

First(said, silence) ==
  LET at == {i \in DOMAIN said : said[i] \notin silence} IN IF at = {} THEN None ELSE said[Min(at)]

\* deprecation_of: what is written first, whether it can be read or not.
Deprecation(op) ==
  [field \in {"announced", "sunset", "guide", "impact"} |->
     First([i \in DOMAIN op.plan |-> op.plan[i][field]], {None})]

\* Mutant: a date that cannot be read hides those written elsewhere.
DeclaredDate_Hidden(op, field, header) ==
  IF Deprecation(op)[field] = NotADate THEN None ELSE Deprecation(op)[field]

\* The first of the places a date is written in that can be read as one; of the
\* extensions only the flat ones are read again.
DeclaredDate(op, field, header) ==
  First(<<Deprecation(op)[field]>> \o [i \in 1..(Len(op.plan) - 1) |-> op.plan[i + 1][field]]
          \o (IF header \in DOMAIN op.retirement THEN <<op.retirement[header].example>> ELSE <<>>),
        {None, NotADate})

HasGuidance(op) == op.guided \/ Deprecation(op).guide # None \/ Deprecation(op).impact # None

\* A declared header whose shape its RFC does not define.
BadHeaderShape(header, shape) ==
  \/ header = "sunset" /\ shape \in {"number", "date-time"}
  \/ header = "deprecation" /\ shape = "date-time"
  \/ shape \notin {"http-date", "structured-date", "number", "date-time"}

\* The rules one operation breaks today.
LifecycleRules(op, today) ==
  LET sunset == DeclaredDate(op, "sunset", "sunset")
      announced == DeclaredDate(op, "announced", "deprecation")
      retires == sunset # None
      announcesSunset == "sunset" \in DOMAIN op.retirement \/ retires
  IN { r \in {"LIFECYCLE-DEPRECATED-NO-SUNSET", "LIFECYCLE-DEPRECATED-NO-GUIDANCE",
              "LIFECYCLE-SUNSET-WITHOUT-DEPRECATION", "LIFECYCLE-SUNSET-PASSED",
              "LIFECYCLE-SUNSET-BEFORE-DEPRECATION", "LIFECYCLE-HEADER-SHAPE"} :
         CASE r = "LIFECYCLE-DEPRECATED-NO-SUNSET" -> op.deprecated /\ ~announcesSunset
           [] r = "LIFECYCLE-DEPRECATED-NO-GUIDANCE" -> op.deprecated /\ ~HasGuidance(op)
           [] r = "LIFECYCLE-SUNSET-WITHOUT-DEPRECATION" -> ~op.deprecated /\ announcesSunset
           [] r = "LIFECYCLE-SUNSET-PASSED" -> retires /\ sunset < today
           [] r = "LIFECYCLE-SUNSET-BEFORE-DEPRECATION" ->
                retires /\ announced # None /\ sunset < announced
           [] OTHER -> \E h \in DOMAIN op.retirement : BadHeaderShape(h, op.retirement[h].shape) }

LifecycleSeverity(rule) ==
  CASE rule \in {"LIFECYCLE-SUNSET-PASSED", "LIFECYCLE-SUNSET-BEFORE-DEPRECATION"} -> "ERROR"
    [] rule = "LIFECYCLE-DEPRECATED-NO-GUIDANCE" -> "INFO"
    [] OTHER -> "WARN"

\* run_lifecycle_checks
LifecycleFindings(contract, today) ==
  UNION { { [rule |-> r, severity |-> LifecycleSeverity(r), op |-> k, about |-> None] :
              r \in LifecycleRules(contract.ops[k], today) } : k \in DOMAIN contract.ops }

=============================================================================
