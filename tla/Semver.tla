-------------------------------- MODULE Semver --------------------------------
(* rules/semver.py: what version the changes ask for, and whether the version *)
(* that was declared will do.  A version is <<major, minor, micro>>, or       *)
(* Unparseable.  A finding has at least a rule and a severity.              *)
EXTENDS Naturals, Sequences

CONSTANT Unparseable   \* a version that is not one

Before(v, w) ==
  \/ v[1] < w[1]
  \/ v[1] = w[1] /\ v[2] < w[2]
  \/ v[1] = w[1] /\ v[2] = w[2] /\ v[3] < w[3]

Severe(findings, severity) == { f \in findings : f.severity = severity }

\* Mutant: a minor release resets nothing and moves the last place.
Bump_Micro(v, kind) ==
  IF kind = "major" THEN <<v[1] + 1, 0, 0>> ELSE <<v[1], v[2], v[3] + 1>>

Bump(v, kind) ==
  CASE kind = "major" -> <<v[1] + 1, 0, 0>>
    [] kind = "minor" -> <<v[1], v[2] + 1, 0>>
    [] kind = "patch" -> <<v[1], v[2], v[3] + 1>>
    [] OTHER -> v

Satisfies(old, declared, kind) ==
  CASE kind = "major" -> declared[1] > old[1]
    [] kind = "minor" -> declared[1] > old[1] \/ declared[2] > old[2]
    [] OTHER -> Before(old, declared)

AdditiveKinds == {"OPERATION_ADDED", "RPC_ADDED", "PARAMETER_ADDED", "RESPONSE_ADDED",
                  "HEADER_ADDED", "DEPRECATION_ADDED", "FIELD_ADDED", "ARGUMENT_ADDED"}

\* Warnings ask for a minor release whether or not the policy insists on one.
RequiredBump(findings, changes) ==
  LET risky == Severe(findings, "WARN") # {}
      additive == \E c \in changes : c.kind \in AdditiveKinds
  IN IF Severe(findings, "ERROR") # {} THEN "major"
     ELSE IF findings = {} /\ changes = {} THEN "none"
     ELSE IF risky \/ additive THEN "minor" ELSE "patch"

\* suggest_bump: the bump, the version it lands on, and whether the declared one will do.
Advice(old, declared, findings, changes) ==
  LET kind == RequiredBump(findings, changes)
  IN [bump |-> kind,
      version |-> IF old = Unparseable THEN Unparseable ELSE Bump(old, kind),
      satisfied |-> \/ kind = "none"
                    \/ Unparseable \notin {old, declared} /\ Satisfies(old, declared, kind)]

\* SemverPolicy.evaluate
SemverFindings(old, new, findings, changes, minorForWarnings) ==
  LET Says(rule, severity) == {[rule |-> rule, severity |-> severity, op |-> "", about |-> ""]}
      majorUp == new[1] > old[1]
      minorUp == new[2] > old[2]
  IN IF Unparseable \in {old, new} THEN Says("SEMVER-UNPARSEABLE", "WARN")
     ELSE IF Before(new, old) THEN Says("SEMVER-DECREASE", "ERROR")
     ELSE IF Severe(findings, "ERROR") # {} /\ ~majorUp THEN Says("SEMVER-MAJOR-REQUIRED", "ERROR")
     ELSE IF minorForWarnings /\ Severe(findings, "WARN") # {} /\ ~(minorUp \/ majorUp)
          THEN Says("SEMVER-MINOR-REQUIRED", "WARN")
     ELSE IF findings \cup changes # {} /\ ~Before(old, new) THEN Says("SEMVER-NO-BUMP", "WARN")
     ELSE {}
=============================================================================
