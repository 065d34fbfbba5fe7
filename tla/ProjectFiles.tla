----------------------------- MODULE ProjectFiles -----------------------------
(* The two files by which a project answers its findings.                     *)
(*                                                                            *)
(* rules/suppressions.py: which findings the suppressions file takes out of a *)
(* run.  An entry is [rule, op, owner, reason, approver, expires]: op is None *)
(* when it names no operation; owner, reason and approver say whether the     *)
(* field is filled in; expires is a day, None or NotADate.                    *)
(*                                                                            *)
(* rules/consumers.py: who calls what, and what a finding means for them.  A  *)
(* registry file is a list of consumers, each [name, uses].  A registry is    *)
(* [readable, complete, uses]: uses maps a consumer's name to the operations  *)
(* it declares.                                                               *)
EXTENDS Schema, Integers

CONSTANT NotADate   \* an expiry that is no date

\* Everything an entry lacks to be a justified, bounded suppression.
Problems(e, today, maxDays, approverAsked) ==
  { p \in {"rule", "owner", "reason", "approver", "expires", "date", "bound"} :
      CASE p = "rule" -> e.rule = None
        [] p = "owner" -> ~e.owner
        [] p = "reason" -> ~e.reason
        [] p = "approver" -> approverAsked /\ ~e.approver
        [] p = "expires" -> e.expires = None
        [] p = "date" -> e.expires = NotADate
        [] OTHER -> e.expires \notin {None, NotADate} /\ e.expires > today + maxDays }

\* Mutant: an entry works one more day, and the day it was written for is not looked at.
IsExpired_Never(e, today) == e.expires = NotADate

IsExpired(e, today) ==
  IF e.expires = None THEN FALSE ELSE IF e.expires = NotADate THEN TRUE ELSE e.expires < today

Covers(e, f) == e.rule = f.rule /\ (e.op = None \/ e.op = f.op)

\* apply_suppressions: completeness is judged before expiry.
ApplySuppressions(findings, entries, today, maxDays, approverAsked) ==
  LET incomplete == { e \in entries : Problems(e, today, maxDays, approverAsked) # {} }
      expired == { e \in entries \ incomplete : IsExpired(e, today) }
      live == (entries \ incomplete) \ expired
      suppressed == { f \in findings : \E e \in live : Covers(e, f) }
  IN [active |-> findings \ suppressed, suppressed |-> suppressed, expired |-> expired,
      incomplete |-> incomplete, unscoped |-> { e \in live : e.op = None },
      working |-> { e \in live : \E f \in findings : Covers(e, f) }]

\* The findings about the file itself: expired, incomplete and unscoped entries.
FileFindings(result) ==
  LET About(entries, rule, severity) ==
        { [rule |-> rule, severity |-> severity, op |-> e.op, about |-> e] : e \in entries }
  IN About(result.expired, "SUPPRESSION-EXPIRED", "WARN")
     \cup About(result.incomplete, "SUPPRESSION-INCOMPLETE", "WARN")
     \cup About(result.unscoped, "SUPPRESSION-UNSCOPED", "INFO")

-----------------------------------------------------------------------------
(* The consumer registry. *)

\* load_registry: a file of another version, or one that lists a name twice, is refused.
LoadRegistry(written) ==
  LET names == { written.consumers[i].name : i \in DOMAIN written.consumers }
      lists(c) == { i \in DOMAIN written.consumers : written.consumers[i].name = c }
  IN [readable |-> /\ written.parses /\ written.version = 1
                   /\ \A c \in names : Cardinality(lists(c)) = 1,
      complete |-> written.complete,
      uses |-> [c \in names |-> UNION { written.consumers[i].uses : i \in lists(c) }]]

Affected(registry, op) == { c \in DOMAIN registry.uses : op \in registry.uses[c] }

\* Entries that name an operation neither version declares.
UnknownUses(registry, declared) ==
  { [rule |-> "CONSUMER-UNKNOWN-OPERATION", severity |-> "ERROR", op |-> x[2], about |-> x[1]] :
      x \in { y \in UNION { {c} \X registry.uses[c] : c \in DOMAIN registry.uses } :
                y[2] \notin declared } }

\* Mutant: a complete registry softens what its consumers call, too.
Softened_Called(f, registry) ==
  registry.complete /\ f.severity = "ERROR" /\ f.op # None

\* Only a registry that says it is complete softens an error, and only one
\* about an operation none of its consumers calls.
Softened(f, registry) ==
  registry.complete /\ f.severity = "ERROR" /\ f.op # None /\ Affected(registry, f.op) = {}

Annotate(findings, registry, adjust) ==
  { IF adjust /\ f.rule # "CONSUMER-UNKNOWN-OPERATION" /\ Softened(f, registry)
    THEN [f EXCEPT !.severity = "WARN"] ELSE f : f \in findings }

\* Mutant: who was affected first is the only one who is told.
BlastRadius_First(findings, registry) ==
  LET breaking == { f.op : f \in { g \in findings : g.severity = "ERROR" /\ g.op # None } }
      affected == { c \in DOMAIN registry.uses : registry.uses[c] \cap breaking # {} }
      first == IF affected = {} THEN {} ELSE { CHOOSE c \in affected : TRUE }
  IN [unclaimed |-> { op \in breaking : Affected(registry, op) = {} },
      by_consumer |-> [c \in first |-> registry.uses[c] \cap breaking]]

\* What breaks, per consumer, and what breaks with nobody registered for it.
BlastRadius(findings, registry) ==
  LET breaking == { f.op : f \in { g \in findings : g.severity = "ERROR" /\ g.op # None } }
      affected == UNION { Affected(registry, op) : op \in breaking }
  IN [unclaimed |-> { op \in breaking : Affected(registry, op) = {} },
      by_consumer |-> [c \in affected |-> registry.uses[c] \cap breaking]]
=============================================================================
