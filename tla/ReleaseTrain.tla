----------------------------- MODULE ReleaseTrain -----------------------------
(***************************************************************************)
(* A project that releases its contract through the gate: `validate` and   *)
(* `breaking` (cli/commands/governance.py) under a project config          *)
(* (core/config.py, rules/profiles.py, cli/commands/common.py), a policy   *)
(* file, a suppressions file and a consumer registry, day after day.       *)
(*                                                                         *)
(* A revision is a contract with the version it declares.  The pipeline    *)
(* runs both commands on the candidate and releases it when both exit 0.   *)
(***************************************************************************)
EXTENDS Compat, BreakingRules, Semver, ProjectFiles, Lifecycle, Policy

CONSTANTS Revisions,   \* name of a revision -> its contract
          Bases,       \* the revisions a history starts from
          Projects,    \* what a project may have set up: config, registry, policy file
          Writable,    \* the suppression entries that may be written on a day
          Calls,       \* what consumers send
          Protocols,
          MaxSteps     \* bound: steps of a history

VARIABLES project,     \* the config, the registry and the policy file of this project
          released,    \* the revision consumers call
          candidate,   \* the revision proposed
          file,        \* the suppressions file: [readable, entries]
          today,
          steps

vars == <<project, released, candidate, file, today, steps>>

config == project.config
registry == IF project.registry = None THEN None ELSE LoadRegistry(project.registry)
RegistryOf == [setup \in Projects |-> IF setup.registry = None THEN None ELSE LoadRegistry(setup.registry)]

\* A version has three parts, an operation has a name and speaks of its retirement in two
\* places (the block and the flat extensions), and a day is a number.
ASSUME TrainAssumption ==
  /\ MaxSteps \in Nat
  /\ Bases \subseteq DOMAIN Revisions
  /\ \A n \in DOMAIN Revisions :
       /\ Revisions[n].version \in (Nat \X Nat \X Nat) \cup {Unparseable}
       /\ None \notin DOMAIN Revisions[n].ops
       /\ \A k \in DOMAIN Revisions[n].ops :
            LET plan == Revisions[n].ops[k].plan
            IN /\ Len(plan) = 2 /\ DOMAIN plan = 1..2
               /\ \A i \in 1..2 : plan[i].sunset \in Int \cup {None, NotADate}
  /\ \A e \in Writable : "expires" \in DOMAIN e /\ e.expires \in Int \cup {None, NotADate}
  /\ \A setup \in Projects :
       /\ setup.config.maxDays \in Int \cup {None}
       /\ setup.registry # None => RegistryOf[setup] # None

\* A revision before and after: what changed, and the findings no override reaches.
Comparable == { p \in (DOMAIN Revisions) \X (DOMAIN Revisions) :
                  Revisions[p[1]].protocol = Revisions[p[2]].protocol }

ChangesBetween ==
  [p \in Comparable |-> ContractChanges(Revisions[p[1]], Revisions[p[2]])]

WholeContractFindings ==
  [p \in Comparable |->
     CompatFindings(Revisions[p[1]], Revisions[p[2]])
     \cup ProtocolFindings(Revisions[p[1]], Revisions[p[2]])]

-----------------------------------------------------------------------------
(* The config. *)

ProfileOverrides(profile) ==
  IF profile = "strict" THEN [r \in Catalog["WARN"] |-> "ERROR"] ELSE [r \in {} |-> "ERROR"]

\* What is set above goes before what is set below.
Over(above, below) ==
  [r \in DOMAIN above \cup DOMAIN below |-> IF r \in DOMAIN above THEN above[r] ELSE below[r]]

\* The command line over the config over the profile.
MergedOverrides(cfg, flags) == Over(flags, Over(cfg.overrides, ProfileOverrides(cfg.profile)))

ApplyOverrides(findings, overrides) ==
  { [f EXCEPT !.severity = Get(overrides, f.rule, f.severity)] : f \in findings }

FailOn(cfg) ==
  IF cfg.failOn # None THEN cfg.failOn ELSE IF cfg.profile = "advisory" THEN "never" ELSE "error"

Blocking(threshold) ==
  CASE threshold = "never" -> {} [] threshold = "warn" -> {"ERROR", "WARN"} [] OTHER -> {"ERROR"}

\* The errors of a config stop the run; an override of an unknown rule is a warning.
ConfigRefused(cfg) ==
  \/ ~cfg.parses
  \/ cfg.unknownKeys # {}
  \/ cfg.version # 1
  \/ cfg.profile \notin {None, "strict", "balanced", "advisory"}
  \/ cfg.failOn \notin {None, "error", "warn", "never"}
  \/ \E r \in DOMAIN cfg.overrides : cfg.overrides[r] \notin Severities
  \/ cfg.maxDays # None /\ cfg.maxDays < 1

DefaultMaxDays == 90

MaxDays(cfg) == IF cfg.maxDays = None THEN DefaultMaxDays ELSE cfg.maxDays

Suppressed(findings, cfg, entries, day) ==
  LET result == ApplySuppressions(findings, entries, day, MaxDays(cfg), cfg.approver)
  IN IF cfg.suppressions THEN result.active \cup FileFindings(result) ELSE findings

ExitFor(findings, cfg) ==
  IF \E f \in findings : f.severity \in Blocking(FailOn(cfg)) THEN "findings" ELSE "ok"

-----------------------------------------------------------------------------
(* The two commands. *)

\* cmd_validate up to the suppressions: what each revision is told on each day.
LintBefore ==
  [n \in DOMAIN Revisions |-> [setup \in Projects |-> [day \in 0 .. MaxSteps |->
     LET contract == Revisions[n]
         found == LintFindings(contract) \cup LifecycleFindings(contract, day)
                  \cup AuthenticationFindings(contract) \cup UnknownSchemes(contract)
                  \cup InconsistentSchemes(contract)
                  \cup RunPacks({DefaultPack(contract, Protocols)}, contract.protocol)
                  \cup (IF setup.policy = None THEN {}
                        ELSE RunPacks({PolicyPack(setup.policy, contract, Protocols)}, contract.protocol))
     IN ApplyOverrides(found, MergedOverrides(setup.config, [r \in {} |-> "ERROR"]))]]]

ValidateFindings(n, setup, entries, day) ==
  Suppressed(LintBefore[n][setup][day], setup.config, entries, day)

PolicyRefused == [setup \in Projects |-> setup.policy # None /\ ~LoadsPolicy(setup.policy, Protocols)]

Validate(n, setup, f, day) ==
  IF \/ ConfigRefused(setup.config)
     \/ setup.config.suppressions /\ ~f.readable
     \/ PolicyRefused[setup]
  THEN "usage"
  ELSE ExitFor(ValidateFindings(n, setup, f.entries, day), setup.config)

\* The findings of the change itself.
ChangeFindings ==
  [p \in Comparable |-> [setup \in Projects |->
     LET overrides == MergedOverrides(setup.config, setup.flags)
         rules == { [rule |-> f.rule, severity |-> f.severity, op |-> f.change.op, about |-> f.change.at] :
                      f \in Evaluate(ChangesBetween[p], overrides) }
     IN rules \cup ApplyOverrides(WholeContractFindings[p], overrides)
        \cup (IF setup.sdk = {} THEN {}
              ELSE SdkFindings(Revisions[p[1]], Revisions[p[2]], setup.sdk))]]

\* cmd_breaking up to the version check: what is left after suppressions and consumers.
OpenFindings(o, n, setup, entries, day) ==
  LET declared == DOMAIN Revisions[o].ops \cup DOMAIN Revisions[n].ops
  IN UNION { IF setup.registry = None THEN left
             ELSE Annotate(left \cup UnknownUses(RegistryOf[setup], declared),
                           RegistryOf[setup], setup.bySeverity) :
               left \in {Suppressed(ChangeFindings[<<o, n>>][setup], setup.config, entries, day)} }

\* The version check looks at the findings that are still open.
VersionFindings(o, n, setup, open, changes) ==
  IF setup.config.checkSemver
  THEN SemverFindings(Revisions[o].version, Revisions[n].version, open, changes, setup.minorForWarnings)
  ELSE {}

BreakingFindings(o, n, setup, entries, day) ==
  UNION { open \cup VersionFindings(o, n, setup, open, ChangesBetween[<<o, n>>]) :
            open \in {OpenFindings(o, n, setup, entries, day)} }

Breaking(o, n, setup, f, day) ==
  IF \/ ConfigRefused(setup.config)
     \/ setup.config.suppressions /\ ~f.readable
     \/ setup.registry # None /\ ~RegistryOf[setup].readable
  THEN "usage"
  ELSE ExitFor(BreakingFindings(o, n, setup, f.entries, day), setup.config)

-----------------------------------------------------------------------------
(* The project's days. *)

Step == steps < MaxSteps /\ steps' = steps + 1

Propose == /\ Step
           /\ \E n \in DOMAIN Revisions \ {candidate} : <<released, n>> \in Comparable /\ candidate' = n
           /\ UNCHANGED <<project, released, file, today>>

Write == /\ Step
         /\ \E e \in Writable : file' = [file EXCEPT !.entries = @ \cup {[e EXCEPT !.expires =
              IF e.expires \in {None, NotADate} THEN e.expires ELSE today + e.expires]}]
         /\ UNCHANGED <<project, released, candidate, today>>

Spoil == /\ Step
         /\ file.readable
         /\ file' = [file EXCEPT !.readable = FALSE]
         /\ UNCHANGED <<project, released, candidate, today>>

Sleep == /\ Step
         /\ today' = today + 1
         /\ UNCHANGED <<project, released, candidate, file>>

\* The pipeline of the candidate.
Release == /\ Step
           /\ candidate # released
           /\ Validate(candidate, project, file, today) = "ok"
           /\ Breaking(released, candidate, project, file, today) = "ok"
           /\ released' = candidate
           /\ UNCHANGED <<project, candidate, file, today>>

Init == /\ project \in Projects
        /\ released \in Bases /\ candidate = released
        /\ file = [readable |-> TRUE, entries |-> {}]
        /\ today = 0 /\ steps = 0

Next == Propose \/ Write \/ Spoil \/ Sleep \/ Release

Spec == Init /\ [][Next]_vars

-----------------------------------------------------------------------------
(* Properties. *)

\* Does the contract take the call?  A call says what it sends: the parameters,
\* the media type of a body (or None), the credentials by scheme and their types.
Serves(contract, call) ==
  /\ call.op \in DOMAIN contract.ops
  /\ LET op == contract.ops[call.op]
     IN /\ \A x \in DOMAIN op.params : op.params[x].required => x \in call.params
        /\ call.params \subseteq DOMAIN op.params
        /\ IF call.body = None THEN op.body = None \/ ~op.body.required
           ELSE op.body # None /\ call.body \in DOMAIN op.body.content
        /\ \A x \in SchemesOf(contract, op) :
             x \in DOMAIN call.credentials /\ x \in DOMAIN contract.schemes
             /\ call.credentials[x] = contract.schemes[x]

\* Somebody answers today for a finding about the operation not stopping the release.
VouchedFor(op) ==
  \/ FailOn(config) = "never"
  \/ \E r \in DOMAIN config.overrides : config.overrides[r] # "ERROR"
  \/ DOMAIN project.flags # {}
  \/ /\ config.suppressions
     /\ \E e \in file.entries : /\ e.owner /\ e.reason /\ e.op \in {op, None}
                                /\ e.expires \in today .. today + MaxDays(config)
  \/ /\ registry # None /\ registry.complete /\ project.bySeverity
     /\ op \notin UNION { registry.uses[c] : c \in DOMAIN registry.uses }

BodyIsNew(old, new, op) ==
  op \in Both(old, new) /\ old.ops[op].body = None /\ new.ops[op].body # None

\* A call that was served and no longer is has been vouched for on the day of
\* the release, by a setting, by an entry in force, or by a complete registry in
\* which nobody makes it.  (A body that is required from the day it first exists
\* is not an error, whatever docs/rule-catalog.md:43 says.)
BreaksNobody ==
  \A call \in Calls :
    (Serves(Revisions[released], call) /\ ~Serves(Revisions[released'], call))
      => \/ VouchedFor(call.op)
         \/ BodyIsNew(Revisions[released], Revisions[released'], call.op)

\* Not every day its retirement was announced for is over.
IsInTime(op) ==
  (\E p \in DOMAIN op.plan : op.plan[p].sunset \notin {None, NotADate})
    => \E p \in DOMAIN op.plan : op.plan[p].sunset \notin {None, NotADate} /\ op.plan[p].sunset >= today

\* It has everything the error rules of the policy file ask it for.
IsAsAsked(contract, k) ==
  project.policy # None =>
    \A i \in DOMAIN project.policy.rules :
      LET rule == project.policy.rules[i]
      IN (/\ rule.severity = "ERROR" /\ rule.select = "operation" /\ k \notin rule.exempt
          /\ contract.protocol \in rule.protocols)
           => \A field \in DOMAIN rule.where :
                rule.where[field].predicate = "present" => OperationValues(contract.ops[k], field) # {}

\* What is released keeps the project's own promises on that day: no operation
\* is past its retirement, no error rule of the policy file is broken outside
\* its exemptions, unless somebody vouches for it.
KeepsPromises ==
  \A k \in DOMAIN Revisions[released'].ops :
    \/ VouchedFor(k)
    \/ IsInTime(Revisions[released'].ops[k]) /\ IsAsAsked(Revisions[released'], k)

\* A release breaks no call and no promise that nobody vouched for on its day:
\* neither a suppression that ran out nor a stale registry lets one through.
ReleasesAreVouchedFor == [][ released' # released => BreaksNobody /\ KeepsPromises ]_vars

\* Whoever would lose a call to the candidate is named with the operation, unless
\* somebody answers for it or the error is one of the contract as a whole.
CallersAreNamed ==
  (registry # None /\ registry.readable /\ ~ConfigRefused(config)) =>
    \A findings \in {OpenFindings(released, candidate, project, file.entries, today)} :
      \A told \in {BlastRadius(findings, registry)} :
        \A call \in Calls :
          (Serves(Revisions[released], call) /\ ~Serves(Revisions[candidate], call))
            => \/ VouchedFor(call.op)
               \/ BodyIsNew(Revisions[released], Revisions[candidate], call.op)
               \/ \E f \in findings : f.severity = "ERROR" /\ f.op = None
               \/ /\ \A c \in Affected(registry, call.op) :
                       c \in DOMAIN told.by_consumer /\ call.op \in told.by_consumer[c]
                  /\ Affected(registry, call.op) = {} => call.op \in told.unclaimed

\* The advice and the version check agree: a version the advice is content with
\* draws no complaint, and neither would the version it suggests.
AdviceIsEnough ==
  (config.checkSemver /\ ~ConfigRefused(config) /\ (registry = None \/ registry.readable)) =>
    \A open \in {OpenFindings(released, candidate, project, file.entries, today)},
       changes \in {ChangesBetween[<<released, candidate>>]} :
      LET old == Revisions[released].version
      IN \A complaints \in {VersionFindings(released, candidate, project, open, changes)} :
           \A advice \in {Advice(old, Revisions[candidate].version, open \cup complaints, changes)} :
             /\ advice.satisfied => complaints = {}
             /\ advice.version # Unparseable =>
                  SemverFindings(old, advice.version, open, changes, project.minorForWarnings) = {}
=============================================================================
