---------------------------- MODULE RuntimeChecks ----------------------------
(***************************************************************************)
(* `drift` against a running service or a recorded corpus, with a baseline *)
(* of what was already wrong (cli/commands/runtime.py, runtime/drift.py,   *)
(* runtime/drift_trend.py, runtime/findings.py), and `budget` and `ghosts` *)
(* over the same recordings.                                               *)
(*                                                                         *)
(* Several jobs of a pipeline run these commands beside each other and     *)
(* share the baseline files.  A file is written in two steps, opening it   *)
(* empty and then writing its text, and a job may be killed in between.    *)
(***************************************************************************)
EXTENDS Observed

CONSTANTS Runners,     \* the jobs of the pipeline
          Ops,         \* the operations of the contract, in order
          Was,         \* the operations of the contract before it (--was)
          Corpora,     \* name of a recording -> its entries, or None: not readable
          Behaviours,  \* what the service may answer: operation -> answer or None
          Files,       \* the paths of baseline files
          Commands,    \* the command lines there are
          Budgets,     \* budget files
          Statuses,    \* what a dropped route may answer; None: no answer
          MaxRuns, MaxRollouts   \* bounds

VARIABLES service,   \* what the service answers now
          baseline,  \* file -> [readable, prints]: a file that is not there is not readable
          recorded,  \* file -> the findings some run wrote to it completely
          running,   \* runner -> the command it runs and how far it is, or None
          verdict,   \* the run that ended since the last one began: [kind, exit, ...], or None
          runs, rollouts

vars == <<service, baseline, recorded, running, verdict, runs, rollouts>>

-----------------------------------------------------------------------------
(* Findings. *)

\* Every mode writes one shape.
Unified(op, drift) == [op |-> op, rule |-> drift[1], what |-> drift[2], severity |-> drift[3]]

UnifyAll(found) ==
  { [op |-> f.op, rule |-> f.rule, what |-> f.what, severity |-> f.severity] : f \in found }

\* Mutant: what the message says is left out.
Fingerprint_Ruled(f) == <<f.op, f.rule>>

\* Without the grade: a finding regraded later is the same finding.
Fingerprint(f) == <<f.op, f.rule, f.what>>

\* What one operation answered a probe.  A body that is None is no JSON; `exposed` are the
\* headers, and the place in a text, where a credential shows.
LiveDrift(op, answer, forbid) ==
  IF answer = None THEN {Unified(KeyOf(op), <<"DRIFT-UNREACHABLE", 0, "ERROR">>)}
  ELSE LET exact == { i \in DOMAIN op.responses : op.responses[i].status = answer.status }
           response == op.responses[Least(exact)]
           schema == IF answer.mime \in DOMAIN response.content THEN response.content[answer.mime] ELSE None
           read == answer.body # None
           shown == { <<"DRIFT-RESPONSE-CREDENTIAL", f, "ERROR">> :
                        f \in answer.exposed \cup IF read THEN Leaks(answer.body) ELSE {} }
                    \cup { <<"DRIFT-RESPONSE-PII", f, "WARN">> :
                             f \in IF read THEN Unclassified(op, answer.status, answer.body) ELSE {} }
           wrong == CASE schema = None \/ answer.mime \notin JsonTypes -> {}
                      [] schema # None /\ answer.mime \in JsonTypes /\ ~read -> {<<"DRIFT-SCHEMA", None>>}
                      [] OTHER -> Problems(schema, answer.body, forbid)
           told == IF exact = {} THEN {<<"DRIFT-STATUS", answer.status, "WARN">>}
                   ELSE (IF /\ DOMAIN response.content # {} /\ answer.mime # None
                            /\ answer.mime \notin DOMAIN response.content
                         THEN {<<"DRIFT-CONTENT-TYPE", 0, "WARN">>} ELSE {})
                        \cup { <<p[1], p[2], "WARN">> : p \in wrong }
                        \cup { <<"DRIFT-HEADER", h, "WARN">> : h \in response.headers \ answer.headers }
       IN { Unified(KeyOf(op), d) : d \in shown \cup told }

Readable == { c \in DOMAIN Corpora : Corpora[c] # None }

\* Without --include-response-bodies nobody reads them.
EntriesFor(command) ==
  LET entries == Corpora[command.corpus]
  IN IF command.bodies THEN entries ELSE [i \in DOMAIN entries |-> [entries[i] EXCEPT !.body = None]]

\* What a recording says, and what changed since an earlier one.
CorpusFindings(command) ==
  UnifyAll(AnalyzeCorpus(Ops, EntriesFor(command), command.forbid))
  \cup (IF command.against = None THEN {}
        ELSE { [op |-> f.op, rule |-> f.rule, what |-> f.field, severity |-> f.severity] :
                 f \in CompareProfiles(Ops, Corpora[command.against], Corpora[command.corpus],
                                       command.samples) })

-----------------------------------------------------------------------------
(* The gate. *)

\* The severities that fail a run; the project's fail_on narrows or lifts them.
Gating(failOn) ==
  CASE failOn = "never" -> {} [] failOn = "error" -> {"ERROR"} [] OTHER -> {"WARN", "ERROR"}

Gate(findings, failOn) ==
  IF \E f \in findings : f.severity \in Gating(failOn) THEN "findings" ELSE "ok"

\* Against a baseline the findings no longer carry a grade the gate can read, so that
\* any new one fails a run that can fail at all.
GateNew(new, failOn) == IF new # {} /\ failOn # "never" THEN "findings" ELSE "ok"

New(findings, known) == { f \in findings : Fingerprint(f) \notin known }

\* A file that is missing, or opened and not written.
Torn == [readable |-> FALSE, prints |-> {}]

-----------------------------------------------------------------------------
(* Drift. *)

Idle(r) == running[r] = None

Doing(r, phase) == ~Idle(r) /\ running[r].phase = phase

\* What comes after the findings are known.
AfterFindings(command) ==
  IF command.save # None THEN "open" ELSE IF command.baseline # None THEN "compare" ELSE "gate"

StartDrift(r) ==
  /\ Idle(r) /\ runs < MaxRuns
  /\ \E c \in Commands :
       running' = [running EXCEPT ![r] =
         [command |-> c, phase |-> IF c.corpus = None THEN "probe" ELSE "read",
          todo |-> IF c.corpus = None THEN DOMAIN Ops ELSE {}, findings |-> {}]]
  /\ runs' = runs + 1
  /\ verdict' = None
  /\ UNCHANGED <<service, baseline, recorded, rollouts>>

\* One request to the service, in the order of the contract.
Probe(r) ==
  /\ Doing(r, "probe") /\ running[r].todo # {}
  /\ LET i == Least(running[r].todo)
     IN running' = [running EXCEPT ![r].todo = @ \ {i},
                                   ![r].findings = @ \cup LiveDrift(Ops[i], service[i],
                                                                          running[r].command.forbid),
                                   ![r].phase = IF running[r].todo = {i}
                                                THEN AfterFindings(running[r].command) ELSE @]
  /\ UNCHANGED <<service, baseline, recorded, verdict, runs, rollouts>>

End(r, exit, compared) ==
  /\ running' = [running EXCEPT ![r] = None]
  /\ verdict' = [kind |-> "drift", exit |-> exit, findings |-> running[r].findings,
                  compared |-> compared, failOn |-> running[r].command.failOn]

\* Two recordings can only be compared by their contents, and both have to be readable.
Unusable(command) ==
  \/ Corpora[command.corpus] = None
  \/ command.against # None /\ (~command.bodies \/ Corpora[command.against] = None)

FindingsOf == [c \in { d \in Commands : d.corpus # None /\ ~Unusable(d) } |-> CorpusFindings(c)]

ReadCorpus(r) ==
  /\ Doing(r, "read")
  /\ LET command == running[r].command
     IN IF Unusable(command)
        THEN End(r, "usage", None)
        ELSE /\ running' = [running EXCEPT ![r].findings = FindingsOf[command],
                                           ![r].phase = AfterFindings(command)]
             /\ UNCHANGED verdict
  /\ UNCHANGED <<service, baseline, recorded, runs, rollouts>>

\* --save-baseline comes first, also when --baseline names the same file.
OpenFile(r) ==
  /\ Doing(r, "open")
  /\ baseline' = [baseline EXCEPT ![running[r].command.save] = Torn]
  /\ running' = [running EXCEPT ![r].phase = "write"]
  /\ UNCHANGED <<service, recorded, verdict, runs, rollouts>>

\* Over what another job wrote since, a shorter text leaves a tail behind.
WriteFile(r) ==
  /\ Doing(r, "write")
  /\ LET command == running[r].command
         text == [readable |-> TRUE, prints |-> { Fingerprint(f) : f \in running[r].findings }]
     IN /\ \E left \in {text} \cup (IF baseline[command.save].readable THEN {Torn} ELSE {}) :
             /\ baseline' = [baseline EXCEPT ![command.save] = left]
             /\ recorded' = [recorded EXCEPT ![command.save] =
                               IF left = text THEN @ \cup running[r].findings ELSE @]
        /\ running' = [running EXCEPT ![r].phase = IF command.baseline = None THEN "gate" ELSE "compare"]
  /\ UNCHANGED <<service, verdict, runs, rollouts>>

\* Text output of a corpus without any finding does not get as far as the code.
SaysNoDrift(r) == running[r].command.corpus # None /\ ~running[r].command.json /\ running[r].findings = {}

\* A baseline that cannot be read is a usage error.
Unreadable(r) == IF SaysNoDrift(r) THEN "ok" ELSE "usage"

Compare(r) ==
  /\ Doing(r, "compare")
  /\ LET command == running[r].command
         content == baseline[command.baseline]
     IN End(r, IF ~content.readable THEN Unreadable(r)
               ELSE GateNew(New(running[r].findings, content.prints), command.failOn),
            command.baseline)
  /\ UNCHANGED <<service, baseline, recorded, runs, rollouts>>

JustGate(r) ==
  /\ Doing(r, "gate")
  /\ End(r, Gate(running[r].findings, running[r].command.failOn), None)
  /\ UNCHANGED <<service, baseline, recorded, runs, rollouts>>

\* The job is cancelled.
Kill(r) ==
  /\ ~Idle(r)
  /\ running' = [running EXCEPT ![r] = None]
  /\ UNCHANGED <<service, baseline, recorded, verdict, runs, rollouts>>

-----------------------------------------------------------------------------
(* The commands that only read: nothing another job does reaches them, so it is *)
(* enough to let them run first.                                                *)

BudgetFindings ==
  [p \in Readable \X { b \in Budgets : LoadBudget(b) # None } |->
     EvaluateBudget(LoadBudget(p[2]), CallsOf(Ops, Corpora[p[1]]), { KeyOf(Ops[i]) : i \in DOMAIN Ops })]

\* What the project's fail_on or profile says: "" is no setting, and "warn" is the same.
FailOns == {"", "error", "never"}

\* cmd_budget over a HAR, which names no operations.
Budget ==
  /\ runs = 0
  /\ \E c \in Readable, b \in Budgets, failOn \in FailOns :
       verdict' = [kind |-> "budget", corpus |-> c, budget |-> b, failOn |-> failOn,
                   exit |-> IF LoadBudget(b) = None THEN "usage" ELSE Gate(BudgetFindings[<<c, b>>], failOn)]
  /\ runs' = runs + 1
  /\ UNCHANGED <<service, baseline, recorded, running, rollouts>>

\* cmd_ghosts: the routes the contract dropped, and the paths of a recording it does not match.
Candidates ==
  [c \in Readable \cup {None} |->
     RemovedOperations(Was, Ops) \cup (IF c = None THEN {} ELSE Quality(Ops, Corpora[c]).unmatchedPaths)]

Ghosts ==
  /\ runs = 0
  /\ \E c \in Readable \cup {None}, failOn \in FailOns : \E status \in [Candidates[c] -> Statuses] :
       LET found == { GhostFinding(k, status[k]) : k \in Candidates[c] }
           exit == IF found = {} THEN "usage" ELSE Gate(found, failOn)
       IN verdict' = [kind |-> "ghosts", exit |-> exit, findings |-> found]
  /\ runs' = runs + 1
  /\ UNCHANGED <<service, baseline, recorded, running, rollouts>>

\* The service changes, also between two probes.
Rollout ==
  /\ rollouts < MaxRollouts
  /\ \E b \in Behaviours \ {service} : service' = b
  /\ rollouts' = rollouts + 1
  /\ UNCHANGED <<baseline, recorded, running, verdict, runs>>

Init ==
  /\ service \in Behaviours
  /\ baseline = [f \in Files |-> Torn]
  /\ recorded = [f \in Files |-> {}]
  /\ running = [r \in Runners |-> None]
  /\ verdict = None /\ runs = 0 /\ rollouts = 0

Next ==
  \/ \E r \in Runners :
       \/ StartDrift(r) \/ Probe(r) \/ ReadCorpus(r) \/ OpenFile(r) \/ WriteFile(r)
       \/ Compare(r) \/ JustGate(r) \/ Kill(r)
  \/ Budget \/ Ghosts \/ Rollout

Spec == Init /\ [][Next]_vars

-----------------------------------------------------------------------------
(* What the commands promise. *)

\* A run that passes against a baseline has nothing to hide behind a file: each finding
\* that would have failed it is one that a run wrote to that file to the end, whatever
\* was killed, overwritten or read half written meanwhile (_with_baseline, classify,
\* fingerprint).  The grade may have changed since.
BaselineHoldsTheLine ==
  (verdict # None /\ verdict.kind = "drift" /\ verdict.compared # None /\ verdict.exit = "ok") =>
    \A f \in verdict.findings :
      f.severity \in Gating(verdict.failOn) =>
        \E g \in recorded[verdict.compared] : [g EXCEPT !.severity = f.severity] = f

\* The entries of a recording that call an operation, answered or not.
CallsTo(c, key) == { i \in Called(Ops, Corpora[c]) : KeyOf(OperationOf(Ops, Corpora[c][i])) = key }

\* When `budget` passes and the project lets it fail at all: no operation was called more
\* often than its file allows in any window, wherever the window starts, by the calls that
\* say when they were made, and all of them do unless the project fails on errors only; what
\* is allowed no call got none, and a file that denies by default has a limit for
\* everything that was called (_gate, _calls_from, load_budget, evaluate, busiest_window).
PassKeepsTheBudget ==
  (verdict # None /\ verdict.kind = "budget" /\ verdict.exit = "ok" /\ verdict.failOn # "never") =>
    /\ \A n \in DOMAIN verdict.budget.limits :
         LET l == verdict.budget.limits[n]
             calls == CallsTo(verdict.corpus, l.op)
             at == [i \in calls |-> Corpora[verdict.corpus][i].at]
             dated == { i \in calls : at[i] # None }
         IN /\ \A start \in { at[i] : i \in dated } :
                 Cardinality({ i \in dated : at[i] \in start .. (start + WindowOf(verdict.budget, l)) }) <= l.max
            /\ verdict.failOn # "error" => dated = calls
            /\ l.max = 0 => calls = {}
    /\ verdict.budget.deny =>
         \A i \in Called(Ops, Corpora[verdict.corpus]) : \E n \in DOMAIN verdict.budget.limits :
           verdict.budget.limits[n].op = KeyOf(OperationOf(Ops, Corpora[verdict.corpus][i]))
=============================================================================
