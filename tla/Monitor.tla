-------------------------------- MODULE Monitor --------------------------------
(***************************************************************************)
(* Synthetic monitoring (runtime/monitor.py and `apiverity monitor`): a    *)
(* process runs a check, folds its findings into the state file and        *)
(* reports what appeared and what was resolved.  Processes are started by  *)
(* a clock, so one may start before the last has ended; they share the     *)
(* state file without a lock, and any of them may die at any point.        *)
(*                                                                         *)
(* The check is `drift`: an operation that cannot be reached gives one     *)
(* Unreachable finding and none of its own.                                *)
(***************************************************************************)
EXTENDS Naturals, TLC

CONSTANTS Processes,
          Operations,
          Rules,         \* what a check may find about an operation it measured
          Unreachable,   \* the rule of UNOBSERVABLE_RULES
          Missing, Torn, \* a state file that is not there, or not whole
          MaxRuns        \* bound: runs of the check

Finding == [rule : Rules \cup {Unreachable}, op : Operations]

\* What a run finds about each operation of the contract as it is now.
Outcomes == UNION {[D -> (SUBSET Rules) \cup {{Unreachable}}] : D \in SUBSET Operations}

States == [findings : SUBSET Finding, flaps : [Finding -> 0..MaxRuns], runs : 0..MaxRuns]
ASSUME MonitorAssumption == /\ Unreachable \notin Rules
                            /\ MaxRuns \in Nat
                            /\ Missing \notin States /\ Torn \notin States /\ Missing # Torn

NewState == [findings |-> {}, flaps |-> [f \in Finding |-> 0], runs |-> 0]

\* No operation was measured yet.
Unknown == [op \in {} |-> {}]

VARIABLES
  file,      \* the state file
  pc,        \* what each process does next
  memory,    \* the state each process holds
  report,    \* the transitions it will report
  started,   \* runs of the check so far
  last,      \* history: what the last run to measure an operation found there, for
             \* the operations that the contract of no run since was without
  learned,   \* history: last, once the run of each process is saved
  told,      \* history: the standing findings, for one who reads every report
  overlap,   \* history: two processes were alive at once
  lost       \* history: a run was saved and never reported

vars == <<file, pc, memory, report, started, last, learned, told, overlap, lost>>
local == <<memory, report, learned>>
history == <<last, told, overlap, lost>>

NoReport == [baseline |-> FALSE, inconclusive |-> FALSE, appeared |-> {}, resolved |-> {}]

Init == /\ file = Missing
        /\ pc = [p \in Processes |-> "off"]
        /\ memory = [p \in Processes |-> NewState]
        /\ report = [p \in Processes |-> NoReport]
        /\ started = 0
        /\ last = Unknown /\ learned = [p \in Processes |-> Unknown]
        /\ told = {}
        /\ overlap = FALSE /\ lost = FALSE

-------------------------------------------------------------------------------
(* apply_run: one run against the state before it. *)

Unobserved(o) == {op \in DOMAIN o : o[op] = {Unreachable}}
Measured(o) == DOMAIN o \ Unobserved(o)

Current(o) == {f \in Finding : f.op \in DOMAIN o /\ f.rule \in o[f.op]}

\* Mutant: what was not seen again is over.
Carried_None(s, o) == {}

\* Findings not seen again because nobody could look.
Carried(s, o) == {f \in s.findings \ Current(o) : f.op \in Unobserved(o)}

\* A baseline run finds nothing new.
Appeared(s, o) == IF s.runs = 0 THEN {} ELSE Current(o) \ s.findings

\* Mutant: what is carried forward is reported as over too.
Resolved_Carried(s, o) == s.findings \ Current(o)

Resolved(s, o) == s.findings \ (Current(o) \cup Carried(s, o))

\* The findings whose flap count goes up.
Crossed(s, o) == Appeared(s, o) \cup Resolved(s, o)

ApplyRun(s, o) ==
  [findings |-> Current(o) \cup Carried(s, o),
   flaps |-> [f \in Finding |-> IF f \in Crossed(s, o) THEN s.flaps[f] + 1 ELSE s.flaps[f]],
   runs |-> s.runs + 1]

\* Nothing measured and something unreachable: an outage.
Report(s, o) == [baseline |-> s.runs = 0,
                 inconclusive |-> Measured(o) = {} /\ Unobserved(o) # {},
                 appeared |-> Appeared(s, o),
                 resolved |-> Resolved(s, o)]

ReportFailed(s) == [NoReport EXCEPT !.baseline = s.runs = 0, !.inconclusive = TRUE]

-------------------------------------------------------------------------------
Goto(p, step) == pc' = [pc EXCEPT ![p] = step]
Set(x, p, v) == [x EXCEPT ![p] = v]

\* A process ends, and what it held goes with it.
Gone(p) == /\ Goto(p, "off")
           /\ memory' = Set(memory, p, NewState)
           /\ report' = Set(report, p, NoReport)
           /\ learned' = Set(learned, p, Unknown)

Alive == {p \in Processes : pc[p] # "off"}

\* The clock starts a process, whether or not the last one has ended.
Start(p) ==
  /\ pc[p] = "off" /\ started < MaxRuns
  /\ Goto(p, "load")
  /\ overlap' = (overlap \/ Alive # {})
  /\ UNCHANGED <<file, local, started, last, told, lost>>

\* A file that is not whole is refused, never taken for a new one.
Load(p) ==
  /\ pc[p] = "load"
  /\ \/ file = Torn /\ Gone(p)
     \/ /\ file # Torn
        /\ memory' = Set(memory, p, IF file = Missing THEN NewState ELSE file)
        /\ Goto(p, "check")
        /\ UNCHANGED <<report, learned>>
  /\ UNCHANGED <<file, started, history>>

\* The check fails before it establishes anything: the state stays as it is.
CheckFails(p) ==
  /\ pc[p] = "check" /\ started < MaxRuns
  /\ started' = started + 1
  /\ learned' = Set(learned, p, last)
  /\ report' = Set(report, p, ReportFailed(memory[p]))
  /\ Goto(p, "save")
  /\ UNCHANGED <<file, memory, history>>

\* What was last measured after a run that found o.  Of an operation that has left
\* the contract no measurement counts, whether the run reached anything or not.
Learned(o) == [op \in Measured(o) \cup (Unobserved(o) \cap DOMAIN last) |->
                 IF op \in Measured(o) THEN o[op] ELSE last[op]]

\* The check probes what the contract declares now, and its run is folded in.
Check(p, o) ==
  /\ pc[p] = "check" /\ started < MaxRuns
  /\ started' = started + 1
  /\ learned' = Set(learned, p, Learned(o))
  /\ report' = Set(report, p, Report(memory[p], o))
  /\ memory' = Set(memory, p, ApplyRun(memory[p], o))
  /\ Goto(p, "save")
  /\ UNCHANGED <<file, history>>

\* save: the file is emptied when it is opened, and written after that.
SaveOpen(p) ==
  /\ pc[p] = "save"
  /\ file' = Torn
  /\ Goto(p, "write")
  /\ UNCHANGED <<local, started, history>>

SaveWrite(p) ==
  /\ pc[p] = "write"
  /\ file' = memory[p]
  /\ Goto(p, "deliver")
  /\ last' = learned[p] /\ learned' = Set(learned, p, Unknown)
  /\ UNCHANGED <<memory, report, started, told, overlap, lost>>

\* The file cannot be opened or written: the process gives up.
SaveFails(p) ==
  /\ pc[p] \in {"save", "write"}
  /\ Gone(p)
  /\ UNCHANGED <<file, started, history>>

\* The standing findings for one who knew them before and reads p's report.
ToldBy(p) == IF report[p].baseline THEN memory[p].findings
             ELSE (told \ report[p].resolved) \cup report[p].appeared

\* The report goes out, and another round begins or the process ends.
Deliver(p) ==
  /\ pc[p] = "deliver"
  /\ told' = ToldBy(p)
  /\ \/ Goto(p, "check") /\ report' = Set(report, p, NoReport) /\ UNCHANGED <<memory, learned>>
     \/ Gone(p)
  /\ UNCHANGED <<file, started, last, overlap, lost>>

\* The process dies, or the report cannot be written.
Die(p) ==
  /\ pc[p] # "off"
  /\ Gone(p)
  /\ lost' = (lost \/ pc[p] = "deliver")
  /\ UNCHANGED <<file, started, last, told, overlap>>

\* Somebody deletes the state file, to take a new baseline.
Delete ==
  /\ file # Missing /\ Alive = {}
  /\ file' = Missing
  /\ last' = Unknown
  /\ told' = {}
  /\ overlap' = FALSE /\ lost' = FALSE
  /\ UNCHANGED <<pc, local, started>>

Step(p) == \/ Start(p) \/ Load(p)
           \/ CheckFails(p) \/ \E o \in Outcomes : Check(p, o)
           \/ SaveOpen(p) \/ SaveWrite(p) \/ SaveFails(p)
           \/ Deliver(p) \/ Die(p)

\* Every run the bound allows has been made.
Done == started = MaxRuns /\ Alive = {} /\ UNCHANGED vars

Next == Delete \/ Done \/ \E p \in Processes : Step(p)

Spec == Init /\ [][Next]_vars

\* What TLC may take for one another: none of them has a part of its own.
Symmetry == Permutations(Processes) \cup Permutations(Operations) \cup Permutations(Rules)

-------------------------------------------------------------------------------
(* Properties. *)

Measurements == UNION {[D -> SUBSET Rules] : D \in SUBSET Operations}

TypeOK ==
  /\ file \in States \cup {Missing, Torn}
  /\ pc \in [Processes -> {"off", "load", "check", "save", "write", "deliver"}]
  /\ memory \in [Processes -> States]
  /\ report \in [Processes -> [baseline : BOOLEAN, inconclusive : BOOLEAN,
                               appeared : SUBSET Finding, resolved : SUBSET Finding]]
  /\ started \in 0..MaxRuns
  /\ last \in Measurements
  /\ learned \in [Processes -> Measurements]
  /\ told \in SUBSET Finding
  /\ overlap \in BOOLEAN /\ lost \in BOOLEAN

Whole == file \notin {Missing, Torn}

\* What state s says about operation op.
Known(s, op) == {r \in Rules : [rule |-> r, op |-> op] \in s.findings}

\* What stands of op: nothing, if it was not measured since the contract has it.
Standing(l, op) == IF op \in DOMAIN l THEN l[op] ELSE {}

\* "Whatever was known about it stays known": of every operation that the contract
\* of every run has had since it was measured, the state file holds exactly what
\* the last run to measure it found, through outages, failed runs, crashes and
\* restarts, as long as processes do not overlap; of the others it holds nothing.
\* So a contract that lost an operation has its findings dropped, by a run that
\* reached nothing too, of which the code says that "the previous state is
\* carried forward whole and nothing is called resolved" (Transitions).
KnownIsLastMeasured ==
  ~overlap /\ Whole =>
    \A op \in Operations : Known(file, op) = Standing(last, op)

\* One who knows the baseline and reads every report knows the standing
\* findings: none is announced twice, or over before it was announced.
ReportsAddUp ==
  ~overlap /\ ~lost /\ Whole /\ (\A p \in Processes : pc[p] # "deliver") =>
    told = file.findings

===============================================================================
