---------------------------- MODULE Monitor_proofs ----------------------------
(***************************************************************************)
(* Proofs about Monitor, for any number of processes, operations and       *)
(* rules: its state is well typed, and the state file holds exactly what   *)
(* was last measured of the operations that the contract still has.        *)
(***************************************************************************)
EXTENDS Monitor, TLAPS

\* No state counts more runs than were made, nor more crossings than runs.
Bounded(s) == s.runs <= started /\ \A f \in Finding : s.flaps[f] <= s.runs
Counted == (\A p \in Processes : Bounded(memory[p])) /\ (Whole => Bounded(file))

\* A run adds one to the count of runs, and at most one to any count of flaps.
LEMMA ApplyRunType ==
  ASSUME NEW s \in States, NEW o \in Outcomes, NEW n \in 0..(MaxRuns - 1),
         s.runs <= n, \A f \in Finding : s.flaps[f] <= s.runs
  PROVE  LET t == ApplyRun(s, o)
         IN /\ t \in States /\ t.runs <= n + 1
            /\ \A f \in Finding : t.flaps[f] <= t.runs
<1> USE MonitorAssumption
<1> DEFINE t == ApplyRun(s, o)
<1>1. s.runs \in Nat /\ s.runs + 1 \in 0..MaxRuns /\ s.findings \subseteq Finding
  BY DEF States
<1>2. \A f \in Finding : s.flaps[f] \in 0..MaxRuns
  BY DEF States
<1>3. t.findings \subseteq Finding /\ t.runs = s.runs + 1
  BY <1>1 DEF ApplyRun, Current, Carried
<1>4. ASSUME NEW f \in Finding
      PROVE  t.flaps[f] \in 0..MaxRuns /\ t.flaps[f] <= t.runs
  <2>1. t.flaps[f] = IF f \in Crossed(s, o) THEN s.flaps[f] + 1 ELSE s.flaps[f]
    BY DEF ApplyRun
  <2>2. s.flaps[f] \in Nat /\ s.flaps[f] <= s.runs
    BY <1>2
  <2> HIDE DEF t
  <2> QED BY <1>1, <1>3, <2>1, <2>2
<1>5. t.flaps \in [Finding -> 0..MaxRuns]
  <2>1. t.flaps = [f \in Finding |-> IF f \in Crossed(s, o) THEN s.flaps[f] + 1 ELSE s.flaps[f]]
    BY DEF ApplyRun
  <2> HIDE DEF t
  <2> QED BY <1>4, <2>1
<1>6. t = [findings |-> t.findings, flaps |-> t.flaps, runs |-> t.runs]
  BY DEF ApplyRun
<1> HIDE DEF t
<1>7. t \in States
  BY <1>1, <1>3, <1>5, <1>6 DEF States
<1> QED BY <1>1, <1>3, <1>4, <1>7 DEF t

\* What a state says after a run is what was last measured, if it was before:
\* measured operations by this run, unreachable ones by an earlier one, and
\* nothing of those the contract no longer has, or had not when last looked for.
LEMMA ApplyRunKnows ==
  ASSUME NEW s \in States, NEW o \in Outcomes, TypeOK,
         \A op \in Operations : Known(s, op) = Standing(last, op)
  PROVE  \A op \in Operations : Known(ApplyRun(s, o), op) = Standing(Learned(o), op)
<1> SUFFICES ASSUME NEW op \in Operations
             PROVE  Known(ApplyRun(s, o), op) = Standing(Learned(o), op)
  OBVIOUS
<1> USE MonitorAssumption
<1>1. DOMAIN o \subseteq Operations
      /\ \A q \in DOMAIN o : o[q] \in (SUBSET Rules) \cup {{Unreachable}}
  BY DEF Outcomes
<1>2. ApplyRun(s, o).findings = Current(o) \cup Carried(s, o)
  BY DEF ApplyRun
<1>3. \A r \in Rules : /\ [rule |-> r, op |-> op] \in Finding
                       /\ [rule |-> r, op |-> op].op = op
                       /\ [rule |-> r, op |-> op].rule = r
  BY DEF Finding
<1>4. \A r \in Rules : [rule |-> r, op |-> op] \in Current(o)
                         <=> op \in DOMAIN o /\ r \in o[op]
  BY <1>3 DEF Current
<1>5. \A r \in Rules : [rule |-> r, op |-> op] \in Carried(s, o)
                         <=> /\ r \in Known(s, op)
                             /\ [rule |-> r, op |-> op] \notin Current(o)
                             /\ op \in Unobserved(o)
  BY <1>3 DEF Carried, Known
<1>6. CASE op \in Unobserved(o)
  <2>1. \A r \in Rules : [rule |-> r, op |-> op] \notin Current(o)
    BY <1>4, <1>6 DEF Unobserved
  <2>2. op \in DOMAIN o /\ op \notin Measured(o)
    BY <1>6 DEF Measured, Unobserved
  <2>3. op \in DOMAIN Learned(o) <=> op \in DOMAIN last
    BY <1>6, <2>2 DEF Learned
  <2>4. Standing(Learned(o), op) = Standing(last, op)
    BY <2>2, <2>3 DEF Standing, Learned
  <2>5. Known(ApplyRun(s, o), op) = Known(s, op)
    BY <1>2, <1>5, <1>6, <2>1 DEF Known
  <2> QED BY <2>4, <2>5
<1>7. CASE op \in Measured(o)
  <2>1. op \in DOMAIN o /\ op \notin Unobserved(o)
    BY <1>7 DEF Measured
  <2>2. Standing(Learned(o), op) = o[op]
    BY <1>7, <2>1 DEF Learned, Standing
  <2>3. o[op] # {Unreachable} /\ o[op] \in (SUBSET Rules) \cup {{Unreachable}}
    BY <1>1, <2>1 DEF Unobserved
  <2> QED BY <1>2, <1>4, <1>5, <2>1, <2>2, <2>3 DEF Known
<1>8. CASE op \notin DOMAIN o
  <2>1. Standing(Learned(o), op) = {} /\ op \notin Unobserved(o)
    BY <1>8 DEF Learned, Standing, Measured, Unobserved
  <2> QED BY <1>2, <1>4, <1>5, <1>8, <2>1 DEF Known
<1> QED BY <1>6, <1>7, <1>8 DEF Measured

-------------------------------------------------------------------------------
(* Type correctness. *)

\* A run learns rules of every operation, whatever it found.
LEMMA LearnedType ==
  ASSUME TypeOK, NEW o \in Outcomes
  PROVE  Learned(o) \in Measurements
<1>1. \A op \in DOMAIN o : o[op] \in (SUBSET Rules) \cup {{Unreachable}}
  BY DEF Outcomes
<1>2. PICK D \in SUBSET Operations : last \in [D -> SUBSET Rules]
  BY DEF TypeOK, Measurements
<1> DEFINE E == Measured(o) \cup (Unobserved(o) \cap D)
<1>3. E \subseteq Operations
  BY <1>2 DEF Measured, Unobserved, Outcomes
<1>4. \A op \in E : (IF op \in Measured(o) THEN o[op] ELSE last[op]) \in SUBSET Rules
  BY <1>1, <1>2 DEF Measured, Unobserved
<1>5. Learned(o) = [op \in E |-> IF op \in Measured(o) THEN o[op] ELSE last[op]]
  BY <1>2 DEF Learned
<1>6. Learned(o) \in [E -> SUBSET Rules]
  BY <1>4, <1>5
<1> QED BY <1>3, <1>6 DEF Measurements

LEMMA UnknownType == Unknown \in Measurements
<1>1. Unknown \in [{} -> SUBSET Rules]
  BY DEF Unknown
<1> QED BY <1>1 DEF Measurements

LEMMA NoReportType == NoReport \in [baseline : BOOLEAN, inconclusive : BOOLEAN,
                                   appeared : SUBSET Finding, resolved : SUBSET Finding]
BY DEF NoReport

LEMMA NewStateType ==
  NewState \in States /\ NewState.runs = 0 /\ \A f \in Finding : NewState.flaps[f] = 0
BY MonitorAssumption DEF NewState, States

Typed == TypeOK /\ Counted

LEMMA TypedInit == Init => Typed
<1> SUFFICES ASSUME Init PROVE Typed
  OBVIOUS
<1>1. TypeOK
  <2>1. Unknown \in Measurements
    BY UnknownType
  <2>2. NoReport \in [baseline : BOOLEAN, inconclusive : BOOLEAN,
                     appeared : SUBSET Finding, resolved : SUBSET Finding]
    BY DEF NoReport
  <2>3. started \in 0..MaxRuns
    BY MonitorAssumption DEF Init
  <2> QED BY NewStateType, <2>1, <2>2, <2>3 DEF Init, TypeOK
<1>2. Counted
  BY NewStateType, MonitorAssumption DEF Init, Counted, Bounded, Whole
<1> QED BY <1>1, <1>2 DEF Typed

\* What a process leaves behind is well typed.
LEMMA GoneType ==
  ASSUME Typed, NEW p \in Processes, Gone(p)
  PROVE  /\ pc' \in [Processes -> {"off", "load", "check", "save", "write", "deliver"}]
         /\ memory' \in [Processes -> States]
         /\ report' \in [Processes -> [baseline : BOOLEAN, inconclusive : BOOLEAN,
                                       appeared : SUBSET Finding, resolved : SUBSET Finding]]
         /\ learned' \in [Processes -> Measurements]
         /\ started' = started => \A q \in Processes : Bounded(memory[q])'
<1>1. Unknown \in Measurements
  BY UnknownType
<1>2. started \in Nat
  BY MonitorAssumption DEF Typed, TypeOK
<1>3. started' = started => \A q \in Processes : Bounded(memory[q])'
  BY <1>2, NewStateType DEF Typed, TypeOK, Counted, Bounded, Gone, Set
<1> QED BY <1>1, <1>3, NewStateType DEF Typed, TypeOK, Gone, Goto, Set, NoReport

LEMMA TypedNext == Typed /\ [Next]_vars => Typed'
<1> SUFFICES ASSUME Typed, [Next]_vars PROVE Typed'
  OBVIOUS
<1> USE MonitorAssumption
<1>0. /\ started \in Nat
      /\ Whole => file \in States
  BY DEF Typed, TypeOK, Whole
<1>1. ASSUME NEW p \in Processes, Start(p) PROVE Typed'
  BY <1>1 DEF Start, Goto, Typed, TypeOK, Counted, Bounded, Whole, local
<1>2. ASSUME NEW p \in Processes, Load(p) PROVE Typed'
  <2>1. CASE file = Torn /\ Gone(p)
    BY <1>2, <2>1, GoneType DEF Load, Typed, TypeOK, Counted, Bounded, Whole, history
  <2>2. CASE file # Torn /\ memory' = Set(memory, p, IF file = Missing THEN NewState ELSE file)
    <3>1. /\ (IF file = Missing THEN NewState ELSE file) \in States
          /\ Bounded(IF file = Missing THEN NewState ELSE file)
      BY <1>0, <2>2, NewStateType DEF Typed, Counted, Bounded, Whole
    <3>2. TypeOK'
      BY <1>2, <2>2, <3>1 DEF Load, Goto, Gone, Set, Typed, TypeOK, history
    <3>3. Counted'
      BY <1>2, <2>2, <3>1 DEF Load, Gone, Set, Typed, TypeOK, Counted, Bounded, Whole, history
    <3> QED BY <3>2, <3>3 DEF Typed
  <2> QED BY <1>2, <2>1, <2>2 DEF Load
<1>3. ASSUME NEW p \in Processes, CheckFails(p) PROVE Typed'
  <2>1. ReportFailed(memory[p]) \in [baseline : BOOLEAN, inconclusive : BOOLEAN,
                                    appeared : SUBSET Finding, resolved : SUBSET Finding]
    BY DEF ReportFailed, NoReport
  <2>2. started' = started + 1 /\ started' \in 0..MaxRuns
    BY <1>0, <1>3 DEF CheckFails
  <2>3. TypeOK'
    BY <1>3, <2>1, <2>2 DEF CheckFails, Goto, Set, Typed, TypeOK, history
  <2>4. \A s \in States : Bounded(s) => Bounded(s)'
    BY <1>0, <2>2 DEF Bounded, States
  <2>5. Counted'
    BY <1>0, <1>3, <2>2 DEF CheckFails, Typed, TypeOK, States, Counted, Bounded, Whole
  <2> QED BY <2>3, <2>5 DEF Typed
<1>4. ASSUME NEW p \in Processes, NEW o \in Outcomes, Check(p, o) PROVE Typed'
  <2>1. Report(memory[p], o) \in [baseline : BOOLEAN, inconclusive : BOOLEAN,
                                 appeared : SUBSET Finding, resolved : SUBSET Finding]
    BY DEF Report, Appeared, Resolved, Current, Typed, TypeOK, States
  <2>2. started' = started + 1 /\ started' \in 0..MaxRuns /\ started \in 0..(MaxRuns - 1)
    BY <1>0, <1>4 DEF Check
  <2>3. memory[p] \in States /\ Bounded(memory[p])
    BY DEF Typed, TypeOK, Counted
  <2>4. LET t == ApplyRun(memory[p], o)
        IN t \in States /\ t.runs <= started + 1 /\ \A f \in Finding : t.flaps[f] <= t.runs
    BY <2>2, <2>3, ApplyRunType DEF Bounded
  <2>5. Learned(o) \in Measurements
    BY LearnedType DEF Typed
  <2>6. TypeOK'
    BY <1>4, <2>1, <2>2, <2>4, <2>5 DEF Check, Goto, Set, Typed, TypeOK, history
  <2>7. Counted'
    <3>1. \A q \in Processes : Bounded(memory[q])'
      <4> SUFFICES ASSUME NEW q \in Processes PROVE Bounded(memory[q])'
        OBVIOUS
      <4>1. CASE q = p
        BY <1>4, <2>2, <2>4, <4>1 DEF Check, Set, Typed, TypeOK, Bounded
      <4>2. CASE q # p
        BY <1>0, <1>4, <2>2, <4>2 DEF Check, Set, Typed, TypeOK, States, Counted, Bounded
      <4> QED BY <4>1, <4>2
    <3>2. (Whole => Bounded(file))'
      BY <1>0, <1>4, <2>2 DEF Check, Typed, TypeOK, States, Counted, Bounded, Whole
    <3> QED BY <3>1, <3>2 DEF Counted
  <2> QED BY <2>6, <2>7 DEF Typed
<1>5. ASSUME NEW p \in Processes, SaveOpen(p) PROVE Typed'
  BY <1>5 DEF SaveOpen, Goto, Typed, TypeOK, Counted, Bounded, Whole, local, history
<1>6. ASSUME NEW p \in Processes, SaveWrite(p) PROVE Typed'
  <2>1. memory[p] \in States /\ Bounded(memory[p]) /\ memory[p].findings \in SUBSET Finding
    BY DEF Typed, TypeOK, Counted, States
  <2>2. TypeOK'
    BY <1>6, <2>1, UnknownType DEF SaveWrite, Goto, Set, Typed, TypeOK
  <2>3. Counted'
    BY <1>6, <2>1 DEF SaveWrite, Typed, Counted, Bounded, Whole
  <2> QED BY <2>2, <2>3 DEF Typed
<1>7. ASSUME NEW p \in Processes, SaveFails(p) PROVE Typed'
  BY <1>7, GoneType DEF SaveFails, Typed, TypeOK, Counted, Bounded, Whole, history
<1>8. ASSUME NEW p \in Processes, Deliver(p) PROVE Typed'
  <2>1. told' \in SUBSET Finding
    <3>1. /\ memory[p].findings \in SUBSET Finding
          /\ report[p].appeared \in SUBSET Finding
          /\ told \in SUBSET Finding
      BY DEF Typed, TypeOK, States
    <3> QED BY <1>8, <3>1 DEF Deliver, ToldBy
  <2>2. CASE Goto(p, "check") /\ report' = Set(report, p, NoReport) /\ UNCHANGED <<memory, learned>>
    BY <1>8, <2>1, <2>2, NoReportType DEF Deliver, Goto, Set, Typed, TypeOK, Counted, Bounded, Whole
  <2>3. CASE Gone(p)
    BY <1>8, <2>1, <2>3, GoneType DEF Deliver, Typed, TypeOK, Counted, Bounded, Whole
  <2> QED BY <1>8, <2>2, <2>3 DEF Deliver
<1>9. ASSUME NEW p \in Processes, Die(p) PROVE Typed'
  BY <1>9, GoneType DEF Die, Typed, TypeOK, Counted, Bounded, Whole
<1>10. CASE Delete
  BY <1>10, UnknownType DEF Delete, Typed, TypeOK, Counted, Bounded, Whole, local
<1>11. CASE UNCHANGED vars
  BY <1>11 DEF vars, Typed, TypeOK, Counted, Bounded, Whole
<1> QED BY <1>1, <1>2, <1>3, <1>4, <1>5, <1>6, <1>7, <1>8, <1>9, <1>10, <1>11
        DEF Next, Step, Done

\* The state of a monitor is well typed.
THEOREM TypeCorrect == Spec => []TypeOK
<1>1. Typed => TypeOK
  BY DEF Typed
<1> QED BY TypedInit, TypedNext, <1>1, PTL DEF Spec

-------------------------------------------------------------------------------
(* The state file follows the measurements, and the reports follow the file. *)

\* While processes do not overlap there is one at most.
Solo == ~overlap =>
          \A p, q \in Processes : pc[p] # "off" /\ pc[q] # "off" => p = q

Agrees(s, l) == \A op \in Operations : Known(s, op) = Standing(l, op)

\* The file, and the memory of the process at every step, are up to the last
\* measurement, or to the one about to be saved.
Follows ==
  ~overlap =>
    /\ Whole => Agrees(file, last)
    /\ file = Missing => last = Unknown
    /\ \A p \in Processes :
         /\ pc[p] \in {"check", "deliver"} => Agrees(memory[p], last)
         /\ pc[p] \in {"save", "write"} => Agrees(memory[p], learned[p])
         /\ pc[p] = "deliver" => file = memory[p]

\* The standing findings as told are those of the file, once the report of the
\* run that is saved, or about to be, is read.
AddsUp ==
  ~overlap /\ ~lost =>
    /\ Whole /\ (\A p \in Processes : pc[p] # "deliver") => told = file.findings
    /\ file = Missing => told = {}
    /\ \A p \in Processes :
         /\ pc[p] = "check" => told = memory[p].findings
         /\ pc[p] \in {"save", "write", "deliver"} => ToldBy(p) = memory[p].findings

IInv == Typed /\ Solo /\ Follows /\ AddsUp

LEMMA NewStateKnows == Agrees(NewState, Unknown) /\ NewState.findings = {}
BY DEF Agrees, Known, NewState, Standing, Unknown

\* A report tells exactly what a run changed.
LEMMA ReportTells ==
  ASSUME NEW s \in States, NEW o \in Outcomes
  PROVE  (s.findings \ Report(s, o).resolved) \cup Report(s, o).appeared
           = ApplyRun(s, o).findings \/ Report(s, o).baseline
<1>1. CASE s.runs = 0
  BY <1>1 DEF Report
<1>2. CASE s.runs # 0
  <2>1. Report(s, o).appeared = Current(o) \ s.findings
        /\ Report(s, o).resolved = s.findings \ (Current(o) \cup Carried(s, o))
        /\ ApplyRun(s, o).findings = Current(o) \cup Carried(s, o)
    BY <1>2 DEF Report, Appeared, Resolved, ApplyRun
  <2>2. Carried(s, o) \subseteq s.findings
    BY DEF Carried
  <2> QED BY <2>1, <2>2
<1> QED BY <1>1, <1>2

LEMMA IInvInit == Init => IInv
<1> SUFFICES ASSUME Init PROVE IInv
  OBVIOUS
<1>1. Solo
  BY DEF Init, Solo
<1>2. Follows
  BY DEF Init, Follows, Whole
<1>3. AddsUp
  BY DEF Init, AddsUp, Whole
<1> QED BY <1>1, <1>2, <1>3, TypedInit DEF IInv

LEMMA SoloNext == Solo /\ Typed /\ [Next]_vars => Solo'
<1> SUFFICES ASSUME Solo, Typed, [Next]_vars, ~overlap' PROVE Solo'
  BY DEF Solo
<1>0. pc \in [Processes -> {"off", "load", "check", "save", "write", "deliver"}]
  BY DEF Typed, TypeOK
<1>1. ASSUME NEW p \in Processes, Start(p) PROVE Solo'
  BY <1>0, <1>1 DEF Start, Goto, Solo, Alive
<1>2. ASSUME NEW p \in Processes, ~Start(p), Step(p) PROVE Solo'
  <2>1. overlap' = overlap /\ pc[p] # "off" /\ \E x : pc' = [pc EXCEPT ![p] = x]
    BY <1>2 DEF Step, Load, CheckFails, Check, SaveOpen, SaveWrite, SaveFails, Deliver, Die,
                Gone, Goto, history
  <2> QED BY <1>0, <2>1 DEF Solo
<1>3. CASE Delete
  BY <1>3 DEF Delete, Solo, Alive
<1>4. CASE UNCHANGED vars
  BY <1>4 DEF vars, Solo
<1> QED BY <1>1, <1>2, <1>3, <1>4 DEF Next, Done

LEMMA FollowsNext == Typed /\ Solo /\ Follows /\ [Next]_vars => Follows'
<1> SUFFICES ASSUME Typed, Solo, Follows, [Next]_vars, ~overlap' PROVE Follows'
  BY DEF Follows
<1> USE MonitorAssumption
<1>0. /\ pc \in [Processes -> {"off", "load", "check", "save", "write", "deliver"}]
      /\ memory \in [Processes -> States] /\ learned \in [Processes -> Measurements]
  BY DEF Typed, TypeOK
<1>1. ASSUME NEW p \in Processes, Start(p) PROVE Follows'
  <2>1. ~overlap /\ UNCHANGED <<file, last, memory, learned>>
    BY <1>1 DEF Start, local
  <2>2. \A q \in Processes : pc'[q] = IF q = p THEN "load" ELSE pc[q]
    BY <1>0, <1>1 DEF Start, Goto
  <2> QED BY <2>1, <2>2 DEF Follows, Whole, Agrees, Known
<1>2. ASSUME NEW p \in Processes, Load(p) PROVE Follows'
  <2>1. CASE file = Torn /\ Gone(p)
    BY <1>0, <1>2, <2>1 DEF Load, Gone, Goto, Set, Follows, Whole, Agrees, Known, history
  <2>2. CASE /\ file # Torn
             /\ memory' = Set(memory, p, IF file = Missing THEN NewState ELSE file)
             /\ Goto(p, "check") /\ UNCHANGED <<report, learned>>
    <3>1. Agrees(IF file = Missing THEN NewState ELSE file, last)
      BY <1>2, <2>2, NewStateKnows DEF Load, Follows, Whole, history
    <3> QED BY <1>0, <1>2, <2>2, <3>1 DEF Load, Goto, Set, Follows, Whole, Agrees, Known, history
  <2> QED BY <1>2, <2>1, <2>2 DEF Load
<1>3. ASSUME NEW p \in Processes, CheckFails(p) PROVE Follows'
  BY <1>0, <1>3 DEF CheckFails, Goto, Set, Follows, Whole, Agrees, Known, history
<1>4. ASSUME NEW p \in Processes, NEW o \in Outcomes, Check(p, o) PROVE Follows'
  <2>1. Agrees(memory[p], last)
    BY <1>4 DEF Check, Follows, history
  <2>2. Agrees(ApplyRun(memory[p], o), Learned(o))
    BY <1>0, <2>1, ApplyRunKnows DEF Agrees, Typed
  <2> QED BY <1>0, <1>4, <2>2 DEF Check, Goto, Set, Follows, Whole, Agrees, Known, history
<1>5. ASSUME NEW p \in Processes, SaveOpen(p) PROVE Follows'
  <2>1. \A q \in Processes : pc[q] # "deliver"
    BY <1>5 DEF SaveOpen, Solo, history
  <2> QED BY <1>0, <1>5, <2>1 DEF SaveOpen, Goto, Follows, Whole, Agrees, Known, local, history
<1>6. ASSUME NEW p \in Processes, SaveWrite(p) PROVE Follows'
  <2>1. \A q \in Processes : q # p => pc[q] = "off"
    BY <1>6 DEF SaveWrite, Solo
  <2>2. Agrees(memory[p], learned[p])
    BY <1>6 DEF SaveWrite, Follows
  <2>3. memory[p] # Missing
    BY <1>0
  <2>4. pc'[p] = "deliver" /\ \A q \in Processes : q # p => pc'[q] = "off"
    BY <1>0, <1>6, <2>1 DEF SaveWrite, Goto
  <2> QED BY <1>0, <1>6, <2>2, <2>3, <2>4 DEF SaveWrite, Follows, Whole, Agrees, Known, local
<1>7. ASSUME NEW p \in Processes, SaveFails(p) PROVE Follows'
  BY <1>0, <1>7 DEF SaveFails, Gone, Goto, Set, Follows, Whole, Agrees, Known, history
<1>8. ASSUME NEW p \in Processes, Deliver(p) PROVE Follows'
  BY <1>0, <1>8 DEF Deliver, Gone, Goto, Set, Follows, Whole, Agrees, Known, local
<1>9. ASSUME NEW p \in Processes, Die(p) PROVE Follows'
  BY <1>0, <1>9 DEF Die, Gone, Goto, Set, Follows, Whole, Agrees, Known
<1>10. CASE Delete
  <2>1. file' = Missing /\ last' = Unknown /\ \A p \in Processes : pc'[p] = "off"
    BY <1>10 DEF Delete, Alive
  <2> QED BY <2>1 DEF Follows, Whole
<1>11. CASE UNCHANGED vars
  BY <1>11 DEF vars, Follows, Whole, Agrees, Known
<1> QED BY <1>1, <1>2, <1>3, <1>4, <1>5, <1>6, <1>7, <1>8, <1>9, <1>10, <1>11
        DEF Next, Step, Done

LEMMA AddsUpNext == Typed /\ Solo /\ Follows /\ AddsUp /\ [Next]_vars => AddsUp'
<1> SUFFICES ASSUME Typed, Solo, Follows, AddsUp, [Next]_vars, ~overlap', ~lost' PROVE AddsUp'
  BY DEF AddsUp
<1> USE MonitorAssumption
<1>0. /\ pc \in [Processes -> {"off", "load", "check", "save", "write", "deliver"}]
      /\ memory \in [Processes -> States]
      /\ DOMAIN report = Processes
      /\ told \in SUBSET Finding
  BY DEF Typed, TypeOK
<1>1. ASSUME NEW p \in Processes, Start(p) PROVE AddsUp'
  BY <1>0, <1>1 DEF Start, Goto, AddsUp, Whole, ToldBy, local
<1>2. ASSUME NEW p \in Processes, Load(p) PROVE AddsUp'
  <2>1. \A q \in Processes : q # p => pc[q] = "off"
    BY <1>2 DEF Load, Solo, history
  <2>2. CASE file = Torn /\ Gone(p)
    BY <1>0, <1>2, <2>2 DEF Load, Gone, Goto, Set, AddsUp, Whole, ToldBy, history
  <2>3. CASE /\ file # Torn
             /\ memory' = Set(memory, p, IF file = Missing THEN NewState ELSE file)
             /\ Goto(p, "check") /\ UNCHANGED <<report, learned>>
    <3>1. told = (IF file = Missing THEN NewState ELSE file).findings
      BY <1>0, <1>2, <2>1, <2>3, NewStateKnows DEF Load, AddsUp, Whole, history
    <3>2. told' = told /\ file' = file /\ memory'[p].findings = told /\ pc'[p] = "check"
      BY <1>0, <1>2, <2>3, <3>1 DEF Load, Set, Goto, history
    <3>3. \A q \in Processes : q # p => pc'[q] = "off"
      BY <1>0, <2>1, <2>3 DEF Goto
    <3>4. file = Missing => told = {}
      BY <1>2 DEF Load, AddsUp, history
    <3>5. Whole => told = file.findings
      BY <2>3, <3>1 DEF Whole
    <3> QED BY <3>2, <3>3, <3>4, <3>5 DEF AddsUp, Whole
  <2> QED BY <1>2, <2>2, <2>3 DEF Load
<1>3. ASSUME NEW p \in Processes, CheckFails(p) PROVE AddsUp'
  <2>1. told = memory[p].findings
    BY <1>3 DEF CheckFails, AddsUp, history
  <2>2. ToldBy(p)' = memory'[p].findings
    BY <1>0, <1>3, <2>1 DEF CheckFails, ToldBy, ReportFailed, NoReport, Set, history
  <2> QED BY <1>0, <1>3, <2>2 DEF CheckFails, Goto, Set, AddsUp, Whole, ToldBy, history
<1>4. ASSUME NEW p \in Processes, NEW o \in Outcomes, Check(p, o) PROVE AddsUp'
  <2>1. told = memory[p].findings
    BY <1>4 DEF Check, AddsUp, history
  <2>2. /\ report'[p] = Report(memory[p], o) /\ memory'[p] = ApplyRun(memory[p], o)
        /\ told' = told
    BY <1>0, <1>4 DEF Check, Set, history
  <2>3. ToldBy(p)' = memory'[p].findings
    <3>1. \/ Report(memory[p], o).baseline
          \/ (told \ Report(memory[p], o).resolved) \cup Report(memory[p], o).appeared
               = ApplyRun(memory[p], o).findings
      BY <1>0, <2>1, ReportTells
    <3> QED BY <2>2, <3>1 DEF ToldBy
  <2> QED BY <1>0, <1>4, <2>3 DEF Check, Goto, Set, AddsUp, Whole, ToldBy, history
<1>5. ASSUME NEW p \in Processes, SaveOpen(p) PROVE AddsUp'
  BY <1>0, <1>5 DEF SaveOpen, Goto, AddsUp, Whole, ToldBy, local, history
<1>6. ASSUME NEW p \in Processes, SaveWrite(p) PROVE AddsUp'
  <2>1. ToldBy(p) = memory[p].findings
    BY <1>6 DEF SaveWrite, AddsUp
  <2>2. pc'[p] = "deliver" /\ file' # Missing
    BY <1>0, <1>6 DEF SaveWrite, Goto
  <2> QED BY <1>0, <1>6, <2>1, <2>2 DEF SaveWrite, Goto, AddsUp, Whole, ToldBy, local
<1>7. ASSUME NEW p \in Processes, SaveFails(p) PROVE AddsUp'
  <2>1. \A q \in Processes : pc[q] # "deliver"
    BY <1>7 DEF SaveFails, Solo, history
  <2> QED BY <1>0, <1>7, <2>1 DEF SaveFails, Gone, Goto, Set, AddsUp, Whole, ToldBy, history
<1>8. ASSUME NEW p \in Processes, Deliver(p) PROVE AddsUp'
  <2>1. told' = memory[p].findings /\ file = memory[p] /\ file # Missing
    BY <1>0, <1>8 DEF Deliver, AddsUp, Follows
  <2>2. \A q \in Processes : q # p => pc[q] = "off"
    BY <1>8 DEF Deliver, Solo
  <2>3. /\ file' = file /\ \A q \in Processes : q # p => pc'[q] = "off"
        /\ pc'[p] \in {"check", "off"}
        /\ pc'[p] = "check" => memory'[p] = memory[p]
    BY <1>0, <1>8, <2>2 DEF Deliver, Gone, Goto, local
  <2> QED BY <2>1, <2>3 DEF AddsUp
<1>9. ASSUME NEW p \in Processes, Die(p) PROVE AddsUp'
  <2>1. \A q \in Processes : pc[q] # "deliver"
    BY <1>9 DEF Die, Solo
  <2> QED BY <1>0, <1>9, <2>1 DEF Die, Gone, Goto, Set, AddsUp, Whole, ToldBy
<1>10. CASE Delete
  <2>1. file' = Missing /\ told' = {} /\ \A p \in Processes : pc'[p] = "off"
    BY <1>10 DEF Delete, Alive
  <2> QED BY <2>1 DEF AddsUp, Whole
<1>11. CASE UNCHANGED vars
  BY <1>11 DEF vars, AddsUp, Whole, ToldBy
<1> QED BY <1>1, <1>2, <1>3, <1>4, <1>5, <1>6, <1>7, <1>8, <1>9, <1>10, <1>11
        DEF Next, Step, Done

LEMMA IInvAlways == Spec => []IInv
<1>1. IInv /\ [Next]_vars => IInv'
  BY TypedNext, SoloNext, FollowsNext, AddsUpNext DEF IInv
<1> QED BY IInvInit, <1>1, PTL DEF Spec

\* Of every operation the state file holds what the last run that measured it
\* found, or nothing if the contract was without it since, unless processes
\* overlapped.
THEOREM KnownIsMeasured == Spec => []KnownIsLastMeasured
<1>1. IInv => KnownIsLastMeasured
  BY DEF IInv, Follows, Agrees, KnownIsLastMeasured
<1> QED BY IInvAlways, <1>1, PTL

\* The reports add up to the findings of the state file, unless processes
\* overlapped or a report was lost.
THEOREM ReportsTellAll == Spec => []ReportsAddUp
<1>1. IInv => ReportsAddUp
  BY DEF IInv, AddsUp, ReportsAddUp
<1> QED BY IInvAlways, <1>1, PTL
===============================================================================
