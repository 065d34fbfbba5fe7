--------------------------- MODULE PipelineCommands ---------------------------
(***************************************************************************)
(* Six kinds of commands a pipeline runs on a project: the release gate,   *)
(* the sweep and its digests, the checks of an MCP server, those of        *)
(* recorded or live traffic, measurements, and the graph of references.    *)
(* Each keeps files of its own and reads nobody else's, so they are put    *)
(* side by side, one of them in each behaviour.                            *)
(***************************************************************************)
EXTENDS ReleaseTrain, Integers

CONSTANTS Paths, Teams, Unowned, Contents, BaseTree, RuleSets, Limit, MaxEdits,
          Manifests, Surfaces, Servers, Grades, Replies, Asks, MaxPages, MaxDeploys, MaxJobs,
          Var, JsonTypes, Wildcards, SafeMethods, ValueCap, Runners, Ops, Was, Corpora, Behaviours,
          Files, Commands, Budgets, Statuses, MaxRuns, MaxRollouts,
          Contracts, Targets, Older, Tolerances, Policies, Warmup, Profiles, PoolSize,
          TicksPerSlot, MaxBurst, MaxClock, MaxCommands,
          Disks, Walked, Redone, MaxFiles, MaxRemote, MaxDepth, MaxSaves

VARIABLES stage, \* which command this behaviour is about
          tree, rules, sweep, artifact, since, sent, told, edits,
          server, served, manifest, lock, reviewed, job, answer, seen, deploys, jobs,
          service, baseline, recorded, running, verdict, runs, rollouts,
          stored, ended, load, clock, commands,
          disk, allow, waiting, run, loaded, graph, saves

(* What the modules side by side assume of their constants. *)

ASSUME HealthAssumption ==
  /\ Paths \subseteq Nat /\ IsFiniteSet(Paths) /\ Limit \in Nat
  /\ Unowned \notin Teams
  /\ RuleSets \subseteq Seq([matches : SUBSET Paths, owners : (SUBSET Teams) \ {{}}])

\* A file is named where one is given; a recording has an end and whole seconds.
ASSUME ChecksAssumption ==
  /\ MaxRuns \in Nat /\ MaxRollouts \in Nat
  /\ \A c \in Commands : c.save \in Files \cup {None} /\ c.baseline \in Files \cup {None}
  /\ \A name \in DOMAIN Corpora :
       Corpora[name] # None =>
         /\ IsFiniteSet(DOMAIN Corpora[name])
         /\ \A i \in DOMAIN Corpora[name] : Corpora[name][i].at \in Int \cup {None}
  /\ \A b \in Budgets : \A i \in DOMAIN b.limits :
       /\ DOMAIN b.limits[i] = {"op", "max", "window"}
       /\ \A w \in {b.window, b.limits[i].window} : w # None => w.n \in Nat

sweepVars == <<tree, rules, sweep, artifact, since, sent, told, edits>>
toolVars  == <<server, served, manifest, lock, reviewed, job, answer, seen, deploys, jobs>>
checkVars == <<service, baseline, recorded, running, verdict, runs, rollouts>>
loadVars  == <<stored, ended, load, clock, commands>>
refVars   == <<disk, allow, waiting, run, loaded, graph, saves>>

commandVars == <<stage, vars, sweepVars, toolVars, checkVars, loadVars, refVars>>

Sweeps == INSTANCE Health
Tools  == INSTANCE ToolSurface
Checks == INSTANCE RuntimeChecks
Loads  == INSTANCE Performance
Refs   == INSTANCE References WITH Contracts <- Walked

IsList(s) == Len(s) \in Nat /\ DOMAIN s = 1..Len(s)

\* A stored run tells the error rate of its counts, and the interval of that if any.
RateIsTold(stats) ==
  /\ stats.errors \in Nat /\ stats.timeouts \in Nat /\ stats.samples \in Nat
  /\ "error_rate" \in DOMAIN stats.value
  /\ stats.samples > 0 /\ stats.errors + stats.timeouts = 0 =>
       /\ stats.value["error_rate"] = 0
       /\ \/ Loads!Interval(stats, "error_rate") = None
          \/ Loads!Interval(stats, "error_rate") = Loads!RateInterval(0, stats.samples)

\* A profile has a whole number of scheduling steps, and a tolerance is a number.
ASSUME PerformanceAssumption ==
  /\ Warmup \in Nat /\ PoolSize \in Nat \ {0} /\ TicksPerSlot \in Nat \ {0}
  /\ MaxBurst \in Nat /\ MaxClock \in Nat /\ MaxCommands \in Nat
  /\ \A p \in Profiles : p.slots \in Nat
  /\ \A args \in Tolerances : IsList(args) /\ \A i \in DOMAIN args : args[i].pct \in Int
  /\ \A c \in Contracts, t \in Targets : \A op \in c.ops : IsList(t[op])
  /\ \A old \in Older : \A op \in DOMAIN old : RateIsTold(old[op])

ASSUME ToolsAssumption == Tools!SurfaceAssumption

ASSUME ReferencesAssumption == Refs!TreeAssumption

NoRelease ==
  /\ project = None /\ released = None /\ candidate = None /\ file = None
  /\ today = None /\ steps = None

NoSweep ==
  /\ tree = None /\ rules = None /\ sweep = None /\ artifact = None
  /\ since = None /\ sent = None /\ told = None /\ edits = None

NoTools ==
  /\ server = None /\ served = None /\ manifest = None /\ lock = None /\ reviewed = None
  /\ job = None /\ answer = None /\ seen = None /\ deploys = None /\ jobs = None

NoChecks ==
  /\ service = None /\ baseline = None /\ recorded = None /\ running = None
  /\ verdict = None /\ runs = None /\ rollouts = None

NoLoads ==
  /\ stored = None /\ ended = None
  /\ load = None /\ clock = None /\ commands = None

NoRefs ==
  /\ disk = None /\ allow = None /\ waiting = None /\ run = None
  /\ loaded = None /\ graph = None /\ saves = None

CommandsInit ==
  \/ stage = "release" /\ Init /\ NoSweep /\ NoTools /\ NoChecks /\ NoLoads /\ NoRefs
  \/ stage = "sweep" /\ Sweeps!Init /\ NoRelease /\ NoTools /\ NoChecks /\ NoLoads /\ NoRefs
  \/ stage = "tools" /\ Tools!Init /\ NoRelease /\ NoSweep /\ NoChecks /\ NoLoads /\ NoRefs
  \/ stage = "checks" /\ Checks!Init /\ NoRelease /\ NoSweep /\ NoTools /\ NoLoads /\ NoRefs
  \/ stage = "loads" /\ Loads!Init /\ NoRelease /\ NoSweep /\ NoTools /\ NoChecks /\ NoRefs
  \/ stage = "refs" /\ Refs!Init /\ NoRelease /\ NoSweep /\ NoTools /\ NoChecks /\ NoLoads

CommandsNext ==
  \/ stage = "release" /\ Next /\ UNCHANGED <<stage, sweepVars, toolVars, checkVars, loadVars, refVars>>
  \/ stage = "sweep" /\ Sweeps!Next /\ UNCHANGED <<stage, vars, toolVars, checkVars, loadVars, refVars>>
  \/ stage = "tools" /\ Tools!Next /\ UNCHANGED <<stage, vars, sweepVars, checkVars, loadVars, refVars>>
  \/ stage = "checks" /\ Checks!Next /\ UNCHANGED <<stage, vars, sweepVars, toolVars, loadVars, refVars>>
  \/ stage = "loads" /\ Loads!Next /\ UNCHANGED <<stage, vars, sweepVars, toolVars, checkVars, refVars>>
  \/ stage = "refs" /\ Refs!Next /\ UNCHANGED <<stage, vars, sweepVars, toolVars, checkVars, loadVars>>

CommandsSpec == CommandsInit /\ [][CommandsNext]_commandVars

-----------------------------------------------------------------------------
(* What each of them promises; the modules state it in full. *)

\* The version advice and the version check of `breaking` agree, and it names everyone
\* who loses a call (ReleaseTrain).
AdviceHolds == stage = "release" => AdviceIsEnough /\ CallersAreNamed

\* What a team was told of a failing contract is followed up by its next digest (Health).
FailureIsFollowed == Sweeps!FailureIsFollowed

\* A tool that drift calls missing was missing, or the list is called unstable (ToolSurface).
MissingIsTrueOrUnstable == stage = "tools" => Tools!MissingIsTrueOrUnstable

\* A lock check that passes means the tools that were reviewed (ToolSurface).
LockedMeansReviewed == stage = "tools" => Tools!LockedMeansReviewed

\* What passes against a baseline was completely recorded in it before, and what passes the
\* budget keeps it in every window, wherever that starts (RuntimeChecks).
PassIsEarned == stage = "checks" => Checks!BaselineHoldsTheLine /\ Checks!PassKeepsTheBudget

\* What answered in the stored run and answers nothing now fails the comparison (Performance).
DeadIsNeverGreen == stage = "loads" => Loads!DeadIsNeverGreen

\* A load run that says it kept up sent what its profile asked for (Performance).
LoadIsAsAsked == stage = "loads" => Loads!LoadIsAsAsked

\* Folding the files of a contract into one changes no reference unsaid, and the graph of
\* them leaves out no contract that an edit of a file concerns (References).
ReferencesAreKept == stage = "refs" => Refs!ReferencesAreKept
=============================================================================
