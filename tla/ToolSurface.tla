----------------------------- MODULE ToolSurface -----------------------------
(***************************************************************************)
(* The tools an MCP server serves, against the manifest and the lock a     *)
(* team agreed on: `drift` on a manifest (runtime/mcp_drift.py,            *)
(* runtime/mcp_auth.py, runtime/mcp_invoke.py), `mcp-lock`                 *)
(* (runtime/mcp_lock.py) and the client under both (specs/mcp/runner.py),  *)
(* against a server that pages its list by offset (mock/mcp_server.py).    *)
(*                                                                         *)
(* The server is redeployed at any time, also between two pages.           *)
(***************************************************************************)
EXTENDS Integers, Sequences, FiniteSets

CONSTANTS Manifests,   \* declared tool lists
          Surfaces,    \* the tool lists a deploy may serve
          Servers,     \* [discover, pageSize, cacheFields, auth, where]
          Grades,      \* <<declared schema, served schema>> -> the severity of the change
          Replies,     \* what a call may answer: [error, leaks, odd, structured], or None: lost
          Asks,        \* [invoke, execute, allow]: what a drift run is asked to call
          MaxPages,    \* --max-list-pages
          None,
          MaxDeploys, MaxJobs   \* bounds

\* The tools of all surfaces, and what a run knows while it lasts.
Tools == UNION { {tools[i] : i \in DOMAIN tools} : tools \in Surfaces }
Phases == {"probe", "first", "second", "anonymous", "report", "compare"}
Jobs ==
  [phase : Phases, cursor : Nat, pages : Nat, read : Seq(Tools), first : Seq(Tools), second : Seq(Tools),
   exhausted : BOOLEAN, legacy : BOOLEAN, anonymous : {None, "empty", "served", "refused", "lost"},
   credentialed : BOOLEAN, kind : {"lock", "drift"}, action : {"check", "write"},
   key : BOOLEAN, sign : BOOLEAN, force : BOOLEAN, ask : Asks \cup {None}]

SurfaceAssumption ==
  /\ MaxPages \in Nat \ {0} /\ None \notin Nat /\ None \notin Jobs
  /\ \A s \in Servers : s.pageSize \in Nat \ {0}
  /\ Surfaces \subseteq Seq(Tools)

VARIABLES server,    \* how this server behaves
          served,    \* what it serves now
          manifest,  \* what was declared
          lock,      \* mcp.lock: [surface, tools, signature], or None
          reviewed,  \* the surface mcp-lock last wrote, or None
          job,       \* the command being run, or None
          answer,    \* the command that ran last: [kind, exit, findings, ...]
          seen,      \* history: the surfaces served while the command ran, in their order
          deploys, jobs

vars == <<server, served, manifest, lock, reviewed, job, answer, seen, deploys, jobs>>

Hints == {"readOnlyHint", "destructiveHint", "idempotentHint", "openWorldHint"}

Finding(rule, severity, tool) == [rule |-> rule, severity |-> severity, tool |-> tool]

Names(tools) == { tools[i].name : i \in { j \in DOMAIN tools : tools[j].name # None } }

-----------------------------------------------------------------------------
(* The manifest. *)

\* The entries that become operations: named, and the first of their name.
Kept(tools) ==
  { i \in DOMAIN tools : tools[i].name # None /\ \A j \in 1..(i - 1) : tools[j].name # tools[i].name }

Operations(tools) == [n \in Names(tools) |-> tools[CHOOSE i \in Kept(tools) : tools[i].name = n]]

ManifestFindings(tools) ==
  { Finding("MCP-TOOL-NAME-MISSING", "ERROR", None) : i \in { j \in DOMAIN tools : tools[j].name = None } }
  \cup { Finding("MCP-TOOL-DUPLICATE", "ERROR", tools[i].name) :
           i \in { j \in DOMAIN tools : tools[j].name # None } \ Kept(tools) }
  \cup { Finding("MCP-INPUT-SCHEMA-MISSING", "ERROR", tools[i].name) :
           i \in { j \in Kept(tools) : tools[j].schema = None } }
  \cup { Finding("MCP-INPUT-SCHEMA-NOT-OBJECT", "ERROR", tools[i].name) :
           i \in { j \in Kept(tools) : tools[j].schema # None /\ ~tools[j].object } }

-----------------------------------------------------------------------------
(* The server. *)

Authorized(credentialed) == server.auth = "open" \/ credentialed

Refuses(credentialed) == ~Authorized(credentialed) /\ server.auth # "partial"

\* A server may show a part of its tools to a caller who presents nothing.
ShownTo(credentialed, tools) ==
  IF Authorized(credentialed) \/ tools = <<>> THEN tools ELSE <<Head(tools)>>

\* A page is cut out of what is served now, whatever the cursor was handed out for.
Page(tools, cursor) ==
  LET end == cursor + server.pageSize
  IN [tools |-> SubSeq(tools, cursor + 1, IF end < Len(tools) THEN end ELSE Len(tools)),
      next  |-> IF end < Len(tools) THEN end ELSE None]

-----------------------------------------------------------------------------
(* Drift. *)

Conformance(tools) ==
  (IF server.cacheFields THEN {} ELSE {Finding("MCP-CONF-LIST-RESULT-INCOMPLETE", "WARN", None)})
  \cup { Finding("MCP-CONF-TOOL-NAME-MISSING", "ERROR", None) :
           i \in { j \in DOMAIN tools : tools[j].name = None } }
  \cup { Finding("MCP-CONF-INPUT-SCHEMA-MISSING", "ERROR", tools[i].name) :
           i \in { j \in DOMAIN tools : tools[j].name # None /\ tools[j].schema = None } }
  \cup { Finding("MCP-CONF-INPUT-SCHEMA-NOT-OBJECT", "ERROR", tools[i].name) :
           i \in { j \in DOMAIN tools :
                     tools[j].name # None /\ tools[j].schema # None /\ ~tools[j].object } }

NameCount(tools, n) == Cardinality({ i \in DOMAIN tools : tools[i].name = n })

NamesInOrder(tools) ==
  LET Named(t) == t.name # None IN [i \in DOMAIN SelectSeq(tools, Named) |-> SelectSeq(tools, Named)[i].name]

\* Two listings on two connections: the set must not vary, the order should not.
Stability(first, second) ==
  IF \E n \in Names(first) \cup Names(second) : NameCount(first, n) # NameCount(second, n)
  THEN {Finding("MCP-CONF-LIST-UNSTABLE", "ERROR", None)}
  ELSE IF NamesInOrder(first) # NamesInOrder(second)
  THEN {Finding("MCP-CONF-LIST-ORDER-NONDETERMINISTIC", "INFO", None)}
  ELSE {}

\* Mutant: the page cap forgotten.
Presence_Capped(declared, observed, exhausted) ==
  { Finding("MCP-DRIFT-TOOL-MISSING", "ERROR", n) : n \in Names(declared) \ Names(observed) }
  \cup { Finding("MCP-DRIFT-TOOL-UNDECLARED", "WARN", n) : n \in Names(observed) \ Names(declared) }

\* Only what all pages together did not show is missing.
Presence(declared, observed, exhausted) ==
  { Finding("MCP-DRIFT-TOOL-MISSING", "ERROR", n) :
      n \in IF exhausted THEN Names(declared) \ Names(observed) ELSE {} }
  \cup { Finding("MCP-DRIFT-TOOL-UNDECLARED", "WARN", n) : n \in Names(observed) \ Names(declared) }

Grade(old, new) == IF old = new THEN None ELSE Grades[<<old, new>>]

SchemaDrift(declared, observed) ==
  LET want == Operations(declared) got == Operations(observed)
      changed == { n \in DOMAIN want \cap DOMAIN got : Grade(want[n].schema, got[n].schema) # None }
  IN { LET grade == Grade(want[n].schema, got[n].schema)
       IN Finding(IF grade = "ERROR" THEN "MCP-DRIFT-SCHEMA" ELSE "MCP-DRIFT-SCHEMA-COMPATIBLE", grade, n)
       : n \in changed }

Annotations(declared, observed) ==
  LET want == Operations(declared) got == Operations(observed)
  IN { Finding("MCP-DRIFT-ANNOTATION", "WARN", p[1]) :
         p \in { q \in (DOMAIN want \cap DOMAIN got) \X Hints :
                   (q[2] \in want[q[1]].hints) # (q[2] \in got[q[1]].hints) } }

\* Serving the list to everybody is graded by where the server stands.
AnonymousSeverity(where) ==
  CASE where = "local" -> "INFO" [] where = "production" -> "ERROR" [] OTHER -> "WARN"

\* The anonymous listing: None when none was made, or how it ended.
AuthPosture(run) ==
  LET anonymous == Finding("MCP-AUTH-ANONYMOUS-LIST", AnonymousSeverity(server.where), None)
  IN (IF server.tls \/ server.where = "local" THEN {}
      ELSE {Finding("MCP-AUTH-PLAINTEXT-TRANSPORT", "WARN", None)})
     \cup IF ~run.credentialed THEN {anonymous}
          ELSE CASE run.anonymous = "refused" ->
                      {Finding("MCP-AUTH-ENFORCED", "INFO", None)}
                      \cup (IF server.auth = "deny-unchallenged"
                            THEN {Finding("MCP-AUTH-NO-CHALLENGE", "WARN", None)} ELSE {})
                 [] run.anonymous = "lost" -> {Finding("MCP-AUTH-INDETERMINATE", "INFO", None)}
                 [] run.anonymous = "empty" -> {Finding("MCP-AUTH-ENFORCED", "INFO", None)}
                 [] OTHER -> {anonymous}

DriftFindings(run) ==
  (IF run.legacy THEN {Finding("MCP-DRIFT-LEGACY-SERVER", "INFO", None)} ELSE {})
  \cup (IF run.exhausted THEN {} ELSE {Finding("MCP-DRIFT-PAGINATION-CAPPED", "WARN", None)})
  \cup AuthPosture(run)
  \cup Conformance(run.first)
  \cup Stability(run.first, run.second)
  \cup { f \in ManifestFindings(run.first) : f.severity # "INFO" }
  \cup Presence(manifest, run.first, run.exhausted)
  \cup SchemaDrift(manifest, run.first)
  \cup Annotations(manifest, run.first)

\* A runtime observation fails the run as soon as it is a warning.
Gate(findings) ==
  IF \E f \in findings : f.severity \in {"WARN", "ERROR"} THEN "findings" ELSE "ok"

-----------------------------------------------------------------------------
(* Calling tools. *)

\* A call is refused for a name nobody declared, and for production unless allowed.
Refused(ask) ==
  \/ ~(ask.invoke \subseteq Names(manifest))
  \/ ask.execute /\ server.where \notin {"local", "dev", "staging"} /\ ~ask.allow

\* What the answer to one call gets wrong.
ResultFindings(tool, reply) ==
  IF reply.error THEN {Finding("MCP-DRIFT-CALL-ERROR-SHAPE", "WARN", tool)}
  ELSE (IF reply.leaks THEN {Finding("MCP-CALL-RESULT-CREDENTIAL", "ERROR", tool)} ELSE {})
       \cup (IF reply.odd THEN {Finding("MCP-CONF-CALL-CONTENT-BLOCK-UNKNOWN", "WARN", tool)} ELSE {})
       \cup CASE ~Operations(manifest)[tool].output -> {}
              [] Operations(manifest)[tool].output /\ reply.structured = "none" ->
                   {Finding("MCP-DRIFT-CALL-NO-STRUCTURED-CONTENT", "WARN", tool)}
              [] Operations(manifest)[tool].output /\ reply.structured = "misfit" ->
                   {Finding("MCP-DRIFT-CALL-OUTPUT-SCHEMA", "ERROR", tool)}
              [] OTHER -> {}

\* The calls of a plan that are made: without --execute, or refused, nothing is sent.
Sent(ask) == IF ask.execute /\ ~Refused(ask) THEN ask.invoke ELSE {}

\* invoke_tools: what the calls say, or None when one of them was lost.
InvokeTools(replies) ==
  IF \E n \in DOMAIN replies : replies[n] = None THEN None
  ELSE UNION { ResultFindings(n, replies[n]) : n \in DOMAIN replies }

-----------------------------------------------------------------------------
(* The lock. *)

\* A surface is a bag of tools: the order of the list does not count.
Surface(tools) ==
  [t \in { tools[i] : i \in DOMAIN tools } |-> Cardinality({ i \in DOMAIN tools : tools[i] = t })]

\* A signature is over everything else the lock says.
BuildLock(tools, sign) ==
  [surface |-> Surface(tools), tools |-> tools, signature |-> IF sign THEN Surface(tools) ELSE None]

\* Mutant: the signature is not looked at.
SignatureState_Unread(key) ==
  IF lock.signature = None THEN "absent" ELSE IF ~key THEN "unverified" ELSE "valid"

SignatureState(key) ==
  IF lock.signature = None THEN "absent" ELSE IF ~key THEN "unverified"
  ELSE IF lock.signature # lock.surface THEN "invalid" ELSE "valid"

SignatureFindings(key) ==
  CASE SignatureState(key) = "absent" -> {Finding("MCP-LOCK-UNSIGNED", "INFO", None)}
    [] SignatureState(key) = "unverified" -> {Finding("MCP-LOCK-SIGNATURE-UNVERIFIED", "WARN", None)}
    [] SignatureState(key) = "invalid" -> {Finding("MCP-LOCK-SIGNATURE-INVALID", "ERROR", None)}
    [] OTHER -> {}

LockFindings(key, tools) ==
  SignatureFindings(key)
  \cup (IF Surface(tools) = lock.surface THEN {}
        ELSE { Finding("MCP-LOCK-TOOL-ADDED", "ERROR", n) : n \in Names(tools) \ Names(lock.tools) }
             \cup { Finding("BRK-RPC-REMOVED", "ERROR", n) : n \in Names(lock.tools) \ Names(tools) }
             \cup SchemaDrift(lock.tools, tools))

\* Any change fails, not just a breaking one.
LockExit(key, tools) ==
  IF Surface(tools) # lock.surface \/ SignatureState(key) = "invalid" THEN "findings"
  ELSE Gate(LockFindings(key, tools))

-----------------------------------------------------------------------------
(* The commands. *)

Answer(kind, exit, findings, tools) ==
  [kind |-> kind, exit |-> exit, findings |-> findings, tools |-> tools,
   credentialed |-> job.credentialed,
   verified |-> kind = "check" /\ lock # None /\ lock.signature # None /\ job.key]

End(kind, exit, findings, tools) ==
  /\ answer' = Answer(kind, exit, findings, tools)
  /\ job' = None

Idle == [phase |-> "first", cursor |-> 0, pages |-> 0, read |-> <<>>, first |-> <<>>, second |-> <<>>,
         exhausted |-> TRUE, legacy |-> FALSE, anonymous |-> None, credentialed |-> FALSE,
         kind |-> "lock", action |-> "check", key |-> FALSE, sign |-> FALSE, force |-> FALSE, ask |-> None]

Begin(command) ==
  /\ job = None /\ jobs < MaxJobs
  /\ job' = command
  /\ jobs' = jobs + 1
  /\ seen' = <<served>>
  /\ UNCHANGED <<server, served, manifest, lock, reviewed, answer, deploys>>

StartDrift ==
  \E credentialed \in BOOLEAN, ask \in Asks :
    Begin([Idle EXCEPT !.kind = "drift", !.phase = "probe", !.credentialed = credentialed, !.ask = ask])

StartLock ==
  \E action \in {"write", "check"}, credentialed, key, sign, force \in BOOLEAN :
    /\ action = "check" => ~sign /\ ~force
    /\ Begin([Idle EXCEPT !.action = action, !.credentialed = credentialed, !.key = key,
                          !.sign = sign, !.force = force])

\* A run that may call tools has to name them; then server/discover: a refused revision ends the run before any tool is compared.
Probe ==
  /\ job # None /\ job.phase = "probe"
  /\ IF job.ask.execute /\ job.ask.invoke = {} THEN End("drift", "usage", {}, <<>>)
     ELSE IF Refuses(job.credentialed) THEN End("drift", "unreachable", {}, <<>>)
     ELSE IF server.discover = "unsupported"
     THEN End("drift", "findings", {Finding("MCP-DRIFT-PROTOCOL-UNSUPPORTED", "ERROR", None)}, <<>>)
     ELSE /\ job' = [job EXCEPT !.phase = "first", !.legacy = server.discover = "method-not-found"]
          /\ UNCHANGED answer
  /\ UNCHANGED <<server, served, manifest, lock, reviewed, seen, deploys, jobs>>

Presents == IF job.phase = "anonymous" THEN FALSE ELSE job.credentialed

\* What a listing that ended leaves, and what the command does next.
AfterListing(read, exhausted) ==
  LET next == [job EXCEPT !.cursor = 0, !.pages = 0, !.read = <<>>]
  IN CASE job.phase = "first" ->
            [next EXCEPT !.first = read, !.exhausted = exhausted,
                         !.phase = IF job.kind = "lock" THEN "compare" ELSE "second"]
       [] job.phase = "second" ->
            [next EXCEPT !.second = read, !.phase = IF job.credentialed THEN "anonymous" ELSE "report"]
       [] OTHER ->
            [next EXCEPT !.anonymous = IF read = <<>> THEN "empty" ELSE "served", !.phase = "report"]

Listing == job # None /\ job.phase \in {"first", "second", "anonymous"}

ReadPage ==
  /\ Listing
  /\ IF Refuses(Presents)
     THEN IF job.phase = "anonymous"
          THEN job' = [job EXCEPT !.anonymous = "refused", !.phase = "report"] /\ UNCHANGED answer
          ELSE End(job.kind, "unreachable", {}, <<>>)
     ELSE LET page == Page(ShownTo(Presents, served), job.cursor)
              read == job.read \o page.tools
              last == page.next = None \/ job.pages + 1 = MaxPages
          IN /\ job' = IF last THEN AfterListing(read, page.next = None)
                       ELSE [job EXCEPT !.cursor = page.next, !.pages = @ + 1, !.read = read]
             /\ UNCHANGED answer
  /\ UNCHANGED <<server, served, manifest, lock, reviewed, seen, deploys, jobs>>

\* A lost connection is no evidence: the run ends, or the posture stays open.
LoseConnection ==
  /\ Listing
  /\ IF job.phase = "anonymous"
     THEN job' = [job EXCEPT !.anonymous = "lost", !.phase = "report"] /\ UNCHANGED answer
     ELSE End(job.kind, "unreachable", {}, <<>>)
  /\ UNCHANGED <<server, served, manifest, lock, reviewed, seen, deploys, jobs>>

\* The report, and the calls asked for: a refused or lost call loses the report too.
ReportDrift ==
  /\ job # None /\ job.phase = "report"
  /\ LET ask == job.ask
     IN \E replies \in [Sent(ask) -> Replies] :
          LET invoked == InvokeTools(replies)
              findings == DriftFindings(job) \cup invoked
          IN IF ask.invoke # {} /\ Refused(ask) THEN End("drift", "usage", {}, <<>>)
             ELSE IF invoked = None THEN End("drift", "unreachable", {}, <<>>)
             ELSE End("drift", Gate(findings), findings, job.first)
  /\ UNCHANGED <<server, served, manifest, lock, reviewed, seen, deploys, jobs>>

\* A partial capture is no baseline, neither to write nor to check.
Capped == ~job.exhausted

WriteLock ==
  /\ job # None /\ job.phase = "compare" /\ job.action = "write"
  /\ IF Capped \/ (lock # None /\ ~job.force) \/ (job.sign /\ ~job.key)
     THEN End("write", "usage", {}, <<>>) /\ UNCHANGED <<lock, reviewed>>
     ELSE /\ lock' = BuildLock(job.first, job.sign)
          /\ reviewed' = Surface(job.first)
          /\ End("write", "ok", {}, job.first)
  /\ UNCHANGED <<server, served, manifest, seen, deploys, jobs>>

CheckLock ==
  /\ job # None /\ job.phase = "compare" /\ job.action = "check"
  /\ IF Capped \/ lock = None THEN End("check", "usage", {}, <<>>)
     ELSE End("check", LockExit(job.key, job.first), LockFindings(job.key, job.first), job.first)
  /\ UNCHANGED <<server, served, manifest, lock, reviewed, seen, deploys, jobs>>

-----------------------------------------------------------------------------
(* The server and the repository. *)

Deploy ==
  /\ deploys < MaxDeploys
  /\ \E tools \in Surfaces \ {served} :
       /\ served' = tools
       /\ seen' = IF job = None THEN seen ELSE Append(seen, tools)
  /\ deploys' = deploys + 1
  /\ UNCHANGED <<server, manifest, lock, reviewed, job, answer, jobs>>

\* Somebody edits the lock by hand, and may leave the signature out.
EditLock ==
  /\ job = None /\ lock # None
  /\ \E tools \in Surfaces, signature \in {None, lock.signature} :
       /\ Surface(tools) # lock.surface
       /\ lock' = [lock EXCEPT !.surface = Surface(tools), !.tools = tools, !.signature = signature]
  /\ UNCHANGED <<server, served, manifest, reviewed, job, answer, seen, deploys, jobs>>

Init ==
  /\ server \in Servers /\ served \in Surfaces /\ manifest \in Manifests
  /\ lock = None /\ reviewed = None /\ job = None
  /\ answer = [kind |-> None, exit |-> "ok", findings |-> {}, tools |-> <<>>,
             credentialed |-> FALSE, verified |-> FALSE]
  /\ seen = <<>> /\ deploys = 0 /\ jobs = 0

Next ==
  \/ StartDrift \/ StartLock \/ Probe \/ ReadPage \/ LoseConnection \/ ReportDrift
  \/ WriteLock \/ CheckLock \/ Deploy \/ EditLock

Spec == Init /\ [][Next]_vars

-----------------------------------------------------------------------------
(* What the two commands promise. *)

Reports(rule) == \E f \in answer.findings : f.rule = rule

\* A tool reported missing was absent from something the server showed during the run, or
\* the report says that the list is unstable, after one deploy at most: an offset that
\* shifts under a deploy and the page cap hide tools from a listing, and two deploys may
\* hide one from both listings (list_tools, _presence, _stability).
MissingIsTrueOrUnstable ==
  (job = None /\ answer.kind = "drift" /\ Len(seen) <= 2) =>
    \A f \in answer.findings :
      f.rule = "MCP-DRIFT-TOOL-MISSING" =>
        \/ \E i \in DOMAIN seen : f.tool \notin Names(ShownTo(answer.credentialed, seen[i]))
        \/ Reports("MCP-CONF-LIST-UNSTABLE")

\* When `mcp-lock check` passes and nothing was deployed meanwhile, the server serves,
\* tool for tool, what `mcp-lock write` recorded: unless the lock carries no signature or
\* the key is not at hand, nobody can have edited it (compare, verify_signature).
LockedMeansReviewed ==
  (job = None /\ answer.kind = "check" /\ answer.exit = "ok" /\ Len(seen) = 1) =>
    /\ Surface(answer.tools) = Surface(ShownTo(answer.credentialed, seen[1]))
    /\ answer.verified => Surface(answer.tools) = reviewed
=============================================================================
