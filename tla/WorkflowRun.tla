----------------------------- MODULE WorkflowRun ------------------------------
(***************************************************************************)
(* Workflow runs against a threaded mock server through the recording      *)
(* proxy.  A run is refused or sends its steps one by one, then its        *)
(* cleanup; the proxy forwards each exchange and records it before it      *)
(* answers; the mock handles every exchange in a thread of its own.  A run *)
(* stops waiting when its step's timeout passes, while the exchange goes   *)
(* on, and the mock may be restarted with exchanges in its hands.          *)
(***************************************************************************)
EXTENDS Arazzo, MockServer

CONSTANTS Clients,          \* one run of the command each
          Jobs,             \* the manifests and inputs they may be given together
          SensitiveFields,  \* body fields whose value is never kept
          MaxEntries,       \* the corpus's entry limit
          MaxFaults         \* a bound of the model: timeouts and restarts together

\* What the loader makes of a manifest; the preflight sees to the rest.
IsManifest(w) ==
  /\ DOMAIN w = {"name", "inputs", "methods", "steps", "cleanup"}
  /\ w.steps \in Seq(Range(w.steps)) /\ w.cleanup \in Seq(Range(w.cleanup))

ASSUME WorkflowAssumption ==
  /\ IsFiniteSet(Clients) /\ MaxEntries \in Nat \ {0} /\ MaxFaults \in Nat /\ RateLimitAfter \in Int
  /\ Operations \in Seq(Range(Operations))
  /\ \A op \in Range(Operations) : op.path \in Seq(Range(op.path))
  /\ \A job \in Jobs, c \in Clients : IsManifest(job[c].w)

\* No text the commands or the mock were given names a variable, but in the steps; a
\* cleanup's bodies use the inputs only.
PlainTexts ==
  /\ \A op \in Range(Operations) : VariablesIn(op.example) = {} /\ VariablesIn(Generated(op)) = {}
  /\ \A job \in Jobs, c \in Clients :
       /\ VariablesIn(job[c].inputs) = {}
       /\ \A s \in Range(job[c].w.cleanup) : VariablesIn(s.body) \subseteq job[c].w.inputs

\* Every DELETE of an item of the collection that the mock knows takes its id from the path.
DeletesItemsOf(collection) ==
  LET deletes == {op \in Range(Operations) : op.method = "DELETE" /\ Len(op.path) = 2}
  IN  /\ \E op \in deletes : op.path[1] = collection
      /\ \A op \in deletes : op.path[1] \in {collection} \cup Templates => op.path[2] \in Templates

\* A manifest whose cleanup, where it names what a POST kept, aims at it: the variable is
\* the id of the item, which the mock answers to a body alone, and the DELETE that names
\* it goes to that item of the same collection.
CleanupAims(w) ==
  /\ \A s \in Range(w.cleanup) : DOMAIN s.extract = {}
  /\ \A s \in Range(w.steps) : DOMAIN s.extract \subseteq Placeholders
  /\ \A s \in Range(w.steps) : \A v \in DOMAIN s.extract \cap Addressed(w) :
       s.method = "POST" =>
         /\ s.extract[v] = "id" /\ DOMAIN s.body # {}
         /\ 1 \in DOMAIN s.path /\ s.path[1] \notin Placeholders
         /\ \A d \in Range(w.cleanup) :
              d.method = "DELETE" /\ v \in VariablesIn(d.path) =>
                /\ d.path = <<s.path[1], v>> /\ "DELETE" \in w.methods
                /\ DeletesItemsOf(s.path[1])
CleanupsAim ==
  \A job \in Jobs, c \in Clients : CleanupAims(job[c].w) /\ DOMAIN job[c].inputs \subseteq Placeholders

(* ------------------ recorded traffic and its replay ---------------------- *)

Redacted == "[REDACTED]"
RedactBody(body) == [f \in DOMAIN body |-> IF f \in SensitiveFields THEN Redacted ELSE body[f]]

\* One recorded exchange, redacted in memory before it is appended.
Entry(e) == [method |-> e.method, path |-> e.path, body |-> RedactBody(e.body), status |-> e.status]

\* What an executed replay leaves at the target: every entry in its order.
Replay(mock, entries) ==
  LET after[k \in 0..Len(entries)] ==
        IF k = 0 THEN mock ELSE Serve(after[k - 1], entries[k].method, entries[k].path, RedactBody(entries[k].body))
  IN  after[Len(entries)]

(* ------------------------------ the state -------------------------------- *)

VARIABLES runs,             \* each command's workflow, where it is and what it knows
          exchanges,        \* every request sent, in the order sent
          mock, capture, faults
vars == <<runs, exchanges, mock, capture, faults>>

Init ==
  /\ \E job \in Jobs :
       runs = [c \in Clients |->
         [w |-> job[c].w, inputs |-> job[c].inputs, vars |-> job[c].inputs,
          phase |-> "new", pc |-> 1, waiting |-> 0, status |-> "pass"]]
  /\ exchanges = << >>
  /\ mock = FreshMock
  /\ capture = [entries |-> << >>, afterLimit |-> 0, upstreamFailed |-> 0]
  /\ faults = [timeouts |-> 0, restarts |-> 0]

Current(r) == IF r.phase = "cleanup" THEN r.w.cleanup ELSE r.w.steps
HasStep(r) == r.phase \in {"running", "cleanup"}
AtMock == {"admit", "update", "build", "store"}
Open == {e \in DOMAIN exchanges : exchanges[e].at # "answered"}
InFlight == {e \in DOMAIN exchanges : exchanges[e].at \in AtMock}

(* ------------------------------- the engine ------------------------------ *)

\* After the steps, or the first that does not pass, comes the cleanup; after
\* the cleanup the run is done.
Settle(r) ==
  LET cleaning == IF r.phase = "running" /\ r.pc > Len(r.w.steps) THEN [r EXCEPT !.phase = "cleanup", !.pc = 1]
                  ELSE r
  IN  IF cleaning.phase = "cleanup" /\ cleaning.pc > Len(r.w.cleanup) THEN [cleaning EXCEPT !.phase = "done"]
      ELSE cleaning

\* The preflight and the engine's own checks, before anything is sent.
Start(c) ==
  LET r == runs[c]
      ready == Preflight(r.w, r.inputs) /\ MissingInputs(r.w, r.inputs) = {}
  IN  /\ r.phase = "new"
      /\ runs' = [runs EXCEPT ![c] = IF ready THEN Settle([r EXCEPT !.phase = "running"])
                                     ELSE [r EXCEPT !.phase = "refused"]]
      /\ UNCHANGED <<exchanges, mock, capture, faults>>

Pass(r) == Settle([r EXCEPT !.pc = @ + 1, !.waiting = 0])
\* Mutant: a failed run stops where it is.
Leave_Stop(r, status) ==
  IF r.phase = "cleanup" THEN Pass(r) ELSE [r EXCEPT !.status = status, !.phase = "done"]

Leave(r, status) ==
  IF r.phase = "cleanup" THEN Pass(r)
  ELSE Settle([r EXCEPT !.status = status, !.pc = Len(r.w.steps) + 1, !.waiting = 0])

\* A method outside the manifest's own list fails its step unsent; a body JSON
\* cannot carry raises out of the run, past the cleanup.
Send(c) ==
  LET r    == runs[c]
      step == Current(r)[r.pc]
      body == DeepSubstitute(step.body, r.vars)
  IN  /\ HasStep(r) /\ r.waiting = 0
      /\ \/ /\ step.method \notin r.w.methods
            /\ runs' = [runs EXCEPT ![c] = Leave(r, "fail")]
            /\ UNCHANGED exchanges
         \/ /\ step.method \in r.w.methods /\ Unsendable \in Range(body)
            /\ runs' = [runs EXCEPT ![c].phase = "raised"]
            /\ UNCHANGED exchanges
         \/ /\ step.method \in r.w.methods /\ Unsendable \notin Range(body)
            /\ exchanges' = Append(exchanges,
                 [client |-> c, phase |-> r.phase, method |-> step.method,
                  path |-> DeepSubstitute(step.path, r.vars), body |-> body,
                  at |-> "admit", status |-> 0, answer |-> << >>, id |-> "",
                  epoch |-> faults.restarts, beside |-> Open, read |-> FALSE,
                  keeps |-> DOMAIN step.extract \cap Addressed(r.w) # {}])
            /\ runs' = [runs EXCEPT ![c].waiting = Len(exchanges) + 1]
      /\ UNCHANGED <<mock, capture, faults>>

Expected(step) == IF step.status = {} THEN {200, 201, 202, 204} ELSE step.status
Extracted(step, answer) ==
  [v \in {x \in DOMAIN step.extract : step.extract[x] \in DOMAIN answer} |-> answer[step.extract[v]]]
Violated(step, e) ==
  \/ e.status \notin Expected(step)
  \/ DOMAIN Extracted(step, e.answer) # DOMAIN step.extract
  \/ \E f \in DOMAIN step.asserts : f \notin DOMAIN e.answer \/ e.answer[f] # step.asserts[f]

\* What could be extracted is kept whether or not the step passed.
Evaluate(c) ==
  LET r    == runs[c]
      step == Current(r)[r.pc]
      e    == exchanges[r.waiting]
      known == IF r.phase = "running" THEN [r EXCEPT !.vars = Merge(@, Extracted(step, e.answer))] ELSE r
  IN  /\ HasStep(r) /\ r.waiting # 0 /\ e.at = "answered"
      /\ runs' = [runs EXCEPT ![c] = IF r.phase = "running" /\ Violated(step, e) THEN Leave(known, "fail")
                                     ELSE Pass(known)]
      /\ exchanges' = [exchanges EXCEPT ![r.waiting].read = TRUE]
      /\ UNCHANGED <<mock, capture, faults>>

\* The client gives the exchange up; the proxy and the mock do not.
TimeOut(c) ==
  LET r == runs[c]
  IN  /\ HasStep(r) /\ r.waiting # 0 /\ exchanges[r.waiting].at # "answered"
      /\ faults.timeouts + faults.restarts < MaxFaults
      /\ runs' = [runs EXCEPT ![c] = Leave(r, "error")]
      /\ faults' = [faults EXCEPT !.timeouts = @ + 1]
      /\ UNCHANGED <<exchanges, mock, capture>>

(* ----------------------- the mock's handler threads ---------------------- *)

OpOf(e) == Operations[OperationFor(e.method, e.path)]
Moves(e, record) == exchanges' = [exchanges EXCEPT ![e] = record]

\* Counted, matched and checked against the deleted ones; a DELETE is applied, and an
\* update reads the item it will write back.
Admit(e) ==
  LET x == exchanges[e]
      counted == [mock EXCEPT !.count = @ + 1]
      refused == Refusal(counted, x.method, x.path)
      updates == refused = 0 /\ Updates(mock, x.method, OpOf(x), x.path)
  IN  /\ x.at = "admit"
      /\ mock' = IF refused # 0 THEN counted ELSE Deleted(counted, x.method, OpOf(x), x.path)
      /\ Moves(e, IF refused # 0 THEN [x EXCEPT !.at = "record", !.status = refused]
                  ELSE IF updates THEN [x EXCEPT !.at = "update", !.status = OpOf(x).status,
                                                 !.answer = Updated(mock, x.method, x.path, x.body)]
                  ELSE [x EXCEPT !.at = "build", !.status = OpOf(x).status])
      /\ UNCHANGED <<runs, capture, faults>>

\* Another thread may have deleted or updated the item since it was read.
Update(e) ==
  LET x == exchanges[e]
  IN  /\ x.at = "update"
      /\ mock' = WriteBack(mock, x.path, x.answer)
      /\ Moves(e, [x EXCEPT !.at = "build", !.answer = << >>])
      /\ UNCHANGED <<runs, capture, faults>>

\* A POST reads the next id here and moves the counter later.
Build(e) ==
  LET x == exchanges[e]
  IN  /\ x.at = "build"
      /\ Moves(e, IF Creates(x.method, OpOf(x)) THEN [x EXCEPT !.at = "store", !.id = ToString(mock.next)]
                  ELSE [x EXCEPT !.at = "record", !.answer = BuildBody(mock, x.method, OpOf(x), x.path)])
      /\ UNCHANGED <<runs, mock, capture, faults>>

Store(e) ==
  LET x == exchanges[e]
  IN  /\ x.at = "store"
      /\ mock' = StoreNew(mock, OpOf(x), x.path, x.body, x.id)
      /\ Moves(e, [x EXCEPT !.at = "record", !.answer = NewItem(OpOf(x), x.body, x.id)])
      /\ UNCHANGED <<runs, capture, faults>>

(* -------------------------- the recording proxy -------------------------- *)

\* Mutant: what comes after the limit is dropped in silence.
Record_Silent(e) ==
  LET x == exchanges[e]
      full == Len(capture.entries) >= MaxEntries
  IN  /\ x.at = "record"
      /\ Moves(e, [x EXCEPT !.at = IF full THEN "answered" ELSE "append"])
      /\ UNCHANGED <<runs, mock, capture, faults>>

\* The limit is looked at before the entry is made, and appended to after.
Record(e) ==
  LET x == exchanges[e]
      full == Len(capture.entries) >= MaxEntries
  IN  /\ x.at = "record"
      /\ capture' = IF full THEN [capture EXCEPT !.afterLimit = @ + 1] ELSE capture
      /\ Moves(e, [x EXCEPT !.at = IF full THEN "answered" ELSE "append"])
      /\ UNCHANGED <<runs, mock, faults>>

AppendEntry(e) ==
  LET x == exchanges[e]
  IN  /\ x.at = "append"
      /\ capture' = [capture EXCEPT !.entries = Append(@, Entry(x))]
      /\ Moves(e, [x EXCEPT !.at = "answered"])
      /\ UNCHANGED <<runs, mock, faults>>

\* The mock is stopped and started: its store is gone, and the proxy answers
\* 502 for what it was handling.
Restart ==
  /\ faults.timeouts + faults.restarts < MaxFaults
  /\ exchanges # << >>
  /\ mock' = FreshMock
  /\ faults' = [faults EXCEPT !.restarts = @ + 1]
  /\ exchanges' = [e \in DOMAIN exchanges |->
       IF e \in InFlight THEN [exchanges[e] EXCEPT !.at = "answered", !.status = 502] ELSE exchanges[e]]
  /\ capture' = [capture EXCEPT !.upstreamFailed = @ + Cardinality(InFlight)]
  /\ UNCHANGED runs

Next ==
  \/ \E c \in Clients : Start(c) \/ Send(c) \/ Evaluate(c) \/ TimeOut(c)
  \/ \E e \in DOMAIN exchanges : Admit(e) \/ Update(e) \/ Build(e) \/ Store(e) \/ Record(e)
                                \/ AppendEntry(e)
  \/ Restart

Spec == Init /\ [][Next]_vars

(* ------------------------------- properties ------------------------------ *)

Ended(c) == runs[c].phase \in {"done", "refused", "raised"}
Quiescent == Open = {} /\ \A c \in Clients : Ended(c)
Undisturbed(c) ==
  /\ faults.timeouts = 0 /\ faults.restarts = 0
  /\ \A e \in DOMAIN exchanges : \/ exchanges[e].client # c /\ \A f \in exchanges[e].beside : exchanges[f].client # c
                                 \/ exchanges[e].client = c /\ exchanges[e].beside = {}
Sequential == \A e \in DOMAIN exchanges : exchanges[e].beside = {}
Overwrites(w) ==
  \E i, j \in DOMAIN w.steps : i # j /\ DOMAIN w.steps[i].extract \cap DOMAIN w.steps[j].extract # {}
StoredBy(at) ==
  {e \in DOMAIN exchanges : /\ exchanges[e].id = at[2] /\ exchanges[e].path[1] = at[1]
                            /\ exchanges[e].epoch = faults.restarts}

\* A manifest that passed the preflight never sends the text of a placeholder:
\* every variable an authored step uses has been supplied or extracted by the
\* time the step goes out (graph.py's WF-MISSING-VAR against engine.run).
NoPlaceholderIsSent ==
  \A e \in DOMAIN exchanges :
    exchanges[e].phase = "running" =>
      (Range(exchanges[e].path) \cup Range(exchanges[e].body)) \cap Placeholders = {}

\* When every run has ended, a resource that the mock still answers for is left only
\* for a reason: the run that made it gave the answer up, the mock was over its rate
\* limit, its step keeps no id, the preflight warned about it, a later step keeps its
\* own id under the same name, of which nothing warns, or the run raised past its
\* cleanup, though docs/workflow-authoring.md:29 and stateful/engine.py:221 say that the
\* cleanup always runs.  Neither another run's update nor its POST is such a reason: a
\* PATCH that read the item before the DELETE writes it back, but the mock keeps
\* answering 404 for it (mock/server.py:145-158 against 160-165).
Standing == DOMAIN mock.store \ mock.deleted
LeftoversAreExplained ==
  Quiescent =>
    \A at \in Standing : \E e \in StoredBy(at) :
      LET x == exchanges[e]
          w == runs[x.client].w
      IN  \/ ~ x.read \/ ~ x.keeps
          \/ runs[x.client].phase = "raised" \/ mock.count > RateLimitAfter
          \/ IncompleteCleanup(w) # {} \/ Overwrites(w)

\* The mock's id counter is read and moved in two steps: two resources get one
\* id only when their requests were open at the same time.
SharedIdMeansOverlap ==
  \A f \in DOMAIN exchanges : \A e \in 1..(f - 1) :
    LET x == exchanges[e]
        y == exchanges[f]
    IN  x.id # "" /\ x.id = y.id /\ x.epoch = y.epoch => e \in y.beside

\* Every exchange is kept or counted as skipped, and the limit is exceeded by no more
\* than the requests open beside the last one (capture.record looks, then appends).
CorpusAccountsForAll ==
  /\ Len(capture.entries) + capture.afterLimit + capture.upstreamFailed
       = Cardinality(DOMAIN exchanges \ Open)
  /\ Len(capture.entries) < MaxEntries + Cardinality(Clients) + faults.timeouts

\* One request after the other, the limit is the hard cap that docs/capture.md:81-84 and
\* traffic/capture.py:223-226 call it; beside each other they exceed it, as above.
CapHoldsAlone == Sequential => Len(capture.entries) <= MaxEntries

\* Recorded whole and in order, replayed at a fresh mock: what a sensitive field holds
\* after it was hidden, generated by the mock, or is the id.
ReplayRebuilds ==
  Open = {} /\ Sequential /\ faults.restarts = 0 /\ capture.afterLimit = 0 =>
    LET again == Replay(FreshMock, capture.entries)
    IN  /\ again.count = mock.count /\ again.next = mock.next /\ again.deleted = mock.deleted
        /\ DOMAIN again.store = DOMAIN mock.store
        /\ \A at \in DOMAIN mock.store :
             /\ RedactBody(again.store[at]) = RedactBody(mock.store[at])
             /\ \A f \in DOMAIN again.store[at] \cap SensitiveFields :
                  again.store[at][f] \in {Redacted, "gen", at[2]}

\* The corpus tells the run: it accounts for every exchange the proxy answered, keeps its
\* limit when they came one after the other and exceeds it by their overlap at most, and
\* replayed at a fresh mock it builds the same resources up to redaction, with the
\* same ids and the same deletions (capture.record, replay, redact).
CorpusTellsTheRun == CorpusAccountsForAll /\ CapHoldsAlone /\ ReplayRebuilds
===============================================================================
