------------------------------- MODULE JobQueue -------------------------------
(***************************************************************************)
(* The run queue of the self-hosted server: JobQueue (server/jobs.py), the *)
(* Store methods it calls (server/store.py) and the routes in front of     *)
(* them (server/api.py), for one organization.                             *)
(*                                                                         *)
(* Flask serves every request on a thread of its own, and all of them      *)
(* share ONE sqlite3 connection whose lock is held for one statement at a  *)
(* time.  So a step below is one statement: everything a handler read      *)
(* earlier may be stale by its next step.  The connection has one open     *)
(* transaction for everybody: a statement is visible to the other threads  *)
(* at once, any thread's commit makes all of them durable, and a crash     *)
(* takes the tables back to the last commit.                               *)
(***************************************************************************)
EXTENDS Naturals, Sequences, FiniteSets, TLC

CONSTANTS Clients,         \* callers that submit, cancel and watch runs
          Workers,         \* enrolled runners; each holds one job at a time
          Keys, NoKey,     \* idempotency keys, and the absence of one
          EmptyKey,        \* the key that is an empty string
          Limit,           \* max_active_per_org
          Ops,             \* the requests that are sent
          RecordedAs,      \* statuses POST /v1/runs is sent with
          MaxSubmissions,  \* bound: runs submitted
          MaxCrashes       \* bound: restarts of the server process

Threads == Clients \cup Workers

AllOps == {"enqueue", "record", "claim", "complete", "cancel", "http_cancel", "stream"}
Pending == {"queued", "running"}
Outcomes == {"passed", "failed"}
Statuses == Pending \cup Outcomes \cup {"cancelled"}
Steps == {"idle", "find", "count", "insert", "take", "check", "update", "commit_row",
          "commit_none", "reread", "event", "commit_event", "history", "final", "reply"}
Notices == {"queued", "claimed", "finished", "cancelled"}

ASSUME QueueAssumption ==
  /\ Clients \cap Workers = {}
  /\ IsFiniteSet(Clients) /\ Clients # {}
  /\ NoKey \notin Keys
  /\ Limit \in Nat \ {0}
  /\ Ops \subseteq AllOps
  /\ RecordedAs \subseteq Statuses
  /\ MaxSubmissions \in Nat
  /\ MaxCrashes \in Nat

VARIABLES
  runs,        \* the table runs, as the shared connection sees it; a row's id is its position
  events,      \* the table run_events (which run and what; the order is abstracted)
  disk,        \* both tables as of the last commit
  pc,          \* the statement each thread executes next
  req,         \* the locals of each thread's handler
  job,         \* the run each worker has in hand (0: none)
  handed,      \* history: runs that answers to claims have given out
  acks,        \* history: answers to enqueue
  submissions, crashes

vars == <<runs, events, disk, pc, req, job, handed, acks, submissions, crashes>>
tables == <<runs, events, disk>>
history == <<job, handed, acks>>
bounds == <<submissions, crashes>>

Blank == [op |-> "none", key |-> NoKey, run |-> 0, status |-> "none",
          created |-> FALSE, seen |-> {}]

Init == /\ runs = <<>> /\ events = {}
        /\ disk = [runs |-> <<>>, events |-> {}]
        /\ pc = [t \in Threads |-> "idle"]
        /\ req = [t \in Threads |-> Blank]
        /\ job = [w \in Workers |-> 0]
        /\ handed = {} /\ acks = {}
        /\ submissions = 0 /\ crashes = 0

-------------------------------------------------------------------------------
(* Helpers: the queries of the Store and the flow of a handler. *)

Status(r) == runs[r].status
Active == {r \in DOMAIN runs : Status(r) \in Pending}
Told(r) == {e.what : e \in {v \in events : v.run = r}}
RunsOf(k) == {r \in DOMAIN runs : runs[r].key = k}

Goto(t, step) == pc' = [pc EXCEPT ![t] = step]

\* A request arrives at an idle thread, which starts at the given statement.
Begin(t, request, step) ==
  /\ pc[t] = "idle" /\ request.op \in Ops
  /\ req' = [req EXCEPT ![t] = request]
  /\ Goto(t, step)
  /\ UNCHANGED <<tables, history, crashes>>

\* What a handler does once its row is committed.
AfterRow(op) == CASE op \in {"record", "http_cancel"} -> "reply"
                  [] op = "claim" -> "reread"
                  [] OTHER -> "event"

\* The event a handler appends for what it did.
Notice(op) == CASE op = "enqueue" -> "queued"
                [] op = "claim" -> "claimed"
                [] op = "complete" -> "finished"
                [] OTHER -> "cancelled"

-------------------------------------------------------------------------------
(* Requests.  Only submissions are counted against a bound: nothing else   *)
(* creates a row, so the rest may be repeated for ever.                    *)

\* POST /v1/jobs, JobQueue.enqueue: without a key the lookup is skipped, and with
\* an empty one too, although the index of the table counts it as a key.
StartEnqueue(t, k) ==
  /\ submissions < MaxSubmissions
  /\ submissions' = submissions + 1
  /\ Begin(t, [Blank EXCEPT !.op = "enqueue", !.key = k, !.status = "queued"],
           IF k \in {NoKey, EmptyKey} THEN "count" ELSE "find")

\* POST /v1/runs: straight to the insert, whatever the status and the limit.
StartRecord(t, s) ==
  /\ submissions < MaxSubmissions
  /\ submissions' = submissions + 1
  /\ Begin(t, [Blank EXCEPT !.op = "record", !.status = s], "insert")

\* POST /v1/jobs/claim
StartClaim(w) == /\ job[w] = 0
                 /\ Begin(w, [Blank EXCEPT !.op = "claim"], "take")
                 /\ UNCHANGED submissions

\* JobQueue.complete, for the run the worker was handed.
StartComplete(w, s) ==
  /\ job[w] # 0
  /\ Begin(w, [Blank EXCEPT !.op = "complete", !.run = job[w], !.status = s], "update")
  /\ UNCHANGED submissions

\* JobQueue.cancel, and the HTTP route, which calls Store.cancel_run instead.
StartCancel(t, r, op) ==
  /\ Begin(t, [Blank EXCEPT !.op = op, !.run = r, !.status = "cancelled"], "check")
  /\ UNCHANGED submissions

\* GET /v1/runs/<id>/events: the handler reads the run before it streams.
StartStream(t, r) ==
  /\ Begin(t, [Blank EXCEPT !.op = "stream", !.run = r, !.status = Status(r)], "history")
  /\ UNCHANGED submissions

-------------------------------------------------------------------------------
(* Statements. *)

\* enqueue: an existing run that did not end badly is the answer.
FindKey(t) ==
  /\ pc[t] = "find"
  /\ LET live == {r \in RunsOf(req[t].key) : Status(r) \notin {"cancelled", "failed"}}
     IN \/ /\ live = {}
           /\ Goto(t, "count") /\ UNCHANGED req
        \/ \E r \in live : /\ req' = [req EXCEPT ![t].run = r]
                           /\ Goto(t, "reply")
  /\ UNCHANGED <<tables, history, bounds>>

\* Mutant: the comparison is off by one.
CheckLimit_OffByOne(t) ==
  /\ pc[t] = "count"
  /\ Goto(t, IF Cardinality(Active) > Limit THEN "reply" ELSE "insert")
  /\ UNCHANGED <<tables, req, history, bounds>>

\* enqueue: active_run_count against the limit; QueueFull is the 409 answer.
CheckLimit(t) ==
  /\ pc[t] = "count"
  /\ Goto(t, IF Cardinality(Active) >= Limit THEN "reply" ELSE "insert")
  /\ UNCHANGED <<tables, req, history, bounds>>

\* Mutant: no unique index on the key.
InsertRun_NoIndex(t) ==
  /\ pc[t] = "insert"
  /\ runs' = Append(runs, [status |-> req[t].status, key |-> req[t].key])
  /\ req' = [req EXCEPT ![t].run = Len(runs) + 1, ![t].created = TRUE]
  /\ Goto(t, "commit_row")
  /\ UNCHANGED <<events, disk, history, bounds>>

\* record_run: a key that is taken makes the INSERT fail, and the id of the
\* row that has it is returned instead, with no commit.  (No statement removes
\* a row or changes its key, so that lookup is part of this step.)
InsertRun(t) ==
  /\ pc[t] = "insert"
  /\ LET k == req[t].key
         taken == IF k = NoKey THEN {} ELSE RunsOf(k)
     IN \/ /\ taken = {}
           /\ runs' = Append(runs, [status |-> req[t].status, key |-> k])
           /\ req' = [req EXCEPT ![t].run = Len(runs) + 1, ![t].created = TRUE]
           /\ Goto(t, "commit_row")
        \/ \E r \in taken : /\ req' = [req EXCEPT ![t].run = r, ![t].created = TRUE]
                            /\ Goto(t, "event")
                            /\ UNCHANGED runs
  /\ UNCHANGED <<events, disk, history, bounds>>

\* claim_next_run: the row updated, or none (204), which is committed too.
Take(t, r, step) ==
  /\ runs' = [runs EXCEPT ![r].status = "running"]
  /\ req' = [req EXCEPT ![t].run = r]
  /\ Goto(t, step)

TakeNone(t) == Goto(t, "commit_none") /\ UNCHANGED <<runs, req>>

Oldest(S) == {r \in S : \A q \in S : r <= q}
Queued == {r \in DOMAIN runs : Status(r) = "queued"}

\* Mutant: a run that is running already can be claimed.
TakeOldest_Running(t) ==
  /\ pc[t] = "take"
  /\ (Active = {} /\ TakeNone(t)) \/ \E r \in Oldest(Active) : Take(t, r, "commit_row")
  /\ UNCHANGED <<events, disk, history, bounds>>

\* Mutant: the answer is sent before the claim is committed.
TakeOldest_NoCommit(t) ==
  /\ pc[t] = "take"
  /\ (Queued = {} /\ TakeNone(t)) \/ \E r \in Oldest(Queued) : Take(t, r, "reply")
  /\ UNCHANGED <<events, disk, history, bounds>>

\* Mutant: only the head of the table is looked at.
TakeOldest_HeadOnly(t) ==
  /\ pc[t] = "take"
  /\ \/ 1 \notin Queued /\ TakeNone(t)
     \/ 1 \in Queued /\ Take(t, 1, "commit_row")
  /\ UNCHANGED <<events, disk, history, bounds>>

\* Mutant: any queued run is taken, not the oldest.
TakeOldest_Any(t) ==
  /\ pc[t] = "take"
  /\ (Queued = {} /\ TakeNone(t)) \/ \E r \in Queued : Take(t, r, "commit_row")
  /\ UNCHANGED <<events, disk, history, bounds>>

\* claim_next_run: one UPDATE ... RETURNING takes the oldest queued run.
TakeOldest(t) ==
  /\ pc[t] = "take"
  /\ (Queued = {} /\ TakeNone(t)) \/ \E r \in Oldest(Queued) : Take(t, r, "commit_row")
  /\ UNCHANGED <<events, disk, history, bounds>>

\* claim_next_run: the row is read again for the answer.
Reread(t) ==
  /\ pc[t] = "reread"
  /\ req' = [req EXCEPT ![t].status = Status(req[t].run)]
  /\ Goto(t, "event")
  /\ UNCHANGED <<tables, history, bounds>>

\* Store.cancel_run reads the status ...
CheckCancel(t) ==
  /\ pc[t] = "check"
  /\ Goto(t, IF Status(req[t].run) \in Pending THEN "update" ELSE "reply")
  /\ UNCHANGED <<tables, req, history, bounds>>

\* ... and Store.update_run, for cancel and complete, writes whatever is there.
UpdateRun(t) ==
  /\ pc[t] = "update"
  /\ runs' = [runs EXCEPT ![req[t].run].status = req[t].status]
  /\ Goto(t, "commit_row")
  /\ UNCHANGED <<events, disk, req, history, bounds>>

CommitRow(t) ==
  /\ pc[t] = "commit_row"
  /\ disk' = [runs |-> runs, events |-> events]
  /\ Goto(t, AfterRow(req[t].op))
  /\ UNCHANGED <<runs, events, req, history, bounds>>

\* A claim that found nothing commits what the others have done so far.
CommitNone(t) ==
  /\ pc[t] = "commit_none"
  /\ disk' = [runs |-> runs, events |-> events]
  /\ Goto(t, "reply")
  /\ UNCHANGED <<runs, events, req, history, bounds>>

AppendEvent(t) ==
  /\ pc[t] = "event"
  /\ events' = events \cup {[run |-> req[t].run, what |-> Notice(req[t].op)]}
  /\ Goto(t, "commit_event")
  /\ UNCHANGED <<runs, disk, req, history, bounds>>

CommitEvent(t) ==
  /\ pc[t] = "commit_event"
  /\ disk' = [runs |-> runs, events |-> events]
  /\ Goto(t, "reply")
  /\ UNCHANGED <<runs, events, req, history, bounds>>

\* run_events.generate: the events so far, then the status.
ReadHistory(t) ==
  /\ pc[t] = "history"
  /\ req' = [req EXCEPT ![t].seen = Told(req[t].run)]
  /\ Goto(t, "final")
  /\ UNCHANGED <<tables, history, bounds>>

\* Mutant: the stream closes with the row the handler had read to begin with.
ReadFinal_Stale(t) ==
  /\ pc[t] = "final"
  /\ Goto(t, "reply")
  /\ UNCHANGED <<tables, req, history, bounds>>

ReadFinal(t) ==
  /\ pc[t] = "final"
  /\ req' = [req EXCEPT ![t].status = Status(req[t].run)]
  /\ Goto(t, "reply")
  /\ UNCHANGED <<tables, history, bounds>>

\* The answer reaches the caller.  The run an enqueue names is acknowledged;
\* a claim's run is in the worker's hands, a completed one is out of them.
Reply(t) ==
  /\ pc[t] = "reply"
  /\ LET q == req[t]
         named == q.op = "enqueue" /\ q.run # 0
         given == q.op = "claim" /\ q.run # 0
     IN /\ acks' = IF named THEN acks \cup {[key |-> q.key, run |-> q.run, created |-> q.created]}
                            ELSE acks
        /\ handed' = IF given THEN handed \cup {q.run} ELSE handed
        /\ job' = CASE given -> [job EXCEPT ![t] = q.run]
                    [] q.op = "complete" -> [job EXCEPT ![t] = 0]
                    [] OTHER -> job
  /\ req' = [req EXCEPT ![t] = Blank]
  /\ Goto(t, "idle")
  /\ UNCHANGED <<tables, bounds>>

\* The process dies: open requests are gone, and so is what nobody committed.
Crash ==
  /\ crashes < MaxCrashes
  /\ crashes' = crashes + 1
  /\ runs' = disk.runs /\ events' = disk.events
  /\ pc' = [t \in Threads |-> "idle"]
  /\ req' = [t \in Threads |-> Blank]
  /\ UNCHANGED <<disk, history, submissions>>

-------------------------------------------------------------------------------
Start(t) ==
  \/ /\ t \in Clients
     /\ \/ \E k \in Keys \cup {NoKey} : StartEnqueue(t, k)
        \/ \E s \in RecordedAs : StartRecord(t, s)
        \/ \E r \in DOMAIN runs : \/ StartCancel(t, r, "cancel")
                                  \/ StartCancel(t, r, "http_cancel")
                                  \/ StartStream(t, r)
  \/ /\ t \in Workers
     /\ \/ StartClaim(t)
        \/ \E s \in Outcomes : StartComplete(t, s)

Step(t) ==
  \/ FindKey(t) \/ CheckLimit(t) \/ InsertRun(t)
  \/ TakeOldest(t) \/ Reread(t)
  \/ CheckCancel(t) \/ UpdateRun(t)
  \/ CommitRow(t) \/ CommitNone(t) \/ AppendEvent(t) \/ CommitEvent(t)
  \/ ReadHistory(t) \/ ReadFinal(t) \/ Reply(t)

Next == Crash \/ \E t \in Threads : Start(t) \/ Step(t)

Spec == Init /\ [][Next]_vars

\* Threads are scheduled; a worker polls and reports for as long as it lives.
Fairness == /\ \A t \in Threads : WF_vars(Step(t))
            /\ \A w \in Workers : WF_vars(Start(w))

FairSpec == Spec /\ Fairness

\* What TLC may take for one another: clients only submit, cancel and watch,
\* workers only claim and report.
Symmetry == Permutations(Clients) \cup Permutations(Workers)

-------------------------------------------------------------------------------
(* Properties. *)

Rows == [status : Statuses, key : Keys \cup {NoKey}]
EventRows == [run : Nat, what : Notices]
Requests == [op : AllOps \cup {"none"}, key : Keys \cup {NoKey}, run : Nat,
             status : Statuses \cup {"none"}, created : BOOLEAN, seen : SUBSET Notices]

\* Every row has a status the code writes, and every id a handler, a worker or
\* an answer holds is a number of the table (0 for none).
TypeOK ==
  /\ runs \in Seq(Rows)
  /\ events \subseteq EventRows
  /\ disk \in [runs : Seq(Rows), events : SUBSET EventRows]
  /\ pc \in [Threads -> Steps]
  /\ req \in [Threads -> Requests]
  /\ job \in [Workers -> Nat]
  /\ handed \subseteq Nat
  /\ acks \subseteq [key : Keys \cup {NoKey}, run : Nat, created : BOOLEAN]
  /\ submissions \in Nat /\ crashes \in Nat

PhaseOf(row) == CASE row.status = "queued" -> "waiting"
                  [] row.status = "running" -> "held"
                  [] OTHER -> "over"
Rank(row) == CASE row.status = "queued" -> 0
               [] row.status = "running" -> 1
               [] OTHER -> 2

\* A run is given to one worker once: no answer on its way to a worker names a
\* run that was given out before, or that another answer names (claim_next_run),
\* across restarts of the server too.
ClaimedOnce ==
  \A w \in Workers :
    pc[w] = "reply" /\ req[w].op = "claim" /\ req[w].run # 0 =>
      /\ req[w].run \notin handed
      /\ \A v \in Workers \ {w} :
           pc[v] = "reply" /\ req[v].op = "claim" => req[v].run # req[w].run

\* What a caller was told survives a restart: a run given to a worker is in the
\* committed table and not queued there, and a run acknowledged as created is
\* in it under the key it was submitted with.
AnsweredIsDurable ==
  /\ \A r \in handed : r \in DOMAIN disk.runs /\ disk.runs[r].status # "queued"
  /\ \A a \in acks : a.created => /\ a.run \in DOMAIN disk.runs
                                  /\ disk.runs[a.run].key = a.key

\* The committed table only grows, and a committed run never goes back to an
\* earlier phase, however commits and restarts are interleaved.
NoGoingBack ==
  [][/\ Len(disk.runs) <= Len(disk'.runs)
     /\ \A r \in DOMAIN disk.runs : /\ Rank(disk.runs[r]) <= Rank(disk'.runs[r])
                                    /\ disk.runs[r].key = disk'.runs[r].key]_disk

\* The limit is checked in one statement and used in a later one, so it can be
\* exceeded -- but only by the requests that were between the two: with C
\* clients submitting through enqueue, by at most C - 1.
OvershootBounded == Cardinality(Active) <= Limit + Cardinality(Clients) - 1

\* "enqueue with the same idempotency_key returns the existing run": all the
\* answers to one key name one run, whoever asks and whatever became of it.
SameKeySameRun == \A a, b \in acks : a.key = b.key /\ a.key # NoKey => a.run = b.run

\* enqueue: "created=False on idempotent replay": a run an enqueue is about to
\* report as created was never reported before.
CreatedIsNew ==
  \A t \in Clients :
    pc[t] = "reply" /\ req[t].op = "enqueue" /\ req[t].created =>
      \A a \in acks : a.run # req[t].run

\* While no request is at work on a run, its events tell the status it is in.
ProgressIsLogged ==
  \A r \in DOMAIN runs :
    (\A t \in Threads : req[t].run # r) =>
      /\ Status(r) = "queued" => "queued" \in Told(r)
      /\ Status(r) = "running" => "claimed" \in Told(r)
      /\ Status(r) \in Outcomes => "finished" \in Told(r)
      /\ Status(r) = "cancelled" => "cancelled" \in Told(r)

\* A stream whose history already says how the run ended does not close by
\* reporting it as still pending.
StreamIsConsistent ==
  \A t \in Threads :
    pc[t] = "reply" /\ req[t].op = "stream" /\ req[t].seen \cap {"finished", "cancelled"} # {}
      => req[t].status \notin Pending

\* "every state change appends a run event", and whoever streams the events hears
\* a status that goes with them: the event is appended after the row is committed
\* and the stream reads the status after the events.
HistoryIsTold == ProgressIsLogged /\ StreamIsConsistent

\* Every request is one step of the abstract queue, or none.
Phases == INSTANCE RunPhases WITH phase <- [r \in DOMAIN runs |-> PhaseOf(runs[r])]
ImplementsRunPhases == Phases!Spec

\* No queued run is left waiting while a worker keeps polling and reporting.
EveryRunEnds ==
  \A r \in 1..MaxSubmissions :
    (r \in DOMAIN runs /\ Status(r) = "queued")
      ~> (r \in DOMAIN runs /\ Status(r) \notin Pending)
===============================================================================
