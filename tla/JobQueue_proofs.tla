---------------------------- MODULE JobQueue_proofs ----------------------------
(***************************************************************************)
(* What holds of the run queue for any number of clients, workers, keys    *)
(* and restarts: type correctness, that a run is given to one worker once, *)
(* that acknowledged work survives a crash, that the committed table never *)
(* goes back, and how far the limit is exceeded.  And on a server that     *)
(* does not die: that a key names one run, that the events tell the        *)
(* status, and that the queue implements the abstract one, RunPhases.      *)
(*                                                                         *)
(* The inductive invariant IInv ties each handler's locals to the tables;  *)
(* KeyInv (keys) and LogInv (events) are inductive on top of it.           *)
(***************************************************************************)
EXTENDS JobQueue, SequenceTheorems, FiniteSetTheorems, TLAPS

-------------------------------------------------------------------------------
(* The tables as sequences. *)

\* A new row leaves the others and their numbers alone.
LEMMA NewRow ==
  ASSUME NEW S, NEW s \in Seq(S), NEW e \in S
  PROVE  /\ Append(s, e) \in Seq(S)
         /\ DOMAIN s = 1..Len(s) /\ Len(s) \in Nat
         /\ DOMAIN Append(s, e) = 1..(Len(s) + 1)
         /\ Len(Append(s, e)) = Len(s) + 1
         /\ \A i \in DOMAIN s : i \in DOMAIN Append(s, e) /\ Append(s, e)[i] = s[i]
         /\ Append(s, e)[Len(s) + 1] = e
  BY AppendProperties, LenProperties

\* Updating the status of a row leaves its key, and the other rows, alone.
LEMMA NewStatus ==
  ASSUME NEW s \in Seq(Rows), NEW r \in DOMAIN s, NEW v \in Statuses
  PROVE  LET n == [s EXCEPT ![r].status = v]
         IN /\ n \in Seq(Rows)
            /\ Len(n) = Len(s) /\ DOMAIN n = DOMAIN s
            /\ \A i \in DOMAIN s : i # r => n[i] = s[i]
            /\ n[r].status = v /\ n[r].key = s[r].key
<1> DEFINE e == [s[r] EXCEPT !.status = v]
<1>1. DOMAIN s = 1..Len(s) /\ Len(s) \in Nat
  BY LenProperties
<1>2. s[r] \in Rows
  BY <1>1, ElementOfSeq
<1>3. e \in Rows /\ e.status = v /\ e.key = s[r].key
  BY <1>2 DEF Rows
<1>4. [s EXCEPT ![r].status = v] = [s EXCEPT ![r] = e]
  OBVIOUS
<1> HIDE DEF e
<1>5. /\ [s EXCEPT ![r] = e] \in Seq(Rows)
      /\ Len([s EXCEPT ![r] = e]) = Len(s)
      /\ \A j \in 1..Len(s) : [s EXCEPT ![r] = e][j] = IF j = r THEN e ELSE s[j]
  BY <1>1, <1>3, ExceptSeq
<1>6. DOMAIN [s EXCEPT ![r] = e] = DOMAIN s
  OBVIOUS
<1> QED
  BY <1>1, <1>3, <1>4, <1>5, <1>6

-------------------------------------------------------------------------------
(* The inductive invariant. *)

\* Which requests can be at which statement.
OpsAt(step) ==
  CASE step = "idle" -> {"none"}
    [] step \in {"find", "count"} -> {"enqueue"}
    [] step = "insert" -> {"enqueue", "record"}
    [] step \in {"take", "commit_none", "reread"} -> {"claim"}
    [] step = "check" -> {"cancel", "http_cancel"}
    [] step = "update" -> {"complete", "cancel", "http_cancel"}
    [] step = "commit_row" -> AllOps \ {"stream"}
    [] step \in {"event", "commit_event"} -> {"enqueue", "claim", "complete", "cancel"}
    [] step \in {"history", "final"} -> {"stream"}
    [] step = "reply" -> AllOps

\* Statements that use the run their handler works on.
Using == {"check", "update", "commit_row", "reread", "event", "commit_event",
          "history", "final"}
\* Statements a claim reaches only after its row is committed.
Committed == {"reread", "event", "commit_event", "reply"}

\* A handler's locals against the tables: the run it works on exists, a run
\* taken by a claim is not queued any more, and not on disk either once that is
\* committed; a run reported as created carries the key it was asked with.
Local(t) ==
  /\ req[t].op \in OpsAt(pc[t])
  /\ pc[t] \in Using => req[t].run \in DOMAIN runs
  /\ req[t].op \in {"enqueue", "record"} => req[t].status \in Statuses
  /\ req[t].op = "record" => req[t].key = NoKey /\ req[t].status \in RecordedAs
  /\ req[t].op = "enqueue" => t \in Clients /\ req[t].status = "queued"
  /\ req[t].op \in {"complete", "cancel", "http_cancel"} =>
       req[t].status \in Statuses \ Pending
  /\ pc[t] \in {"take", "commit_none"} => req[t].run = 0
  /\ req[t].op = "claim" => t \in Workers
  /\ req[t].op = "claim" /\ req[t].run # 0 =>
       /\ req[t].run \in DOMAIN runs /\ Status(req[t].run) # "queued"
       /\ req[t].run \notin handed
       /\ pc[t] \in Committed => /\ req[t].run \in DOMAIN disk.runs
                                 /\ disk.runs[req[t].run].status # "queued"
  /\ req[t].op = "enqueue" /\ req[t].created =>
       /\ pc[t] \in {"commit_row", "event", "commit_event", "reply"}
       /\ req[t].run \in DOMAIN runs /\ runs[req[t].run].key = req[t].key
       /\ pc[t] = "reply" => /\ req[t].run \in DOMAIN disk.runs
                             /\ disk.runs[req[t].run].key = req[t].key

\* No two open claims hold one run.
Distinct ==
  \A t, u \in Threads :
    /\ req[t].op = "claim" /\ req[u].op = "claim"
    /\ req[t].run = req[u].run /\ req[t].run # 0
    => t = u

\* Table `new` has every row of `old`, none of them in an earlier phase.
Grows(old, new) ==
  /\ Len(old) <= Len(new)
  /\ \A r \in DOMAIN old : /\ r \in DOMAIN new
                           /\ old[r].key = new[r].key
                           /\ Rank(old[r]) <= Rank(new[r])

\* A job in a worker's hands is one that was handed out.
JobsHanded == \A w \in Workers : job[w] # 0 => job[w] \in handed

IInv == /\ TypeOK
        /\ Grows(disk.runs, runs)
        /\ \A t \in Threads : Local(t)
        /\ Distinct
        /\ JobsHanded
        /\ AnsweredIsDurable

-------------------------------------------------------------------------------
(* Growing tables. *)

LEMMA RankFacts ==
  ASSUME NEW row
  PROVE  /\ Rank(row) \in {0, 1, 2}
         /\ Rank(row) = 0 <=> row.status = "queued"
         /\ row.status \notin Pending => Rank(row) = 2
  BY DEF Rank, Pending

LEMMA GrowsReflexive ==
  ASSUME NEW s \in Seq(Rows)
  PROVE  Grows(s, s)
  BY LenProperties, RankFacts DEF Grows

LEMMA GrowsTransitive ==
  ASSUME NEW a \in Seq(Rows), NEW b \in Seq(Rows), NEW c \in Seq(Rows),
         Grows(a, b), Grows(b, c)
  PROVE  Grows(a, c)
<1>1. Len(a) <= Len(c)
  BY LenProperties DEF Grows
<1>2. ASSUME NEW r \in DOMAIN a
      PROVE  r \in DOMAIN c /\ a[r].key = c[r].key /\ Rank(a[r]) <= Rank(c[r])
  <2>1. r \in DOMAIN b /\ a[r].key = b[r].key /\ Rank(a[r]) <= Rank(b[r])
    BY <1>2 DEF Grows
  <2>2. r \in DOMAIN c /\ b[r].key = c[r].key /\ Rank(b[r]) <= Rank(c[r])
    BY <2>1 DEF Grows
  <2> QED
    BY <2>1, <2>2, RankFacts
<1> QED
  BY <1>1, <1>2 DEF Grows

\* A table that has a row not queued keeps it so.
LEMMA GrowsKeeps ==
  ASSUME NEW a, NEW b, Grows(a, b), NEW r \in DOMAIN a
  PROVE  /\ r \in DOMAIN b /\ b[r].key = a[r].key
         /\ a[r].status # "queued" => b[r].status # "queued"
<1>1. r \in DOMAIN b /\ a[r].key = b[r].key /\ Rank(a[r]) <= Rank(b[r])
  BY DEF Grows
<1>2. Rank(a[r]) \in {0, 1, 2} /\ Rank(b[r]) \in {0, 1, 2}
  BY RankFacts
<1>3. (Rank(a[r]) = 0 <=> a[r].status = "queued") /\ (Rank(b[r]) = 0 <=> b[r].status = "queued")
  BY RankFacts
<1> QED
  BY <1>1, <1>2, <1>3

LEMMA AppendGrows ==
  ASSUME NEW s \in Seq(Rows), NEW e \in Rows
  PROVE  Grows(s, Append(s, e))
<1>1. /\ Len(s) <= Len(Append(s, e))
      /\ \A i \in DOMAIN s : i \in DOMAIN Append(s, e) /\ Append(s, e)[i] = s[i]
  BY NewRow
<1> QED
  BY <1>1, RankFacts DEF Grows

LEMMA UpdateGrows ==
  ASSUME NEW s \in Seq(Rows), NEW r \in DOMAIN s, NEW v \in Statuses,
         v \notin Pending \/ (s[r].status = "queued" /\ v = "running")
  PROVE  Grows(s, [s EXCEPT ![r].status = v])
<1> DEFINE n == [s EXCEPT ![r].status = v]
<1>1. /\ Len(n) = Len(s) /\ DOMAIN n = DOMAIN s
      /\ \A i \in DOMAIN s : i # r => n[i] = s[i]
      /\ n[r].status = v /\ n[r].key = s[r].key
  BY NewStatus
<1>2. Len(s) \in Nat
  BY LenProperties
<1> HIDE DEF n
<1>3. Rank(s[r]) <= Rank(n[r])
  BY <1>1, RankFacts DEF Rank, Pending
<1>4. ASSUME NEW i \in DOMAIN s
      PROVE  s[i].key = n[i].key /\ Rank(s[i]) <= Rank(n[i])
  <2>1. CASE i = r
    BY <1>1, <1>3, <2>1
  <2>2. CASE i # r
    BY <1>1, <2>2, RankFacts
  <2> QED
    BY <2>1, <2>2
<1> QED
  BY <1>1, <1>2, <1>4 DEF Grows, n

-------------------------------------------------------------------------------
(* What a statement of one thread must establish. *)

\* The rest of the system during a statement of thread t.
Quiet(t) ==
  /\ \A u \in Threads \ {t} : pc'[u] = pc[u] /\ req'[u] = req[u]
  /\ UNCHANGED history
  /\ Grows(runs, runs') /\ Grows(disk.runs, disk'.runs) /\ Grows(disk'.runs, runs')

\* A claim holds the run it held, or takes one that was queued.
Takes(t) ==
  req'[t].op = "claim" /\ req'[t].run # 0 =>
    \/ req[t].op = "claim" /\ req'[t].run = req[t].run
    \/ req'[t].run \in DOMAIN runs /\ Status(req'[t].run) = "queued"

\* A thread at rest is consistent with tables that grow.
LEMMA LocalKept ==
  ASSUME NEW u \in Threads, Local(u), pc'[u] = pc[u], req'[u] = req[u],
         Grows(runs, runs'), Grows(disk.runs, disk'.runs),
         req[u].op = "claim" /\ req[u].run # 0 => req[u].run \notin handed'
  PROVE  Local(u)'
<1>1. req[u].run \in DOMAIN runs =>
        /\ req[u].run \in DOMAIN runs' /\ runs'[req[u].run].key = runs[req[u].run].key
        /\ runs[req[u].run].status # "queued" => runs'[req[u].run].status # "queued"
  BY GrowsKeeps
<1>2. req[u].run \in DOMAIN disk.runs =>
        /\ req[u].run \in DOMAIN disk'.runs
        /\ disk'.runs[req[u].run].key = disk.runs[req[u].run].key
        /\ disk.runs[req[u].run].status # "queued" => disk'.runs[req[u].run].status # "queued"
  BY GrowsKeeps
<1> QED
  BY <1>1, <1>2 DEF Local, Status

LEMMA QuietStep ==
  ASSUME NEW t \in Threads, IInv, TypeOK', Quiet(t), Takes(t), Local(t)'
  PROVE  IInv'
<1>1. Grows(disk.runs, runs)'
  BY DEF Quiet
<1>2. \A u \in Threads : Local(u)'
  <2>1. ASSUME NEW u \in Threads, u # t
        PROVE  Local(u)'
    <3>1. req[u].op = "claim" /\ req[u].run # 0 => req[u].run \notin handed'
      BY DEF IInv, Local, Quiet, history
    <3> QED
      BY <2>1, <3>1, LocalKept DEF IInv, Quiet, history
  <2> QED
    BY <2>1
<1>3. Distinct'
  <2>1. ASSUME NEW u \in Threads, u # t, req'[t].op = "claim", req'[u].op = "claim",
               req'[t].run # 0, req'[t].run = req'[u].run
        PROVE  FALSE
    <3>1. req[u].op = "claim" /\ req[u].run = req'[t].run
      BY <2>1 DEF Quiet
    <3>2. req[u].run \in DOMAIN runs /\ Status(req[u].run) # "queued"
      BY <2>1, <3>1 DEF IInv, Local
    <3>3. req[t].op = "claim" /\ req[t].run = req'[t].run
      BY <2>1, <3>1, <3>2 DEF Takes
    <3> QED
      BY <2>1, <3>1, <3>3 DEF IInv, Distinct
  <2>2. \A u, v \in Threads \ {t} : req'[u] = req[u] /\ req'[v] = req[v]
    BY DEF Quiet
  <2> QED
    BY <2>1, <2>2 DEF Distinct, IInv
<1>4. JobsHanded'
  BY DEF Quiet, history, IInv, JobsHanded
<1>5. AnsweredIsDurable'
  BY GrowsKeeps DEF Quiet, history, IInv, AnsweredIsDurable
<1> QED
  BY <1>1, <1>2, <1>3, <1>4, <1>5 DEF IInv
-------------------------------------------------------------------------------
(* The invariant holds initially and is preserved by every step. *)

LEMMA InitInv == Init => IInv
<1> SUFFICES ASSUME Init PROVE IInv
  OBVIOUS
<1>0. <<>> \in Seq(Rows) /\ Len(<<>>) = 0 /\ DOMAIN <<>> = {}
  BY EmptySeq
<1>1. TypeOK
  BY <1>0 DEF Init, TypeOK, Requests, Blank, Steps
<1>2. Grows(disk.runs, runs)
  BY <1>0, GrowsReflexive DEF Init
<1>3. \A t \in Threads : Local(t)
  BY DEF Init, Local, Blank, OpsAt, Using
<1>4. Distinct /\ JobsHanded /\ AnsweredIsDurable
  BY DEF Init, Distinct, JobsHanded, AnsweredIsDurable, Blank
<1> QED
  BY <1>1, <1>2, <1>3, <1>4 DEF IInv

\* Statements that leave the tables alone.
LEMMA SameTables ==
  ASSUME IInv, UNCHANGED tables
  PROVE  /\ Grows(runs, runs') /\ Grows(disk.runs, disk'.runs) /\ Grows(disk'.runs, runs')
  BY GrowsReflexive DEF IInv, TypeOK, tables

\* A request starts: it holds no claimed run yet and has created nothing.
LEMMA BeginInv ==
  ASSUME NEW t \in Threads, NEW q \in Requests, NEW step \in Steps,
         IInv, Begin(t, q, step), UNCHANGED crashes, submissions' \in Nat,
         q.op \in OpsAt(step), ~q.created, q.op # "claim" \/ (t \in Workers /\ q.run = 0),
         step \in Using => q.run \in DOMAIN runs,
         q.op \in {"enqueue", "record"} => q.status \in Statuses,
         q.op = "record" => q.key = NoKey /\ q.status \in RecordedAs,
         q.op = "enqueue" => t \in Clients /\ q.status = "queued",
         q.op \in {"complete", "cancel", "http_cancel"} => q.status \in Statuses \ Pending,
         step \in {"take", "commit_none"} => q.run = 0
  PROVE  IInv'
<1>1. /\ req' = [req EXCEPT ![t] = q] /\ pc' = [pc EXCEPT ![t] = step]
      /\ UNCHANGED <<tables, history, crashes>>
  BY DEF Begin, Goto
<1>2. pc \in [Threads -> Steps] /\ req \in [Threads -> Requests]
  BY DEF IInv, TypeOK
<1>3. pc'[t] = step /\ req'[t] = q
  BY <1>1, <1>2
<1>4. TypeOK'
  BY <1>1, <1>2 DEF IInv, TypeOK, tables, history
<1>5. Quiet(t)
  BY <1>1, <1>2, SameTables DEF Quiet, history
<1>6. Takes(t)
  BY <1>3 DEF Takes
<1>7. Local(t)'
  BY <1>1, <1>3 DEF Local, tables
<1> QED
  BY <1>4, <1>5, <1>6, <1>7, QuietStep

LEMMA StartInv ==
  ASSUME NEW t \in Threads, IInv, Start(t)
  PROVE  IInv'
<1>0. submissions \in Nat /\ submissions + 1 \in Nat
  BY DEF IInv, TypeOK
<1>1. ASSUME t \in Clients, NEW k \in Keys \cup {NoKey}, StartEnqueue(t, k)
      PROVE  IInv'
  <2> DEFINE q == [Blank EXCEPT !.op = "enqueue", !.key = k, !.status = "queued"]
             step == IF k \in {NoKey, EmptyKey} THEN "count" ELSE "find"
  <2>1. q \in Requests /\ step \in Steps /\ step \in {"count", "find"}
    BY DEF Requests, Blank, Steps, AllOps, Statuses, Pending
  <2>2. q.op = "enqueue" /\ ~q.created /\ q.status \in Statuses /\ q.status = "queued"
    BY DEF Blank, Statuses, Pending
  <2>3. Begin(t, q, step) /\ UNCHANGED crashes /\ submissions' \in Nat
    BY <1>0, <1>1 DEF StartEnqueue, Begin
  <2> HIDE DEF q, step
  <2> QED
    BY <1>1, <2>1, <2>2, <2>3, BeginInv DEF OpsAt, Using
<1>2. ASSUME NEW s \in RecordedAs, StartRecord(t, s)
      PROVE  IInv'
  <2> DEFINE q == [Blank EXCEPT !.op = "record", !.status = s]
  <2>1. /\ q \in Requests /\ q.op = "record" /\ q.key = NoKey
        /\ ~q.created /\ q.status \in Statuses /\ q.status \in RecordedAs
    BY QueueAssumption DEF Requests, Blank, AllOps
  <2>2. Begin(t, q, "insert") /\ UNCHANGED crashes /\ submissions' \in Nat
    BY <1>0, <1>2 DEF StartRecord, Begin
  <2> HIDE DEF q
  <2> QED
    BY <2>1, <2>2, BeginInv DEF OpsAt, Using, Steps
<1>3. ASSUME NEW r \in DOMAIN runs, NEW op \in {"cancel", "http_cancel"}, StartCancel(t, r, op)
      PROVE  IInv'
  <2> DEFINE q == [Blank EXCEPT !.op = op, !.run = r, !.status = "cancelled"]
  <2>0. r \in Nat
    BY LenProperties DEF IInv, TypeOK
  <2>1. q \in Requests
    BY <2>0 DEF Requests, Blank, AllOps, Statuses
  <2>2. q.op = op /\ ~q.created /\ q.run = r /\ q.status \in Statuses \ Pending
    BY DEF Blank, Statuses, Pending
  <2>3. Begin(t, q, "check") /\ UNCHANGED crashes /\ submissions' \in Nat
    BY <1>0, <1>3 DEF StartCancel, Begin
  <2> HIDE DEF q
  <2> QED
    BY <2>1, <2>2, <2>3, BeginInv DEF OpsAt, Using, Steps
<1>4. ASSUME NEW r \in DOMAIN runs, StartStream(t, r)
      PROVE  IInv'
  <2> DEFINE q == [Blank EXCEPT !.op = "stream", !.run = r, !.status = Status(r)]
  <2>0. r \in Nat /\ runs[r] \in Rows
    BY LenProperties, ElementOfSeq DEF IInv, TypeOK
  <2>1. q \in Requests
    BY <2>0 DEF Requests, Blank, AllOps, Rows, Status
  <2>2. q.op = "stream" /\ ~q.created /\ q.run = r
    BY DEF Blank
  <2>3. Begin(t, q, "history") /\ UNCHANGED crashes /\ submissions' \in Nat
    BY <1>0, <1>4 DEF StartStream, Begin
  <2> HIDE DEF q
  <2> QED
    BY <2>1, <2>2, <2>3, BeginInv DEF OpsAt, Using, Steps
<1>5. ASSUME t \in Workers, StartClaim(t)
      PROVE  IInv'
  <2> DEFINE q == [Blank EXCEPT !.op = "claim"]
  <2>1. q \in Requests /\ q.op = "claim" /\ ~q.created /\ q.run = 0
    BY DEF Requests, Blank, AllOps
  <2>2. Begin(t, q, "take") /\ UNCHANGED crashes /\ submissions' \in Nat
    BY <1>0, <1>5 DEF StartClaim, Begin
  <2> HIDE DEF q
  <2> QED
    BY <1>5, <2>1, <2>2, BeginInv DEF OpsAt, Using, Steps
<1>6. ASSUME t \in Workers, NEW s \in Outcomes, StartComplete(t, s)
      PROVE  IInv'
  <2> DEFINE q == [Blank EXCEPT !.op = "complete", !.run = job[t], !.status = s]
  <2>1. q \in Requests
    BY <1>6 DEF Requests, Blank, AllOps, IInv, TypeOK, Statuses
  <2>2. q.op = "complete" /\ ~q.created /\ q.run = job[t] /\ q.status \in Statuses \ Pending
    BY DEF Blank, Statuses, Pending, Outcomes
  <2>3. Begin(t, q, "update") /\ UNCHANGED crashes /\ submissions' \in Nat
    BY <1>0, <1>6 DEF StartComplete, Begin
  <2>4. job[t] \in handed
    BY <1>6 DEF StartComplete, IInv, JobsHanded
  <2>5. job[t] \in DOMAIN runs
    BY <2>4, GrowsKeeps DEF IInv, AnsweredIsDurable
  <2> HIDE DEF q
  <2> QED
    BY <2>1, <2>2, <2>3, <2>5, BeginInv DEF OpsAt, Using, Steps
<1> QED
  BY <1>1, <1>2, <1>3, <1>4, <1>5, <1>6 DEF Start
\* A statement that touches no table and, in its own locals, at most the run, the
\* status and what a stream has seen.
LEMMA LookInv ==
  ASSUME NEW t \in Threads, NEW q \in Requests, NEW step \in Steps,
         IInv, pc' = [pc EXCEPT ![t] = step], req' = [req EXCEPT ![t] = q],
         UNCHANGED <<tables, history, bounds>>,
         q.op = req[t].op, q.op \in OpsAt(step), q.created = req[t].created,
         q.key = req[t].key,
         step \in Using => q.run \in DOMAIN runs,
         q.op \notin {"claim", "stream"} => q.status = req[t].status,
         step \in {"take", "commit_none"} => q.run = 0,
         q.op = "claim" =>
           q.run = req[t].run /\ (step \in Committed => pc[t] \in Committed \/ q.run = 0),
         q.op = "enqueue" => ~q.created
  PROVE  IInv'
<1>1. pc \in [Threads -> Steps] /\ req \in [Threads -> Requests]
  BY DEF IInv, TypeOK
<1>2. pc'[t] = step /\ req'[t] = q
  BY <1>1
<1>3. TypeOK'
  BY <1>1 DEF IInv, TypeOK, tables, history, bounds
<1>4. Quiet(t)
  BY <1>1, SameTables DEF Quiet, history
<1>5. Takes(t)
  BY <1>2 DEF Takes
<1>6. Local(t)'
  BY <1>2 DEF Local, tables, IInv, history, Status
<1> QED
  BY <1>3, <1>4, <1>5, <1>6, QuietStep

LEMMA StepInv ==
  ASSUME NEW t \in Threads, IInv, Step(t)
  PROVE  IInv'
<1> DEFINE q == req[t]
<1>0. /\ runs \in Seq(Rows) /\ DOMAIN runs = 1..Len(runs) /\ Len(runs) \in Nat
      /\ pc \in [Threads -> Steps] /\ req \in [Threads -> Requests]
      /\ q \in Requests /\ Local(t)
      /\ \A r \in DOMAIN runs : r \in Nat /\ runs[r] \in Rows
  BY LenProperties, ElementOfSeq DEF IInv, TypeOK
<1>1. CASE FindKey(t)
  <2>1. pc[t] = "find" /\ q.op = "enqueue" /\ ~q.created
    BY <1>0, <1>1 DEF FindKey, Local, OpsAt
  <2>2. CASE Goto(t, "count") /\ UNCHANGED req
    <3>1. req' = [req EXCEPT ![t] = q] /\ pc' = [pc EXCEPT ![t] = "count"]
      BY <1>0, <2>2 DEF Goto
    <3> QED
      BY <1>0, <1>1, <2>1, <3>1, LookInv DEF FindKey, OpsAt, Using, Committed, Steps
  <2>3. ASSUME NEW r \in DOMAIN runs,
               req' = [req EXCEPT ![t].run = r] /\ Goto(t, "reply")
        PROVE  IInv'
    <3> DEFINE n == [q EXCEPT !.run = r]
    <3>1. req' = [req EXCEPT ![t] = n] /\ pc' = [pc EXCEPT ![t] = "reply"]
      BY <1>0, <2>3 DEF Goto
    <3>2. /\ n \in Requests /\ n.op = q.op /\ n.created = q.created
          /\ n.key = q.key /\ n.status = q.status
      BY <1>0 DEF Requests
    <3> HIDE DEF n
    <3> QED
      BY <1>0, <1>1, <2>1, <3>1, <3>2, LookInv DEF FindKey, OpsAt, Using, Committed, Steps, AllOps
  <2> QED
    BY <1>1, <2>2, <2>3 DEF FindKey, RunsOf
<1>2. CASE CheckLimit(t)
  <2>1. pc[t] = "count" /\ q.op = "enqueue" /\ ~q.created
    BY <1>0, <1>2 DEF CheckLimit, Local, OpsAt
  <2>2. ASSUME NEW step \in {"reply", "insert"}, Goto(t, step)
        PROVE  IInv'
    <3>1. req' = [req EXCEPT ![t] = q] /\ pc' = [pc EXCEPT ![t] = step]
      BY <1>0, <1>2, <2>2 DEF Goto, CheckLimit
    <3> QED
      BY <1>0, <1>2, <2>1, <2>2, <3>1, LookInv
      DEF CheckLimit, OpsAt, Using, Committed, Steps, AllOps
  <2> QED
    BY <1>2, <2>2 DEF CheckLimit
<1>3. CASE InsertRun(t)
  <2>1. /\ pc[t] = "insert" /\ q.op \in {"enqueue", "record"}
        /\ q.status \in Statuses /\ ~(q.op = "enqueue" /\ q.created)
        /\ q.key \in Keys \cup {NoKey}
        /\ (q.op = "record" => q.key = NoKey /\ q.status \in RecordedAs)
        /\ (q.op = "enqueue" => t \in Clients /\ q.status = "queued")
        /\ UNCHANGED <<events, disk, history, bounds>>
    BY <1>0, <1>3 DEF InsertRun, Local, OpsAt, Requests
  <2> DEFINE row == [status |-> q.status, key |-> q.key]
  <2>2. ASSUME runs' = Append(runs, row),
               req' = [req EXCEPT ![t].run = Len(runs) + 1, ![t].created = TRUE],
               Goto(t, "commit_row")
        PROVE  IInv'
    <3> DEFINE n == [q EXCEPT !.run = Len(runs) + 1, !.created = TRUE]
    <3>0. Len(runs) + 1 \in Nat /\ q \in Requests
      BY <1>0
    <3>1. /\ n \in Requests /\ n.op = q.op /\ n.key = q.key /\ n.status = q.status
          /\ n.run = Len(runs) + 1
      BY <3>0 DEF Requests
    <3>2. req' = [req EXCEPT ![t] = n] /\ pc' = [pc EXCEPT ![t] = "commit_row"]
      BY <1>0, <2>2 DEF Goto
    <3>3. row \in Rows /\ row.key = q.key
      BY <2>1 DEF Rows
    <3> HIDE DEF n, row
    <3>4. pc'[t] = "commit_row" /\ req'[t] = n
      BY <1>0, <3>2
    <3>11. runs' \in Seq(Rows)
      BY <1>0, <2>2, <3>3, NewRow
    <3>5. TypeOK'
      BY <2>1, <3>11, <3>1, <3>2 DEF TypeOK, IInv, history, bounds, Steps
    <3>6. Grows(runs, runs')
      BY <1>0, <2>2, <3>3, AppendGrows
    <3>7. Grows(disk'.runs, runs')
      BY <2>1, <3>5, <3>6, GrowsTransitive DEF IInv, TypeOK
    <3>8. Quiet(t)
      BY <1>0, <2>1, <3>2, <3>6, <3>7, GrowsReflexive DEF Quiet, history, IInv, TypeOK
    <3>9. n.run \in DOMAIN runs' /\ runs'[n.run].key = n.key
      BY <1>0, <2>2, <3>1, <3>3, NewRow
    <3>10. Local(t)'
      BY <2>1, <3>1, <3>4, <3>9 DEF Local, OpsAt, Using, AllOps
    <3> QED
      BY <2>1, <3>1, <3>4, <3>5, <3>8, <3>10, QuietStep DEF Takes
  <2>3. ASSUME NEW r \in DOMAIN runs, runs[r].key = q.key, q.key # NoKey, UNCHANGED runs,
               req' = [req EXCEPT ![t].run = r, ![t].created = TRUE], Goto(t, "event")
        PROVE  IInv'
    <3> DEFINE n == [q EXCEPT !.run = r, !.created = TRUE]
    <3>1. /\ n \in Requests /\ n.op = q.op /\ n.key = q.key /\ n.status = q.status
          /\ n.run = r
      BY <1>0 DEF Requests
    <3>2. req' = [req EXCEPT ![t] = n] /\ pc' = [pc EXCEPT ![t] = "event"]
      BY <1>0, <2>3 DEF Goto
    <3> HIDE DEF n
    <3>3. pc'[t] = "event" /\ req'[t] = n
      BY <1>0, <3>2
    <3>4. TypeOK'
      BY <2>1, <2>3, <3>1, <3>2 DEF TypeOK, IInv, history, bounds, Steps
    <3>5. Quiet(t)
      BY <1>0, <2>1, <2>3, <3>2, SameTables DEF Quiet, history, tables
    <3>6. Local(t)'
      BY <2>1, <2>3, <3>1, <3>3 DEF Local, OpsAt, Using
    <3> QED
      BY <2>1, <3>1, <3>3, <3>4, <3>5, <3>6, QuietStep DEF Takes
  <2> QED
    BY <1>3, <2>2, <2>3 DEF InsertRun, RunsOf
<1>4. CASE TakeOldest(t)
  <2>1. /\ pc[t] = "take" /\ q.op = "claim" /\ q.run = 0
        /\ UNCHANGED <<events, disk, history, bounds>>
    BY <1>0, <1>4 DEF TakeOldest, Local, OpsAt
  <2>2. CASE TakeNone(t)
    <3>1. req' = [req EXCEPT ![t] = q] /\ pc' = [pc EXCEPT ![t] = "commit_none"] /\ UNCHANGED runs
      BY <1>0, <2>2 DEF TakeNone, Goto
    <3> QED
      BY <1>0, <2>1, <3>1, LookInv DEF OpsAt, Using, Steps, AllOps, tables
  <2>3. ASSUME NEW r \in DOMAIN runs, Status(r) = "queued", Take(t, r, "commit_row")
        PROVE  IInv'
    <3> DEFINE n == [q EXCEPT !.run = r]
    <3>1. n \in Requests /\ n.op = "claim" /\ n.status = q.status /\ n.run = r
      BY <1>0, <2>1 DEF Requests
    <3>2. /\ req' = [req EXCEPT ![t] = n] /\ pc' = [pc EXCEPT ![t] = "commit_row"]
          /\ runs' = [runs EXCEPT ![r].status = "running"]
      BY <1>0, <2>3 DEF Goto, Take
    <3> HIDE DEF n
    <3>3. pc'[t] = "commit_row" /\ req'[t] = n
      BY <1>0, <3>2
    <3>4. "running" \in Statuses
      BY DEF Statuses, Pending
    <3>5. runs' \in Seq(Rows) /\ DOMAIN runs' = DOMAIN runs /\ runs'[r].status = "running"
      BY <1>0, <3>2, <3>4, NewStatus
    <3>6. TypeOK'
      BY <2>1, <3>1, <3>2, <3>5 DEF TypeOK, IInv, history, bounds, Steps
    <3>7. Grows(runs, runs')
      BY <1>0, <2>3, <3>2, <3>4, UpdateGrows DEF Status
    <3>8. Grows(disk'.runs, runs')
      BY <2>1, <3>6, <3>7, GrowsTransitive DEF IInv, TypeOK
    <3>9. Quiet(t)
      BY <1>0, <2>1, <3>2, <3>7, <3>8, GrowsReflexive DEF Quiet, history, IInv, TypeOK
    <3>10. Takes(t)
      BY <2>3, <3>1, <3>3 DEF Takes
    <3>11. r \notin handed'
      BY <2>1, <2>3, GrowsKeeps DEF IInv, AnsweredIsDurable, Status, history
    <3>12. t \in Workers
      BY <1>0, <2>1 DEF Local
    <3>13. Local(t)'
      BY <2>3, <3>1, <3>3, <3>5, <3>11, <3>12 DEF Local, OpsAt, Using, Committed, AllOps, Status
    <3> QED
      BY <3>6, <3>9, <3>10, <3>13, QuietStep
  <2> QED
    BY <1>4, <2>2, <2>3 DEF TakeOldest, Oldest, Queued
<1>5. CASE Reread(t)
  <2>1. pc[t] = "reread" /\ q.op = "claim" /\ q.run \in DOMAIN runs
    BY <1>0, <1>5 DEF Reread, Local, OpsAt, Using
  <2> DEFINE n == [q EXCEPT !.status = Status(q.run)]
  <2>2. Status(q.run) \in Statuses
    BY <1>0, <2>1 DEF Status, Rows
  <2>3. n \in Requests /\ n.op = q.op /\ n.run = q.run /\ n.created = q.created /\ n.key = q.key
    BY <1>0, <2>2 DEF Requests
  <2>4. req' = [req EXCEPT ![t] = n] /\ pc' = [pc EXCEPT ![t] = "event"]
    BY <1>0, <1>5 DEF Reread, Goto
  <2> HIDE DEF n
  <2>5. UNCHANGED <<tables, history, bounds>>
    BY <1>5 DEF Reread
  <2>6. n.op \in OpsAt("event") /\ "event" \in Steps /\ pc[t] \in Committed
    BY <2>1, <2>3 DEF OpsAt, Steps, Committed
  <2> QED
    BY <1>0, <2>1, <2>3, <2>4, <2>5, <2>6, LookInv
<1>6. CASE CheckCancel(t)
  <2>1. pc[t] = "check" /\ q.op \in {"cancel", "http_cancel"} /\ q.run \in DOMAIN runs
    BY <1>0, <1>6 DEF CheckCancel, Local, OpsAt, Using
  <2>2. ASSUME NEW step \in {"update", "reply"}, Goto(t, step)
        PROVE  IInv'
    <3>1. req' = [req EXCEPT ![t] = q] /\ pc' = [pc EXCEPT ![t] = step]
      BY <1>0, <1>6, <2>2 DEF Goto, CheckCancel
    <3>2. UNCHANGED <<tables, history, bounds>>
      BY <1>6 DEF CheckCancel
    <3>3. q.op \in OpsAt(step) /\ step \in Steps
      BY <2>1, <2>2 DEF OpsAt, Steps, AllOps
    <3> QED
      BY <1>0, <2>1, <2>2, <3>1, <3>2, <3>3, LookInv
  <2> QED
    BY <1>6, <2>2 DEF CheckCancel
<1>7. CASE UpdateRun(t)
  <2>1. /\ pc[t] = "update" /\ q.op \in {"complete", "cancel", "http_cancel"}
        /\ q.run \in DOMAIN runs /\ q.status \in Statuses \ Pending
        /\ UNCHANGED <<events, disk, req, history, bounds>>
    BY <1>0, <1>7 DEF UpdateRun, Local, OpsAt, Using
  <2>2. runs' = [runs EXCEPT ![q.run].status = q.status] /\ pc' = [pc EXCEPT ![t] = "commit_row"]
    BY <1>7 DEF UpdateRun, Goto
  <2>3. pc'[t] = "commit_row"
    BY <1>0, <2>2
  <2>4. runs' \in Seq(Rows) /\ DOMAIN runs' = DOMAIN runs
    BY <1>0, <2>1, <2>2, NewStatus
  <2>5. TypeOK'
    BY <2>1, <2>2, <2>4 DEF TypeOK, IInv, history, bounds, Steps
  <2>6. Grows(runs, runs')
    BY <1>0, <2>1, <2>2, UpdateGrows
  <2>7. Grows(disk'.runs, runs')
    BY <2>1, <2>5, <2>6, GrowsTransitive DEF IInv, TypeOK
  <2>8. Quiet(t)
    BY <1>0, <2>1, <2>2, <2>6, <2>7, GrowsReflexive DEF Quiet, history, IInv, TypeOK
  <2>9. Local(t)'
    BY <1>0, <2>1, <2>3, <2>4 DEF Local, OpsAt, Using, AllOps
  <2> QED
    BY <2>1, <2>5, <2>8, <2>9, QuietStep DEF Takes
<1>8. CASE CommitRow(t)
  <2>1. /\ pc[t] = "commit_row" /\ q.op \in AllOps \ {"stream"} /\ q.run \in DOMAIN runs
        /\ UNCHANGED <<runs, events, req, history, bounds>>
    BY <1>0, <1>8 DEF CommitRow, Local, OpsAt, Using
  <2>2. disk' = [runs |-> runs, events |-> events] /\ pc' = [pc EXCEPT ![t] = AfterRow(q.op)]
    BY <1>8 DEF CommitRow, Goto
  <2>3. AfterRow(q.op) \in {"reply", "reread", "event"} /\ q.op \in OpsAt(AfterRow(q.op))
        /\ (q.op = "enqueue" => AfterRow(q.op) = "event")
    BY <2>1 DEF AfterRow, OpsAt, AllOps
  <2>4. pc'[t] = AfterRow(q.op)
    BY <1>0, <2>2
  <2>5. TypeOK'
    BY <2>1, <2>2, <2>3 DEF TypeOK, IInv, history, bounds, Steps
  <2>6. Quiet(t)
    BY <1>0, <2>1, <2>2, GrowsReflexive DEF Quiet, history, IInv
  <2>7. Local(t)'
    BY <1>0, <2>1, <2>2, <2>3, <2>4 DEF Local, Status, history
  <2> QED
    BY <2>1, <2>5, <2>6, <2>7, QuietStep DEF Takes
<1>9. CASE AppendEvent(t)
  <2>1. /\ pc[t] = "event" /\ q.op \in {"enqueue", "claim", "complete", "cancel"}
        /\ q.run \in DOMAIN runs /\ q.run \in Nat
        /\ UNCHANGED <<runs, disk, req, history, bounds>>
    BY <1>0, <1>9 DEF AppendEvent, Local, OpsAt, Using
  <2>2. /\ events' = events \cup {[run |-> q.run, what |-> Notice(q.op)]}
        /\ pc' = [pc EXCEPT ![t] = "commit_event"]
    BY <1>9 DEF AppendEvent, Goto
  <2>3. [run |-> q.run, what |-> Notice(q.op)] \in EventRows
    BY <2>1 DEF EventRows, Notice, Notices
  <2>4. pc'[t] = "commit_event"
    BY <1>0, <2>2
  <2>5. TypeOK'
    BY <2>1, <2>2, <2>3 DEF TypeOK, IInv, history, bounds, Steps
  <2>6. Quiet(t)
    BY <1>0, <2>1, <2>2, GrowsReflexive DEF Quiet, history, IInv, TypeOK
  <2>7. Local(t)'
    BY <1>0, <2>1, <2>2, <2>4 DEF Local, OpsAt, Using, Committed, Status, history
  <2> QED
    BY <2>1, <2>5, <2>6, <2>7, QuietStep DEF Takes
<1>10. CASE CommitEvent(t)
  <2>1. /\ pc[t] = "commit_event" /\ q.op \in {"enqueue", "claim", "complete", "cancel"}
        /\ q.run \in DOMAIN runs
        /\ UNCHANGED <<runs, events, req, history, bounds>>
    BY <1>0, <1>10 DEF CommitEvent, Local, OpsAt, Using
  <2>2. disk' = [runs |-> runs, events |-> events] /\ pc' = [pc EXCEPT ![t] = "reply"]
    BY <1>10 DEF CommitEvent, Goto
  <2>3. pc'[t] = "reply"
    BY <1>0, <2>2
  <2>4. TypeOK'
    BY <2>1, <2>2 DEF TypeOK, IInv, history, bounds, Steps
  <2>5. Quiet(t)
    BY <1>0, <2>1, <2>2, GrowsReflexive DEF Quiet, history, IInv
  <2>6. Local(t)'
    BY <1>0, <2>1, <2>2, <2>3 DEF Local, OpsAt, Using, Committed, Status, history, AllOps
  <2> QED
    BY <2>1, <2>4, <2>5, <2>6, QuietStep DEF Takes
<1>11. CASE ReadHistory(t)
  <2>1. pc[t] = "history" /\ q.op = "stream" /\ q.run \in DOMAIN runs
    BY <1>0, <1>11 DEF ReadHistory, Local, OpsAt, Using
  <2> DEFINE n == [q EXCEPT !.seen = Told(q.run)]
  <2>2. Told(q.run) \subseteq Notices
    BY DEF Told, IInv, TypeOK, EventRows
  <2>3. /\ n \in Requests /\ n.op = q.op /\ n.run = q.run /\ n.created = q.created
        /\ n.key = q.key /\ n.status = q.status
    BY <1>0, <2>2 DEF Requests
  <2>4. req' = [req EXCEPT ![t] = n] /\ pc' = [pc EXCEPT ![t] = "final"]
    BY <1>0, <1>11 DEF ReadHistory, Goto
  <2> HIDE DEF n
  <2>5. UNCHANGED <<tables, history, bounds>>
    BY <1>11 DEF ReadHistory
  <2>6. n.op \in OpsAt("final") /\ "final" \in Steps
    BY <2>1, <2>3 DEF OpsAt, Steps, AllOps
  <2> QED
    BY <1>0, <2>1, <2>3, <2>4, <2>5, <2>6, LookInv
<1>12. CASE ReadFinal(t)
  <2>1. pc[t] = "final" /\ q.op = "stream" /\ q.run \in DOMAIN runs
    BY <1>0, <1>12 DEF ReadFinal, Local, OpsAt, Using
  <2> DEFINE n == [q EXCEPT !.status = Status(q.run)]
  <2>2. Status(q.run) \in Statuses
    BY <1>0, <2>1 DEF Status, Rows
  <2>3. n \in Requests /\ n.op = q.op /\ n.run = q.run /\ n.created = q.created /\ n.key = q.key
    BY <1>0, <2>2 DEF Requests
  <2>4. req' = [req EXCEPT ![t] = n] /\ pc' = [pc EXCEPT ![t] = "reply"]
    BY <1>0, <1>12 DEF ReadFinal, Goto
  <2> HIDE DEF n
  <2>5. UNCHANGED <<tables, history, bounds>>
    BY <1>12 DEF ReadFinal
  <2>6. n.op \in OpsAt("reply") /\ "reply" \in Steps
    BY <2>1, <2>3 DEF OpsAt, Steps, AllOps
  <2> QED
    BY <1>0, <2>1, <2>3, <2>4, <2>5, <2>6, LookInv
<1>13. CASE Reply(t)
  <2> DEFINE given == q.op = "claim" /\ q.run # 0
             named == q.op = "enqueue" /\ q.run # 0
             ack == [key |-> q.key, run |-> q.run, created |-> q.created]
  <2>1. /\ pc[t] = "reply"
        /\ acks' = IF named THEN acks \cup {ack} ELSE acks
        /\ handed' = IF given THEN handed \cup {q.run} ELSE handed
        /\ job' = CASE given -> [job EXCEPT ![t] = q.run]
                    [] q.op = "complete" -> [job EXCEPT ![t] = 0]
                    [] OTHER -> job
        /\ req' = [req EXCEPT ![t] = Blank] /\ pc' = [pc EXCEPT ![t] = "idle"]
        /\ UNCHANGED <<tables, bounds>>
    BY <1>13 DEF Reply, Goto
  <2>2. /\ given => /\ q.run \in Nat /\ q.run \in DOMAIN disk.runs
                    /\ disk.runs[q.run].status # "queued"
        /\ named /\ q.created => /\ q.run \in DOMAIN disk.runs
                                 /\ disk.runs[q.run].key = q.key
    BY <1>0, <2>1 DEF Local, Committed, Requests
  <2>3. ack \in [key : Keys \cup {NoKey}, run : Nat, created : BOOLEAN]
    BY <1>0 DEF Requests
  <2>4. Blank \in Requests /\ Blank.op = "none"
    BY DEF Requests, Blank
  <2>5. pc'[t] = "idle" /\ req'[t] = Blank
    BY <1>0, <2>1
  <2>6. job' \in [Workers -> Nat]
    BY <1>0, <2>1 DEF IInv, TypeOK, Requests
  <2>7. TypeOK'
    <3>1. handed' \subseteq Nat
      BY <2>1, <2>2 DEF IInv, TypeOK
    <3>2. acks' \subseteq [key : Keys \cup {NoKey}, run : Nat, created : BOOLEAN]
      BY <2>1, <2>3 DEF IInv, TypeOK
    <3>3. pc' \in [Threads -> Steps] /\ req' \in [Threads -> Requests]
      BY <1>0, <2>1, <2>4 DEF Steps
    <3> QED
      BY <2>1, <2>6, <3>1, <3>2, <3>3 DEF IInv, TypeOK, tables, bounds
  <2>8. \A u \in Threads : Local(u)'
    <3>1. ASSUME NEW u \in Threads, u # t
          PROVE  Local(u)'
      <4>1. pc'[u] = pc[u] /\ req'[u] = req[u]
        BY <2>1, <3>1, <1>0
      <4>2. req[u].op = "claim" /\ req[u].run # 0 => req[u].run \notin handed'
        BY <2>1, <3>1 DEF IInv, Local, Distinct
      <4> QED
        BY <2>1, <4>1, <4>2, LocalKept, SameTables DEF IInv
    <3>2. Local(t)'
      BY <2>5 DEF Local, OpsAt, Using, Blank
    <3> QED
      BY <3>1, <3>2
  <2>9. Distinct'
    <3>1. \A u \in Threads \ {t} : req'[u] = req[u]
      BY <1>0, <2>1
    <3> QED
      BY <2>4, <2>5, <3>1 DEF IInv, Distinct
  <2>10. JobsHanded'
    BY <2>1 DEF IInv, JobsHanded, TypeOK
  <2>11. AnsweredIsDurable'
    <3>1. disk' = disk
      BY <2>1 DEF tables
    <3>2. ASSUME NEW r \in handed'
          PROVE  r \in DOMAIN disk.runs /\ disk.runs[r].status # "queued"
      BY <2>1, <2>2 DEF IInv, AnsweredIsDurable
    <3>3. ASSUME NEW a \in acks', a.created
          PROVE  a.run \in DOMAIN disk.runs /\ disk.runs[a.run].key = a.key
      BY <2>1, <2>2, <3>3 DEF IInv, AnsweredIsDurable
    <3> QED
      BY <3>1, <3>2, <3>3 DEF AnsweredIsDurable
  <2>12. Grows(disk.runs, runs)'
    BY <2>1, SameTables DEF tables
  <2> QED
    BY <2>7, <2>8, <2>9, <2>10, <2>11, <2>12 DEF IInv
<1>14. CASE CommitNone(t)
  <2>1. /\ pc[t] = "commit_none" /\ q.op = "claim" /\ q.run = 0
        /\ UNCHANGED <<runs, events, req, history, bounds>>
    BY <1>0, <1>14 DEF CommitNone, Local, OpsAt
  <2>2. disk' = [runs |-> runs, events |-> events] /\ pc' = [pc EXCEPT ![t] = "reply"]
    BY <1>14 DEF CommitNone, Goto
  <2>3. pc'[t] = "reply"
    BY <1>0, <2>2
  <2>4. TypeOK'
    BY <2>1, <2>2 DEF TypeOK, IInv, history, bounds, Steps
  <2>5. Quiet(t)
    BY <1>0, <2>1, <2>2, GrowsReflexive DEF Quiet, history, IInv
  <2>6. Local(t)'
    BY <1>0, <2>1, <2>2, <2>3 DEF Local, OpsAt, Using, AllOps
  <2> QED
    BY <2>1, <2>4, <2>5, <2>6, QuietStep DEF Takes
<1> QED
  BY <1>1, <1>2, <1>3, <1>4, <1>5, <1>6, <1>7, <1>8, <1>9, <1>10, <1>11, <1>12, <1>13, <1>14
     DEF Step

\* A crash takes the tables back to what was committed, and with them whatever
\* a request had not been answered for.
LEMMA CrashInv ==
  ASSUME IInv, Crash
  PROVE  IInv'
<1>1. Blank \in Requests /\ Blank.op = "none"
  BY DEF Requests, Blank
<1>2. TypeOK'
  BY <1>1 DEF Crash, IInv, TypeOK, history, Steps
<1>3. Grows(disk.runs, runs)'
  BY GrowsReflexive DEF Crash, IInv, TypeOK
<1>4. \A t \in Threads : Local(t)'
  BY <1>1 DEF Crash, Local, OpsAt, Using, Blank
<1>5. Distinct' /\ JobsHanded' /\ AnsweredIsDurable'
  BY <1>1 DEF Crash, IInv, Distinct, JobsHanded, AnsweredIsDurable, history
<1> QED
  BY <1>2, <1>3, <1>4, <1>5 DEF IInv

LEMMA StutterInv ==
  ASSUME IInv, UNCHANGED vars
  PROVE  IInv'
  BY DEF IInv, TypeOK, Grows, Local, Status, Distinct, JobsHanded, AnsweredIsDurable, vars

THEOREM Inductive == Spec => []IInv
<1>1. IInv /\ [Next]_vars => IInv'
  BY StartInv, StepInv, CrashInv, StutterInv DEF Next
<1> QED
  BY InitInv, <1>1, PTL DEF Spec

-------------------------------------------------------------------------------
(* Consequences. *)

\* The tables, the handlers' locals and the answers always have their types.
THEOREM TypeCorrect == Spec => []TypeOK
<1>1. IInv => TypeOK
  BY DEF IInv
<1> QED
  BY Inductive, <1>1, PTL

\* No run is ever given to two workers, or twice to one (claim_next_run), for
\* any number of workers and restarts.
THEOREM ClaimOnce == Spec => []ClaimedOnce
<1>1. IInv => ClaimedOnce
  BY DEF IInv, Local, Distinct, ClaimedOnce, Threads
<1> QED
  BY Inductive, <1>1, PTL

\* Whatever a caller was told is in the committed tables, restart or not.
THEOREM Durable == Spec => []AnsweredIsDurable
<1>1. IInv => AnsweredIsDurable
  BY DEF IInv
<1> QED
  BY Inductive, <1>1, PTL

\* The committed table only grows, and its runs only advance.
THEOREM Forward == Spec => NoGoingBack
<1> DEFINE A == /\ Len(disk.runs) <= Len(disk'.runs)
                /\ \A r \in DOMAIN disk.runs : /\ Rank(disk.runs[r]) <= Rank(disk'.runs[r])
                                               /\ disk.runs[r].key = disk'.runs[r].key
<1>1. ASSUME IInv, [Next]_vars
      PROVE  [A]_disk
  <2>1. UNCHANGED disk \/ disk' = [runs |-> runs, events |-> events]
    <3>1. CASE Crash \/ UNCHANGED vars
      BY <3>1 DEF Crash, vars
    <3>2. ASSUME NEW t \in Threads, Start(t)
          PROVE  UNCHANGED disk
      BY <3>2 DEF Start, Begin, StartEnqueue, StartRecord, StartClaim, StartComplete,
                  StartCancel, StartStream, tables
    <3>3. ASSUME NEW t \in Threads, Step(t)
          PROVE  UNCHANGED disk \/ disk' = [runs |-> runs, events |-> events]
      BY <3>3 DEF Step, FindKey, CheckLimit, InsertRun, TakeOldest, Reread, CheckCancel,
                  UpdateRun, CommitRow, CommitNone, AppendEvent, CommitEvent, ReadHistory,
                  ReadFinal, Reply, tables
    <3> QED
      BY <1>1, <3>1, <3>2, <3>3 DEF Next
  <2>2. CASE disk' = [runs |-> runs, events |-> events]
    BY <1>1, <2>2 DEF IInv, Grows
  <2> QED
    BY <2>1, <2>2
<1>2. Spec => [][A]_disk
  BY Inductive, <1>1, PTL DEF Spec
<1> QED
  BY <1>2 DEF NoGoingBack

-------------------------------------------------------------------------------
(* How far the limit can be exceeded. *)

ActiveIn(table) == {r \in DOMAIN table : table[r].status \in Pending}

\* The requests that have passed the check and not yet inserted their row.
Admitted == {t \in Clients : pc[t] = "insert" /\ req[t].op = "enqueue"}

Bound == Limit + Cardinality(Clients) - 1

Overshoot ==
  /\ Cardinality(Active) + Cardinality(Admitted) <= Bound
  /\ Cardinality(ActiveIn(disk.runs)) <= Bound

LEMMA Finite ==
  ASSUME IInv
  PROVE  /\ IsFiniteSet(Active) /\ Cardinality(Active) \in Nat
         /\ IsFiniteSet(ActiveIn(disk.runs)) /\ Cardinality(ActiveIn(disk.runs)) \in Nat
         /\ IsFiniteSet(Admitted) /\ Cardinality(Admitted) \in Nat
         /\ Cardinality(Admitted) <= Cardinality(Clients)
         /\ Cardinality(Clients) \in Nat \ {0}
         /\ Bound \in Nat
<1>1. ASSUME NEW s \in Seq(Rows)
      PROVE  IsFiniteSet(ActiveIn(s)) /\ Cardinality(ActiveIn(s)) \in Nat
  <2>1. DOMAIN s = 1..Len(s) /\ Len(s) \in Nat
    BY LenProperties
  <2>2. IsFiniteSet(1..Len(s))
    BY <2>1, FS_Interval
  <2>3. ActiveIn(s) \subseteq 1..Len(s)
    BY <2>1 DEF ActiveIn
  <2> QED
    BY <2>2, <2>3, FS_Subset, FS_CardinalityType
<1>2. Active = ActiveIn(runs)
  BY DEF Active, ActiveIn, Status
<1>3. IsFiniteSet(Clients) /\ Clients # {}
  BY QueueAssumption
<1>4. Cardinality(Clients) \in Nat \ {0}
  BY <1>3, FS_CardinalityType, FS_EmptySet
<1>5. Admitted \subseteq Clients
  BY DEF Admitted
<1>6. IsFiniteSet(Admitted) /\ Cardinality(Admitted) <= Cardinality(Clients)
  BY <1>3, <1>5, FS_Subset
<1>7. Cardinality(Admitted) \in Nat
  BY <1>6, FS_CardinalityType
<1> QED
  BY <1>1, <1>2, <1>4, <1>6, <1>7, QueueAssumption DEF IInv, TypeOK, Bound

\* A step after which no more runs are active or admitted than before.
LEMMA NoMore ==
  ASSUME IInv, Overshoot, Active' \subseteq Active, Admitted' \subseteq Admitted,
         disk' = disk \/ disk'.runs = runs
  PROVE  Overshoot'
<1>1. Cardinality(Active') <= Cardinality(Active) /\ Cardinality(Active') \in Nat
  BY Finite, FS_Subset, FS_CardinalityType
<1>2. Cardinality(Admitted') <= Cardinality(Admitted) /\ Cardinality(Admitted') \in Nat
  BY Finite, FS_Subset, FS_CardinalityType
<1>3. Cardinality(ActiveIn(disk'.runs)) <= Bound
  <2>1. CASE disk' = disk
    BY <2>1 DEF Overshoot
  <2>2. CASE disk'.runs = runs
    <3>1. ActiveIn(disk'.runs) = Active
      BY <2>2 DEF ActiveIn, Active, Status
    <3> QED
      BY <3>1, Finite DEF Overshoot
  <2> QED
    BY <2>1, <2>2
<1>4. Cardinality(Active') + Cardinality(Admitted') <= Bound
  BY <1>1, <1>2, Finite DEF Overshoot
<1> QED
  BY <1>3, <1>4 DEF Overshoot, Bound

LEMMA StartOvershoot ==
  ASSUME IInv, Overshoot, NEW t \in Threads, Start(t)
  PROVE  Overshoot'
<1>1. UNCHANGED <<runs, disk>>
  BY DEF Start, Begin, StartEnqueue, StartRecord, StartClaim, StartComplete,
         StartCancel, StartStream, tables
<1>2. Active' \subseteq Active
  BY <1>1 DEF Active, Status
<1>3. \A u \in Threads \ {t} : pc'[u] = pc[u] /\ req'[u] = req[u]
  BY DEF Start, Begin, Goto, StartEnqueue, StartRecord, StartClaim, StartComplete,
         StartCancel, StartStream, IInv, TypeOK
<1>4. ~(pc'[t] = "insert" /\ req'[t].op = "enqueue")
  <2>0. pc \in [Threads -> Steps] /\ req \in [Threads -> Requests]
    BY DEF IInv, TypeOK
  <2>1. ASSUME NEW s \in RecordedAs, StartRecord(t, s)
        PROVE  req'[t].op = "record"
    BY <2>0, <2>1 DEF StartRecord, Begin, Blank
  <2>2. ASSUME NEW k \in Keys \cup {NoKey}, StartEnqueue(t, k)
        PROVE  pc'[t] # "insert"
    BY <2>0, <2>2 DEF StartEnqueue, Begin, Goto
  <2>3. ASSUME NEW r \in DOMAIN runs,
               StartCancel(t, r, "cancel") \/ StartCancel(t, r, "http_cancel") \/ StartStream(t, r)
        PROVE  pc'[t] # "insert"
    BY <2>0, <2>3 DEF StartCancel, StartStream, Begin, Goto
  <2>4. ASSUME NEW s \in Outcomes, StartClaim(t) \/ StartComplete(t, s)
        PROVE  pc'[t] # "insert"
    BY <2>0, <2>4 DEF StartClaim, StartComplete, Begin, Goto
  <2>5. Outcomes # {}
    BY DEF Outcomes
  <2> QED
    BY <2>1, <2>2, <2>3, <2>4, <2>5 DEF Start
<1>5. Admitted' \subseteq Admitted
  BY <1>3, <1>4 DEF Admitted, Threads
<1> QED
  BY <1>1, <1>2, <1>5, NoMore

LEMMA StepOvershoot ==
  ASSUME IInv, Overshoot, RecordedAs \cap Pending = {}, NEW t \in Threads, Step(t)
  PROVE  Overshoot'
<1>0. /\ pc \in [Threads -> Steps] /\ req \in [Threads -> Requests] /\ Local(t)
      /\ runs \in Seq(Rows) /\ DOMAIN runs = 1..Len(runs) /\ Len(runs) \in Nat
  BY LenProperties DEF IInv, TypeOK
\* A statement that neither activates a run nor leads to the insert.
<1> DEFINE Plain == /\ Active' \subseteq Active
                    /\ disk' = disk \/ disk'.runs = runs
                    /\ \E step \in Steps \ {"insert"} : pc' = [pc EXCEPT ![t] = step]
                    /\ \A u \in Threads \ {t} : req'[u] = req[u]
<1>1. ASSUME Plain
      PROVE  Overshoot'
  <2>1. \A u \in Threads : u \in Admitted' => u \in Admitted
    BY <1>0, <1>1 DEF Admitted
  <2> QED
    BY <1>1, <2>1, NoMore DEF Admitted, Threads
<1>2. CASE FindKey(t) \/ Reread(t) \/ CheckCancel(t) \/ AppendEvent(t) \/ ReadHistory(t)
           \/ ReadFinal(t) \/ Reply(t)
  <2>1. UNCHANGED <<runs, disk>>
    BY <1>2 DEF FindKey, Reread, CheckCancel, AppendEvent, ReadHistory, ReadFinal, Reply, tables
  <2>2. \E step \in Steps \ {"insert"} : pc' = [pc EXCEPT ![t] = step]
    BY <1>2 DEF FindKey, Reread, CheckCancel, AppendEvent, ReadHistory, ReadFinal, Reply,
                Goto, Steps
  <2>3. \A u \in Threads \ {t} : req'[u] = req[u]
    BY <1>0, <1>2 DEF FindKey, Reread, CheckCancel, AppendEvent, ReadHistory, ReadFinal, Reply
  <2>4. Active' \subseteq Active
    BY <2>1 DEF Active, Status
  <2> QED
    BY <1>1, <2>1, <2>2, <2>3, <2>4
<1>3. CASE CommitRow(t) \/ CommitNone(t) \/ CommitEvent(t)
  <2>1. runs' = runs /\ disk'.runs = runs /\ req' = req
    BY <1>3 DEF CommitRow, CommitNone, CommitEvent
  <2>2. \E step \in Steps \ {"insert"} : pc' = [pc EXCEPT ![t] = step]
    BY <1>3 DEF CommitRow, CommitNone, CommitEvent, Goto, AfterRow, Steps
  <2>3. Active' \subseteq Active
    BY <2>1 DEF Active, Status
  <2> QED
    BY <1>1, <2>1, <2>2, <2>3
<1>4. CASE TakeOldest(t)
  <2>1. disk' = disk /\ \A u \in Threads \ {t} : req'[u] = req[u]
    BY <1>0, <1>4 DEF TakeOldest, Take, TakeNone
  <2>2. \E step \in Steps \ {"insert"} : pc' = [pc EXCEPT ![t] = step]
    BY <1>4 DEF TakeOldest, Take, TakeNone, Goto, Steps
  <2>3. Active' \subseteq Active
    <3>1. CASE TakeNone(t)
      BY <3>1 DEF TakeNone, Active, Status
    <3>2. ASSUME NEW r \in Queued, Take(t, r, "commit_row")
          PROVE  Active' \subseteq Active
      BY <1>0, <3>2, NewStatus DEF Take, Queued, Active, Status, Pending, Statuses
    <3> QED
      BY <1>4, <3>1, <3>2 DEF TakeOldest, Oldest
  <2> QED
    BY <1>1, <2>1, <2>2, <2>3
<1>5. CASE UpdateRun(t)
  <2>1. disk' = disk /\ req' = req
    BY <1>5 DEF UpdateRun
  <2>2. \E step \in Steps \ {"insert"} : pc' = [pc EXCEPT ![t] = step]
    BY <1>5 DEF UpdateRun, Goto, Steps
  <2>3. req[t].run \in DOMAIN runs /\ req[t].status \in Statuses \ Pending
    BY <1>0, <1>5 DEF UpdateRun, Local, Using, OpsAt
  <2>4. Active' \subseteq Active
    BY <1>0, <1>5, <2>3, NewStatus DEF UpdateRun, Active, Status
  <2> QED
    BY <1>1, <2>1, <2>2, <2>4
<1>6. CASE CheckLimit(t)
  <2>1. UNCHANGED <<runs, disk, req>> /\ \E step \in {"reply", "insert"} :
          pc' = [pc EXCEPT ![t] = step] /\ (step = "insert" => ~(Cardinality(Active) >= Limit))
    BY <1>6 DEF CheckLimit, Goto, tables
  <2>2. Active' = Active
    BY <2>1 DEF Active, Status
  <2>3. CASE pc' = [pc EXCEPT ![t] = "reply"]
    BY <1>1, <2>1, <2>2, <2>3 DEF Steps
  <2>4. CASE pc' = [pc EXCEPT ![t] = "insert"] /\ ~(Cardinality(Active) >= Limit)
    <3>1. Admitted' \subseteq Clients
      BY DEF Admitted
    <3>2. Cardinality(Admitted') <= Cardinality(Clients) /\ Cardinality(Admitted') \in Nat
      BY <3>1, QueueAssumption, FS_Subset, FS_CardinalityType
    <3>3. Cardinality(Active) <= Limit - 1
      BY <2>4, Finite, QueueAssumption
    <3>4. Cardinality(Active') + Cardinality(Admitted') <= Bound
      BY <2>2, <3>2, <3>3, Finite, QueueAssumption DEF Bound
    <3> QED
      BY <2>1, <3>4 DEF Overshoot, Bound, ActiveIn
  <2> QED
    BY <2>1, <2>3, <2>4
<1>7. CASE InsertRun(t)
  <2> DEFINE row == [status |-> req[t].status, key |-> req[t].key]
  <2>1. /\ disk' = disk /\ pc[t] = "insert" /\ req[t] \in Requests
        /\ req[t].op \in {"enqueue", "record"}
        /\ req[t].op = "record" => req[t].status \in RecordedAs
        /\ req[t].op = "enqueue" => t \in Clients
        /\ req[t].status \in Statuses
    BY <1>0, <1>7 DEF InsertRun, Local, OpsAt
  <2>2. /\ \E step \in Steps \ {"insert"} : pc' = [pc EXCEPT ![t] = step]
        /\ \A u \in Threads \ {t} : req'[u] = req[u]
    BY <1>0, <1>7 DEF InsertRun, Goto, Steps
  <2>3. CASE runs' = runs
    BY <1>1, <2>1, <2>2, <2>3 DEF Active, Status
  <2>4. CASE runs' = Append(runs, row)
    <3>1. row \in Rows /\ row.status = req[t].status
      BY <2>1 DEF Rows, Requests
    <3>2. /\ DOMAIN runs' = 1..(Len(runs) + 1) /\ runs'[Len(runs) + 1] = row
          /\ \A i \in DOMAIN runs : runs'[i] = runs[i]
      BY <1>0, <2>4, <3>1, NewRow
    <3>3. Active' \subseteq Active \cup {Len(runs) + 1}
      BY <1>0, <3>2 DEF Active, Status
    <3>4. CASE req[t].op = "record"
      <4>1. row.status \notin Pending
        BY <2>1, <3>1, <3>4
      <4>2. Active' \subseteq Active
        BY <1>0, <3>2, <3>3, <4>1 DEF Active, Status
      <4> QED
        BY <1>1, <2>1, <2>2, <4>2
    <3>5. CASE req[t].op = "enqueue"
      <4>1. t \in Admitted
        BY <2>1, <3>5 DEF Admitted
      <4>2. Admitted' \subseteq Admitted \ {t}
        BY <1>0, <2>2 DEF Admitted, Threads
      <4>3. /\ IsFiniteSet(Admitted \ {t})
            /\ Cardinality(Admitted \ {t}) = Cardinality(Admitted) - 1
        BY <4>1, Finite, FS_RemoveElement
      <4>4. Cardinality(Admitted') <= Cardinality(Admitted) - 1 /\ Cardinality(Admitted') \in Nat
        BY <4>2, <4>3, FS_Subset, FS_CardinalityType
      <4>5. /\ IsFiniteSet(Active \cup {Len(runs) + 1})
            /\ Cardinality(Active \cup {Len(runs) + 1}) <= Cardinality(Active) + 1
        <5>1. Cardinality(Active \cup {Len(runs) + 1}) =
                IF Len(runs) + 1 \in Active THEN Cardinality(Active) ELSE Cardinality(Active) + 1
          BY Finite, FS_AddElement
        <5>2. IsFiniteSet(Active \cup {Len(runs) + 1})
          BY Finite, FS_AddElement
        <5>3. Cardinality(Active) \in Nat
          BY Finite
        <5> QED
          BY <5>1, <5>2, <5>3
      <4>6. Cardinality(Active') <= Cardinality(Active \cup {Len(runs) + 1})
            /\ Cardinality(Active') \in Nat /\ Cardinality(Active \cup {Len(runs) + 1}) \in Nat
        BY <3>3, <4>5, FS_Subset, FS_CardinalityType
      <4>7. Cardinality(Active') + Cardinality(Admitted') <= Bound
        BY <4>4, <4>5, <4>6, Finite DEF Overshoot
      <4> QED
        BY <2>1, <4>7 DEF Overshoot, Bound, ActiveIn
    <3> QED
      BY <2>1, <3>4, <3>5
  <2> QED
    BY <1>7, <2>3, <2>4 DEF InsertRun
<1> QED
  BY <1>2, <1>3, <1>4, <1>5, <1>6, <1>7 DEF Step

\* With C clients submitting through enqueue, and no run recorded as pending
\* past it, at most C - 1 runs above the limit are active, for any limit.
THEOREM OvershootIsBounded ==
  ASSUME RecordedAs \cap Pending = {}
  PROVE  Spec => []OvershootBounded
<1>1. ASSUME Init
      PROVE  Overshoot
  <2>1. runs = <<>> /\ disk.runs = <<>> /\ \A t \in Clients : pc[t] = "idle"
    BY <1>1 DEF Init, Threads
  <2>2. DOMAIN runs = {} /\ DOMAIN disk.runs = {}
    BY <2>1
  <2>3. Active = {} /\ Admitted = {} /\ ActiveIn(disk.runs) = {}
    BY <2>1, <2>2 DEF Active, Admitted, ActiveIn
  <2>4. Cardinality({}) = 0
    BY FS_EmptySet
  <2>5. Bound \in Nat
    BY <1>1, InitInv, Finite
  <2>6. Cardinality(Active) + Cardinality(Admitted) <= Bound
    BY <2>3, <2>4, <2>5
  <2> QED
    BY <2>3, <2>4, <2>5, <2>6 DEF Overshoot
<1>2. ASSUME IInv, Overshoot, [Next]_vars
      PROVE  Overshoot'
  <2>1. CASE Crash
    <3>1. /\ runs' = disk.runs /\ disk' = disk
          /\ \A t \in Clients : pc'[t] = "idle"
      BY <2>1 DEF Crash, Threads
    <3>2. Active' = ActiveIn(disk.runs)
      BY <3>1 DEF Active, ActiveIn, Status
    <3>3. Admitted' = {}
      BY <3>1 DEF Admitted
    <3>4. Cardinality({}) = 0
      BY FS_EmptySet
    <3>5. Cardinality(ActiveIn(disk.runs)) <= Bound /\ Cardinality(ActiveIn(disk.runs)) \in Nat
      BY <1>2, Finite DEF Overshoot
    <3>6. Cardinality(Active') + Cardinality(Admitted') <= Bound
      BY <3>2, <3>3, <3>4, <3>5, Finite
    <3> QED
      BY <3>1, <3>5, <3>6 DEF Overshoot, Bound, ActiveIn
  <2>2. CASE UNCHANGED vars
    BY <1>2, <2>2 DEF vars, Overshoot, Active, Status, Admitted, ActiveIn, Bound
  <2> QED
    BY <1>2, <2>1, <2>2, StartOvershoot, StepOvershoot DEF Next
<1>3. IInv /\ Overshoot => OvershootBounded
  BY Finite DEF Overshoot, Bound, OvershootBounded
<1> QED
  BY Inductive, <1>1, <1>2, <1>3, PTL DEF Spec

-------------------------------------------------------------------------------
(* What a statement may do to the table: every row comes in, is taken and is *)
(* over in one statement each.                                               *)

\* The table with another status for a run.
With(table, r, status) == [table EXCEPT ![r].status = status]

Submits == \E row \in Rows : /\ runs' = Append(runs, row)
                             /\ row.key # NoKey => RunsOf(row.key) = {}

Grants == \E r \in Oldest(Queued) : runs' = With(runs, r, "running")

Concludes == \E r \in DOMAIN runs, s \in Statuses \ Pending :
               runs' = With(runs, r, s)

LEMMA RowStep ==
  ASSUME IInv, NEW t \in Threads, Step(t)
  PROVE  UNCHANGED runs \/ Submits \/ Grants \/ Concludes
<1>0. req[t] \in Requests /\ Local(t)
  BY DEF IInv, TypeOK
<1>1. CASE InsertRun(t)
  <2>1. req[t].op \in {"enqueue", "record"} /\ req[t].status \in Statuses
    BY <1>0, <1>1 DEF InsertRun, Local, OpsAt
  <2>2. [status |-> req[t].status, key |-> req[t].key] \in Rows
    BY <1>0, <2>1 DEF Rows, Requests
  <2> QED
    BY <1>1, <2>2 DEF InsertRun, Submits
<1>2. CASE TakeOldest(t)
  BY <1>2 DEF TakeOldest, TakeNone, Take, Grants, With
<1>3. CASE UpdateRun(t)
  <2>1. req[t].run \in DOMAIN runs /\ req[t].status \in Statuses \ Pending
    BY <1>0, <1>3 DEF UpdateRun, Local, OpsAt, Using
  <2> QED
    BY <1>3, <2>1 DEF UpdateRun, Concludes, With
<1>4. CASE FindKey(t) \/ CheckLimit(t) \/ Reread(t) \/ CheckCancel(t) \/ CommitRow(t)
             \/ CommitNone(t) \/ AppendEvent(t) \/ CommitEvent(t) \/ ReadHistory(t)
             \/ ReadFinal(t) \/ Reply(t)
  BY <1>4 DEF FindKey, CheckLimit, Reread, CheckCancel, CommitRow, CommitNone, AppendEvent,
              CommitEvent, ReadHistory, ReadFinal, Reply, tables
<1> QED
  BY <1>1, <1>2, <1>3, <1>4 DEF Step

LEMMA StartKeepsRows ==
  ASSUME NEW t \in Threads, Start(t)
  PROVE  UNCHANGED runs
  BY DEF Start, Begin, StartEnqueue, StartRecord, StartClaim, StartComplete, StartCancel,
         StartStream, tables

\* The process does not die in an instance that bounds its crashes by none.
LEMMA NoCrash ==
  ASSUME MaxCrashes = 0, IInv
  PROVE  ~Crash
<1>1. crashes \in Nat
  BY DEF IInv, TypeOK
<1> QED
  BY <1>1 DEF Crash

-------------------------------------------------------------------------------
(* One key names one run. *)

\* The row of a run carries the key.
Carries(table, r, k) == r \in DOMAIN table /\ table[r].key = k

UniqueKeys(table) == \A i, j \in DOMAIN table :
                       table[i].key = table[j].key /\ table[i].key # NoKey => i = j

\* What an enqueue holds or has answered is the run that carries its key.
KeyInv ==
  /\ UniqueKeys(runs)
  /\ \A t \in Threads : req[t].op = "enqueue" /\ req[t].run # 0 =>
                          Carries(runs, req[t].run, req[t].key)
  /\ \A a \in acks : Carries(runs, a.run, a.key)

\* A statement keeps the keys of the rows there are, and a new row has a new one.
LEMMA KeysStep ==
  ASSUME IInv, UniqueKeys(runs), UNCHANGED runs \/ Submits \/ Grants \/ Concludes
  PROVE  /\ UniqueKeys(runs')
         /\ \A r \in DOMAIN runs : Carries(runs', r, runs[r].key)
<1>0. runs \in Seq(Rows)
  BY DEF IInv, TypeOK
<1>1. CASE UNCHANGED runs
  BY <1>1 DEF Carries
<1>2. CASE Submits
  <2>1. PICK row \in Rows : /\ runs' = Append(runs, row)
                            /\ row.key # NoKey => RunsOf(row.key) = {}
    BY <1>2 DEF Submits
  <2>2. /\ DOMAIN runs = 1..Len(runs) /\ Len(runs) \in Nat
        /\ DOMAIN runs' = 1..(Len(runs) + 1)
        /\ \A i \in DOMAIN runs : i \in DOMAIN runs' /\ runs'[i] = runs[i]
        /\ runs'[Len(runs) + 1] = row
    BY <1>0, <2>1, NewRow
  <2>3. \A i \in DOMAIN runs : row.key = runs[i].key => row.key = NoKey
    BY <2>1 DEF RunsOf
  <2>4. UniqueKeys(runs')
    <3> SUFFICES ASSUME NEW i \in DOMAIN runs', NEW j \in DOMAIN runs',
                        runs'[i].key = runs'[j].key, runs'[i].key # NoKey
                 PROVE  i = j
      BY DEF UniqueKeys
    <3>1. CASE i \in DOMAIN runs /\ j \in DOMAIN runs
      BY <2>2, <3>1 DEF UniqueKeys
    <3>2. CASE i \notin DOMAIN runs /\ j \notin DOMAIN runs
      BY <2>2, <3>2
    <3>3. CASE i \in DOMAIN runs /\ j \notin DOMAIN runs
      <4>1. j = Len(runs) + 1
        BY <2>2, <3>3
      <4> QED
        BY <2>2, <2>3, <3>3, <4>1
    <3>4. CASE i \notin DOMAIN runs /\ j \in DOMAIN runs
      <4>1. i = Len(runs) + 1
        BY <2>2, <3>4
      <4> QED
        BY <2>2, <2>3, <3>4, <4>1
    <3> QED
      BY <3>1, <3>2, <3>3, <3>4
  <2> QED
    BY <2>2, <2>4 DEF Carries
<1>3. ASSUME NEW r \in DOMAIN runs, NEW s \in Statuses, runs' = With(runs, r, s)
      PROVE  DOMAIN runs' = DOMAIN runs /\ \A i \in DOMAIN runs : runs'[i].key = runs[i].key
  BY <1>0, <1>3, NewStatus DEF With
<1>4. CASE Grants
  <2>1. DOMAIN runs' = DOMAIN runs /\ \A i \in DOMAIN runs : runs'[i].key = runs[i].key
    BY <1>3, <1>4 DEF Grants, Oldest, Queued, Statuses, Pending
  <2> QED
    BY <2>1 DEF UniqueKeys, Carries
<1>5. CASE Concludes
  <2>1. DOMAIN runs' = DOMAIN runs /\ \A i \in DOMAIN runs : runs'[i].key = runs[i].key
    BY <1>3, <1>5 DEF Concludes
  <2> QED
    BY <2>1 DEF UniqueKeys, Carries
<1> QED
  BY <1>1, <1>2, <1>4, <1>5

\* What a statement does to the answers: an enqueue finds or makes the row of its
\* key, and answers with what it holds.
LEMMA AnswerStep ==
  ASSUME IInv, NEW t \in Threads, Step(t)
  PROVE  /\ \A u \in Threads \ {t} : req'[u] = req[u]
         /\ req'[t].op = "enqueue" =>
              /\ req[t].op = "enqueue" /\ req'[t].key = req[t].key
              /\ req'[t].run = req[t].run \/ Carries(runs', req'[t].run, req[t].key)
         /\ \A a \in acks' :
              a \in acks \/ /\ req[t].op = "enqueue" /\ req[t].run # 0
                            /\ a.run = req[t].run /\ a.key = req[t].key
<1>0. /\ req \in [Threads -> Requests] /\ req[t] \in Requests /\ Local(t)
      /\ runs \in Seq(Rows)
  BY DEF IInv, TypeOK
<1>1. CASE FindKey(t)
  <2>1. ASSUME NEW r \in RunsOf(req[t].key), req' = [req EXCEPT ![t].run = r], UNCHANGED runs
        PROVE  req'[t].op = req[t].op /\ req'[t].key = req[t].key
               /\ Carries(runs', req'[t].run, req[t].key)
    BY <1>0, <2>1 DEF Carries, RunsOf, Requests
  <2> QED
    BY <1>0, <1>1, <2>1 DEF FindKey, tables, history
<1>2. CASE InsertRun(t)
  <2>1. CASE RunsOf(req[t].key) = {} \/ req[t].key = NoKey
    <3> DEFINE row == [status |-> req[t].status, key |-> req[t].key]
    <3>1. /\ runs' = Append(runs, row)
          /\ req' = [req EXCEPT ![t].run = Len(runs) + 1, ![t].created = TRUE]
          /\ acks' = acks
      BY <1>2, <2>1 DEF InsertRun, history
    <3>2. req[t].status \in Statuses
      BY <1>0, <1>2 DEF InsertRun, Local, OpsAt
    <3>3. row \in Rows /\ row.key = req[t].key
      BY <1>0, <3>2 DEF Rows, Requests
    <3> HIDE DEF row
    <3>4. Carries(runs', Len(runs) + 1, req[t].key)
      BY <1>0, <3>1, <3>3, NewRow DEF Carries
    <3>5. /\ req'[t].op = req[t].op /\ req'[t].key = req[t].key /\ req'[t].run = Len(runs) + 1
          /\ \A u \in Threads \ {t} : req'[u] = req[u]
      BY <1>0, <3>1 DEF Requests
    <3> QED
      BY <3>1, <3>4, <3>5
  <2>2. CASE RunsOf(req[t].key) # {} /\ req[t].key # NoKey
    <3>1. PICK r \in RunsOf(req[t].key) :
            /\ req' = [req EXCEPT ![t].run = r, ![t].created = TRUE]
            /\ UNCHANGED <<runs, acks>>
      BY <1>2, <2>2 DEF InsertRun, history
    <3>2. /\ req'[t].op = req[t].op /\ req'[t].key = req[t].key /\ req'[t].run = r
          /\ \A u \in Threads \ {t} : req'[u] = req[u]
      BY <1>0, <3>1 DEF Requests
    <3> QED
      BY <3>1, <3>2 DEF Carries, RunsOf
  <2> QED
    BY <2>1, <2>2
<1>3. CASE TakeOldest(t)
  <2>1. req[t].op = "claim" /\ acks' = acks
    BY <1>0, <1>3 DEF TakeOldest, Local, OpsAt, history
  <2>2. /\ req'[t].op = req[t].op
        /\ \A u \in Threads \ {t} : req'[u] = req[u]
    BY <1>0, <1>3 DEF TakeOldest, Take, TakeNone, Requests
  <2> QED
    BY <2>1, <2>2
<1>4. CASE Reread(t) \/ ReadHistory(t) \/ ReadFinal(t)
  <2>1. req[t].op \in {"claim", "stream"} /\ acks' = acks
    BY <1>0, <1>4 DEF Reread, ReadHistory, ReadFinal, Local, OpsAt, history
  <2>2. /\ req'[t].op = req[t].op
        /\ \A u \in Threads \ {t} : req'[u] = req[u]
    BY <1>0, <1>4 DEF Reread, ReadHistory, ReadFinal, Requests
  <2> QED
    BY <2>1, <2>2
<1>5. CASE CheckLimit(t) \/ CheckCancel(t) \/ UpdateRun(t) \/ CommitRow(t)
             \/ CommitNone(t) \/ AppendEvent(t) \/ CommitEvent(t)
  BY <1>5 DEF CheckLimit, CheckCancel, UpdateRun, CommitRow, CommitNone, AppendEvent,
              CommitEvent, history
<1>6. CASE Reply(t)
  <2>1. req'[t].op = "none" /\ \A u \in Threads \ {t} : req'[u] = req[u]
    BY <1>0, <1>6 DEF Reply, Blank
  <2>2. \A a \in acks' : a \in acks \/ /\ req[t].op = "enqueue" /\ req[t].run # 0
                                       /\ a.run = req[t].run /\ a.key = req[t].key
    BY <1>6 DEF Reply
  <2> QED
    BY <2>1, <2>2
<1> QED
  BY <1>1, <1>2, <1>3, <1>4, <1>5, <1>6 DEF Step

LEMMA StepKeeps ==
  ASSUME IInv, KeyInv, NEW t \in Threads, Step(t)
  PROVE  KeyInv'
<1>1. UniqueKeys(runs') /\ \A r \in DOMAIN runs : Carries(runs', r, runs[r].key)
  BY RowStep, KeysStep DEF KeyInv
<1>2. \A r, k : Carries(runs, r, k) => Carries(runs', r, k)
  BY <1>1 DEF Carries
<1>3. ASSUME NEW u \in Threads, req'[u].op = "enqueue", req'[u].run # 0
      PROVE  Carries(runs', req'[u].run, req'[u].key)
  BY <1>2, <1>3, AnswerStep DEF KeyInv
<1>4. ASSUME NEW a \in acks'
      PROVE  Carries(runs', a.run, a.key)
  BY <1>2, <1>4, AnswerStep DEF KeyInv
<1> QED
  BY <1>1, <1>3, <1>4 DEF KeyInv

LEMMA StartKeeps ==
  ASSUME IInv, KeyInv, NEW t \in Threads, Start(t)
  PROVE  KeyInv'
<1>1. UNCHANGED <<runs, acks>>
  BY DEF Start, Begin, StartEnqueue, StartRecord, StartClaim, StartComplete, StartCancel,
         StartStream, tables, history
<1>2. /\ \A u \in Threads \ {t} : req'[u] = req[u]
      /\ req'[t].op = "enqueue" => req'[t].run = 0
  <2>1. ASSUME NEW q, NEW step, Begin(t, q, step), q.op = "enqueue" => q.run = 0
        PROVE  /\ \A u \in Threads \ {t} : req'[u] = req[u]
               /\ req'[t].op = "enqueue" => req'[t].run = 0
    BY <2>1 DEF Begin, IInv, TypeOK
  <2> QED
    BY <2>1 DEF Start, StartEnqueue, StartRecord, StartClaim, StartComplete, StartCancel,
                StartStream, Blank
<1> QED
  BY <1>1, <1>2 DEF KeyInv

\* All answers to one key name one run, for any number of clients and retries, as
\* long as the server does not die: a crash takes back rows that were answered
\* before another thread's commit.
THEOREM OneKeyOneRun ==
  ASSUME MaxCrashes = 0
  PROVE  Spec => []SameKeySameRun
<1>1. Init => KeyInv
  BY DEF Init, KeyInv, UniqueKeys, Blank
<1>2. IInv /\ KeyInv /\ [Next]_vars => KeyInv'
  <2> SUFFICES ASSUME IInv, KeyInv, [Next]_vars PROVE KeyInv'
    OBVIOUS
  <2>1. CASE UNCHANGED vars
    BY <2>1 DEF vars, KeyInv, UniqueKeys, Carries
  <2> QED
    BY <2>1, NoCrash, StartKeeps, StepKeeps DEF Next
<1>3. KeyInv => SameKeySameRun
  BY DEF KeyInv, Carries, UniqueKeys, SameKeySameRun
<1> QED
  BY Inductive, <1>1, <1>2, <1>3, PTL DEF Spec

-------------------------------------------------------------------------------
(* The queue implements the abstract one. *)

\* The phases of the rows of a table.
PhasesOf(table) == [r \in DOMAIN table |-> PhaseOf(table[r])]

LEMMA PhaseFacts ==
  ASSUME NEW row
  PROVE  /\ PhaseOf(row) \in Phases!Phases
         /\ PhaseOf(row) = "waiting" <=> row.status = "queued"
  BY DEF PhaseOf, Phases!Phases

\* A new row is a new phase.
LEMMA PhasesAppend ==
  ASSUME NEW s \in Seq(Rows), NEW e \in Rows
  PROVE  PhasesOf(Append(s, e)) = Append(PhasesOf(s), PhaseOf(e))
<1> DEFINE n == Append(s, e)
           P == Phases!Phases
<1>1. /\ DOMAIN s = 1..Len(s) /\ Len(s) \in Nat
      /\ DOMAIN n = 1..(Len(s) + 1)
      /\ \A i \in DOMAIN s : n[i] = s[i]
      /\ n[Len(s) + 1] = e
  BY NewRow
<1> HIDE DEF n, P
<1>2. PhasesOf(s) \in [1..Len(s) -> P] /\ PhasesOf(n) \in [1..(Len(s) + 1) -> P]
  BY <1>1, PhaseFacts DEF PhasesOf, P
<1>3. PhasesOf(s) \in Seq(P) /\ Len(PhasesOf(s)) = Len(s)
  BY <1>1, <1>2, SeqDef, LenProperties
<1>4. PhasesOf(n) \in Seq(P) /\ Len(PhasesOf(n)) = Len(s) + 1
  BY <1>1, <1>2, SeqDef, LenProperties
<1>5. PhaseOf(e) \in P
  BY PhaseFacts DEF P
<1> DEFINE b == Append(PhasesOf(s), PhaseOf(e))
<1>6. /\ b \in Seq(P) /\ Len(b) = Len(s) + 1
      /\ \A i \in 1..Len(s) : b[i] = PhasesOf(s)[i]
      /\ b[Len(s) + 1] = PhaseOf(e)
  BY <1>3, <1>5, AppendProperties
<1> HIDE DEF b
<1>7. \A i \in 1..(Len(s) + 1) : PhasesOf(n)[i] = b[i]
  <2> SUFFICES ASSUME NEW i \in 1..(Len(s) + 1) PROVE PhasesOf(n)[i] = b[i]
    OBVIOUS
  <2>1. CASE i \in 1..Len(s)
    BY <1>1, <1>6, <2>1 DEF PhasesOf
  <2>2. CASE i = Len(s) + 1
    BY <1>1, <1>6, <2>2 DEF PhasesOf
  <2> QED
    BY <1>1, <2>1, <2>2
<1>8. PhasesOf(n) = b
  BY <1>4, <1>6, <1>7, SeqEqual
<1> QED
  BY <1>8 DEF n, b

\* A new status is a new phase of that run.
LEMMA PhasesUpdate ==
  ASSUME NEW s \in Seq(Rows), NEW r \in DOMAIN s, NEW v \in Statuses,
         NEW p, p = PhaseOf(With(s, r, v)[r])
  PROVE  PhasesOf(With(s, r, v)) = [PhasesOf(s) EXCEPT ![r] = p] /\ With(s, r, v)[r].status = v
<1> DEFINE n == With(s, r, v)
<1>1. /\ DOMAIN n = DOMAIN s
      /\ \A i \in DOMAIN s : i # r => n[i] = s[i]
      /\ n[r].status = v
  BY NewStatus DEF With
<1>2. PhaseOf(n[r]) = p
  OBVIOUS
<1> HIDE DEF n
<1>3. \A i \in DOMAIN s : PhasesOf(n)[i] = [PhasesOf(s) EXCEPT ![r] = p][i]
  BY <1>1, <1>2 DEF PhasesOf
<1>4. DOMAIN PhasesOf(n) = DOMAIN s /\ DOMAIN [PhasesOf(s) EXCEPT ![r] = p] = DOMAIN s
  BY <1>1 DEF PhasesOf
<1>5. PhasesOf(n) = [PhasesOf(s) EXCEPT ![r] = p]
  BY <1>1, <1>3, <1>4 DEF PhasesOf
<1> QED
  BY <1>1, <1>5 DEF n

\* Every statement is one step of the abstract queue, or none.
LEMMA StepRefines ==
  ASSUME IInv, NEW t \in Threads, Step(t)
  PROVE  [Phases!Next]_(PhasesOf(runs))
<1>0. /\ runs \in Seq(Rows)
      /\ \A r \in DOMAIN runs : runs[r] \in Rows
  BY LenProperties, ElementOfSeq DEF IInv, TypeOK
<1>1. CASE UNCHANGED runs
  BY <1>1 DEF PhasesOf
<1>2. CASE Submits
  <2>1. PICK row \in Rows : runs' = Append(runs, row)
    BY <1>2 DEF Submits
  <2>2. PhasesOf(runs') = Append(PhasesOf(runs), PhaseOf(row))
    BY <1>0, <2>1, PhasesAppend
  <2> QED
    BY <2>2, PhaseFacts DEF Phases!Next, Phases!Submit, PhasesOf
<1>3. CASE Grants
  <2>1. PICK r \in Oldest(Queued) : runs' = With(runs, r, "running")
    BY <1>3 DEF Grants
  <2>2. r \in DOMAIN runs /\ "running" \in Statuses
    BY <2>1 DEF Oldest, Queued, Statuses, Pending
  <2>3. /\ PhasesOf(runs') = [PhasesOf(runs) EXCEPT ![r] = PhaseOf(runs'[r])]
        /\ runs'[r].status = "running"
    BY <1>0, <2>1, <2>2, PhasesUpdate
  <2>4. PhasesOf(runs') = [PhasesOf(runs) EXCEPT ![r] = "held"]
    BY <2>3 DEF PhaseOf
  <2>5. Phases!Waiting = Queued
    BY PhaseFacts DEF Phases!Waiting, Queued, Status
  <2> QED
    BY <2>1, <2>4, <2>5 DEF Oldest, Phases!Next, Phases!Grant, PhasesOf
<1>4. CASE Concludes
  <2>1. PICK r \in DOMAIN runs, s \in Statuses \ Pending :
          runs' = With(runs, r, s)
    BY <1>4 DEF Concludes
  <2>2. /\ PhasesOf(runs') = [PhasesOf(runs) EXCEPT ![r] = PhaseOf(runs'[r])]
        /\ runs'[r].status = s
    BY <1>0, <2>1, PhasesUpdate
  <2>3. PhasesOf(runs') = [PhasesOf(runs) EXCEPT ![r] = "over"]
    BY <2>2 DEF PhaseOf, Pending
  <2> QED
    BY <2>1, <2>3 DEF Phases!Next, Phases!Conclude, PhasesOf
<1> QED
  BY <1>1, <1>2, <1>3, <1>4, RowStep

\* The server as a whole implements the abstract queue, with any number of threads
\* and statements between each other, as long as it does not die.
THEOREM Implements ==
  ASSUME MaxCrashes = 0
  PROVE  Spec => ImplementsRunPhases
<1>1. Init => Phases!Init
  BY DEF Init, Phases!Init
<1>2. IInv /\ [Next]_vars => [Phases!Next]_(PhasesOf(runs))
  <2> SUFFICES ASSUME IInv, [Next]_vars PROVE [Phases!Next]_(PhasesOf(runs))
    OBVIOUS
  <2>1. CASE UNCHANGED vars
    BY <2>1 DEF vars, PhasesOf
  <2> QED
    BY <2>1, NoCrash, StartKeepsRows, StepRefines DEF Next, PhasesOf
<1> QED
  BY Inductive, <1>1, <1>2, PTL DEF Spec, ImplementsRunPhases, Phases!Spec, PhasesOf

-------------------------------------------------------------------------------
(* The events tell the status.  Whoever changes a row appends its event two  *)
(* or three statements later; until then it still has to tell.               *)

\* The event that goes with a status.
Word(status) == CASE status = "queued" -> "queued"
                  [] status = "running" -> "claimed"
                  [] status = "cancelled" -> "cancelled"
                  [] OTHER -> "finished"

\* Thread t has changed run r to the status it has, and has yet to say so.
Telling(t, r) == /\ pc[t] \in {"commit_row", "reread", "event"} /\ req[t].run = r
                 /\ Notice(req[t].op) = Word(Status(r))

IsOver(table, r) == r \in DOMAIN table /\ table[r].status \notin Pending

\* What a handler writes goes with what it says; one that has said, or heard,
\* that a run is over has seen it over.
Says(t) ==
  /\ req[t].op \notin {"record", "http_cancel"}
  /\ req[t].op = "complete" => req[t].status \in Outcomes
  /\ req[t].op = "cancel" => req[t].status = "cancelled"
  /\ req[t].op \in {"complete", "cancel"} /\ pc[t] \in {"commit_row", "event"} =>
       IsOver(runs, req[t].run)
  /\ req[t].op = "stream" /\ req[t].seen \cap {"finished", "cancelled"} # {} =>
       /\ pc[t] = "final" => IsOver(runs, req[t].run)
       /\ pc[t] = "reply" => req[t].status \notin Pending

LogInv ==
  /\ \A r \in DOMAIN runs : Word(Status(r)) \in Told(r) \/ \E t \in Threads : Telling(t, r)
  /\ \A e \in events : e.what \in {"finished", "cancelled"} => IsOver(runs, e.run)
  /\ \A t \in Threads : Says(t)

\* The statements that write a row, of thread t.
Changes(t, r) == /\ pc'[t] = "commit_row" /\ req'[t].run = r
                 /\ Notice(req'[t].op) = Word(runs'[r].status)
                 /\ req'[t].op \in {"complete", "cancel"} => IsOver(runs', r)

LEMMA RowsStep ==
  ASSUME IInv, NEW t \in Threads, Says(t), Step(t)
  PROVE  /\ \A r \in DOMAIN runs' : \/ r \in DOMAIN runs /\ runs'[r] = runs[r]
                                    \/ Changes(t, r)
         /\ \A r : IsOver(runs, r) => IsOver(runs', r)
<1>0. /\ req[t] \in Requests /\ req \in [Threads -> Requests] /\ pc \in [Threads -> Steps]
      /\ Local(t) /\ runs \in Seq(Rows)
  BY DEF IInv, TypeOK
<1>1. CASE InsertRun(t)
  <2>1. req[t].op = "enqueue" /\ req[t].status = "queued"
    BY <1>0, <1>1 DEF InsertRun, Local, OpsAt, Says
  <2>2. CASE UNCHANGED runs
    BY <2>2 DEF IsOver
  <2>3. CASE ~UNCHANGED runs
    <3> DEFINE row == [status |-> req[t].status, key |-> req[t].key]
    <3>1. /\ runs' = Append(runs, row) /\ pc' = [pc EXCEPT ![t] = "commit_row"]
          /\ req' = [req EXCEPT ![t].run = Len(runs) + 1, ![t].created = TRUE]
      BY <1>1, <2>3 DEF InsertRun, Goto
    <3>2. row \in Rows /\ row.status = "queued"
      BY <1>0, <2>1 DEF Rows, Requests, Statuses, Pending
    <3> HIDE DEF row
    <3>3. /\ DOMAIN runs = 1..Len(runs) /\ Len(runs) \in Nat
          /\ DOMAIN runs' = 1..(Len(runs) + 1)
          /\ \A i \in DOMAIN runs : i \in DOMAIN runs' /\ runs'[i] = runs[i]
          /\ runs'[Len(runs) + 1] = row
      BY <1>0, <3>1, <3>2, NewRow
    <3>4. req'[t].run = Len(runs) + 1 /\ req'[t].op = "enqueue" /\ pc'[t] = "commit_row"
      BY <1>0, <2>1, <3>1 DEF Requests
    <3>5. Changes(t, Len(runs) + 1)
      BY <3>2, <3>3, <3>4 DEF Changes, Notice, Word
    <3>6. \A r \in DOMAIN runs' : r \in DOMAIN runs \/ r = Len(runs) + 1
      BY <3>3
    <3> QED
      BY <3>3, <3>5, <3>6 DEF IsOver
  <2> QED
    BY <2>2, <2>3
<1>2. ASSUME NEW r \in DOMAIN runs, NEW s \in Statuses, runs' = With(runs, r, s)
      PROVE  /\ DOMAIN runs' = DOMAIN runs /\ runs'[r].status = s
             /\ \A i \in DOMAIN runs : i # r => runs'[i] = runs[i]
  BY <1>0, <1>2, NewStatus DEF With
<1>3. CASE TakeOldest(t)
  <2>1. CASE UNCHANGED runs
    BY <2>1 DEF IsOver
  <2>2. CASE ~UNCHANGED runs
    <3>1. PICK r \in Oldest(Queued) : Take(t, r, "commit_row")
      BY <1>3, <2>2 DEF TakeOldest, TakeNone
    <3>2. r \in DOMAIN runs /\ runs[r].status = "queued"
      BY <3>1 DEF Oldest, Queued, Status
    <3>3. /\ DOMAIN runs' = DOMAIN runs /\ runs'[r].status = "running"
          /\ \A i \in DOMAIN runs : i # r => runs'[i] = runs[i]
      BY <1>2, <3>1, <3>2 DEF Take, With, Statuses, Pending
    <3>4. req[t].op = "claim"
      BY <1>0, <1>3 DEF TakeOldest, Local, OpsAt
    <3>5. req'[t].run = r /\ req'[t].op = "claim" /\ pc'[t] = "commit_row"
      BY <1>0, <3>1, <3>4 DEF Take, Goto, Requests
    <3>6. Changes(t, r)
      BY <3>3, <3>5 DEF Changes, Notice, Word
    <3> QED
      BY <3>2, <3>3, <3>6 DEF IsOver, Pending
  <2> QED
    BY <2>1, <2>2
<1>4. CASE UpdateRun(t)
  <2> DEFINE r == req[t].run
             s == req[t].status
  <2>1. /\ req[t].op \in {"complete", "cancel"} /\ r \in DOMAIN runs
        /\ s \in Statuses \ Pending
    BY <1>0, <1>4 DEF UpdateRun, Local, OpsAt, Using, Says
  <2>2. /\ DOMAIN runs' = DOMAIN runs /\ runs'[r].status = s
        /\ \A i \in DOMAIN runs : i # r => runs'[i] = runs[i]
    BY <1>2, <1>4, <2>1 DEF UpdateRun, With
  <2>3. req' = req /\ pc'[t] = "commit_row"
    BY <1>0, <1>4 DEF UpdateRun, Goto
  <2>4. Notice(req[t].op) = Word(s)
    BY <2>1 DEF Says, Notice, Word, Outcomes
  <2>5. Changes(t, r)
    BY <2>1, <2>2, <2>3, <2>4 DEF Changes, IsOver
  <2> QED
    BY <2>1, <2>2, <2>5 DEF IsOver
<1>5. CASE UNCHANGED runs
  BY <1>5 DEF IsOver
<1>6. CASE FindKey(t) \/ CheckLimit(t) \/ Reread(t) \/ CheckCancel(t) \/ CommitRow(t)
             \/ CommitNone(t) \/ AppendEvent(t) \/ CommitEvent(t) \/ ReadHistory(t)
             \/ ReadFinal(t) \/ Reply(t)
  BY <1>5, <1>6 DEF FindKey, CheckLimit, Reread, CheckCancel, CommitRow, CommitNone, AppendEvent,
              CommitEvent, ReadHistory, ReadFinal, Reply, tables
<1> QED
  BY <1>1, <1>3, <1>4, <1>6 DEF Step

\* What the step says: its event, and which thread goes on to say what.
LEMMA EventsStep ==
  ASSUME IInv, NEW t \in Threads, Says(t), Step(t)
  PROVE  /\ \A u \in Threads \ {t} : pc'[u] = pc[u] /\ req'[u] = req[u]
         /\ events \subseteq events'
         /\ \A e \in events' : \/ e \in events
                               \/ /\ pc[t] = "event"
                                  /\ e.run = req[t].run /\ e.what = Notice(req[t].op)
         /\ pc[t] \in {"commit_row", "reread", "event"} =>
              /\ req'[t].run = req[t].run /\ req'[t].op = req[t].op
              /\ \/ pc'[t] \in {"reread", "event"}
                 \/ [run |-> req[t].run, what |-> Notice(req[t].op)] \in events'
<1>0. /\ req[t] \in Requests /\ req \in [Threads -> Requests] /\ pc \in [Threads -> Steps]
      /\ Local(t)
  BY DEF IInv, TypeOK
<1> USE DEF Goto
<1>1. CASE FindKey(t) \/ CheckLimit(t) \/ CheckCancel(t) \/ UpdateRun(t) \/ CommitNone(t)
             \/ CommitEvent(t)
  BY <1>0, <1>1 DEF FindKey, CheckLimit, CheckCancel, UpdateRun, CommitNone, CommitEvent, tables
<1>2. CASE InsertRun(t) \/ TakeOldest(t)
  BY <1>0, <1>2 DEF InsertRun, TakeOldest, Take, TakeNone
<1>3. CASE CommitRow(t)
  <2>1. AfterRow(req[t].op) \in {"reread", "event"}
    BY <1>0, <1>3 DEF CommitRow, AfterRow, Says
  <2> QED
    BY <1>0, <1>3, <2>1 DEF CommitRow
<1>4. CASE Reread(t) \/ ReadHistory(t) \/ ReadFinal(t)
  BY <1>0, <1>4 DEF Reread, ReadHistory, ReadFinal, tables, Requests
<1>5. CASE AppendEvent(t)
  BY <1>0, <1>5 DEF AppendEvent
<1>6. CASE Reply(t)
  BY <1>0, <1>6 DEF Reply, tables
<1> QED
  BY <1>1, <1>2, <1>3, <1>4, <1>5, <1>6 DEF Step

LEMMA SaysStep ==
  ASSUME IInv, LogInv, NEW t \in Threads, Step(t)
  PROVE  Says(t)'
<1>0. /\ req[t] \in Requests /\ req \in [Threads -> Requests] /\ pc \in [Threads -> Steps]
      /\ Local(t) /\ Says(t)
  BY DEF IInv, TypeOK, LogInv
<1>o. \A r : IsOver(runs, r) => IsOver(runs', r)
  BY <1>0, RowsStep
<1> USE DEF Goto
<1>1. CASE FindKey(t) \/ CheckLimit(t) \/ InsertRun(t)
  <2>1. req[t].op = "enqueue"
    BY <1>0, <1>1 DEF FindKey, CheckLimit, InsertRun, Local, OpsAt, Says
  <2>2. req'[t].op = "enqueue"
    <3>1. CASE FindKey(t)
      BY <1>0, <2>1, <3>1 DEF FindKey, Requests
    <3>2. CASE CheckLimit(t)
      BY <2>1, <3>2 DEF CheckLimit
    <3>3. CASE InsertRun(t)
      <4>1. PICK r : req' = [req EXCEPT ![t].run = r, ![t].created = TRUE]
        BY <3>3 DEF InsertRun
      <4> QED
        BY <1>0, <2>1, <4>1 DEF Requests
    <3> QED
      BY <1>1, <3>1, <3>2, <3>3
  <2> QED
    BY <2>2 DEF Says
<1>2. CASE TakeOldest(t) \/ CommitNone(t) \/ Reread(t)
  <2>1. req[t].op = "claim"
    BY <1>0, <1>2 DEF TakeOldest, CommitNone, Reread, Local, OpsAt
  <2>2. req'[t].op = "claim"
    BY <1>0, <1>2, <2>1 DEF TakeOldest, Take, TakeNone, CommitNone, Reread, Requests
  <2> QED
    BY <2>2 DEF Says
<1>3. CASE UpdateRun(t)
  <2>1. req[t].op \in {"complete", "cancel"} /\ req[t].status \in Statuses \ Pending
        /\ req[t].run \in DOMAIN runs
    BY <1>0, <1>3 DEF UpdateRun, Local, OpsAt, Using, Says
  <2>2. IsOver(runs', req[t].run)
    <3>1. /\ runs \in Seq(Rows)
          /\ runs' = [runs EXCEPT ![req[t].run].status = req[t].status]
      BY <1>3 DEF UpdateRun, IInv, TypeOK
    <3> QED
      BY <2>1, <3>1, NewStatus DEF IsOver
  <2>3. req' = req
    BY <1>3 DEF UpdateRun
  <2> QED
    BY <1>0, <2>1, <2>2, <2>3 DEF Says
<1>4. CASE CheckCancel(t) \/ CommitRow(t) \/ AppendEvent(t) \/ CommitEvent(t)
  <2>1. /\ req' = req /\ req[t].op # "stream"
        /\ pc'[t] \in {"commit_row", "event"} => pc[t] = "commit_row"
    BY <1>0, <1>4 DEF CheckCancel, CommitRow, AppendEvent, CommitEvent, Local, OpsAt
  <2> QED
    BY <1>0, <1>o, <2>1 DEF Says
<1>5. CASE ReadHistory(t)
  <2>1. req[t].op = "stream" /\ UNCHANGED <<runs, events>>
    BY <1>0, <1>5 DEF ReadHistory, Local, OpsAt, tables
  <2>2. /\ req'[t].op = "stream" /\ req'[t].run = req[t].run /\ req'[t].seen = Told(req[t].run)
        /\ pc'[t] = "final"
    BY <1>0, <1>5, <2>1 DEF ReadHistory, Requests
  <2>3. Told(req[t].run) \cap {"finished", "cancelled"} # {} => IsOver(runs, req[t].run)
    BY DEF Told, LogInv
  <2> QED
    BY <2>1, <2>2, <2>3 DEF Says
<1>6. CASE ReadFinal(t)
  <2>1. req[t].op = "stream" /\ pc[t] = "final"
    BY <1>0, <1>6 DEF ReadFinal, Local, OpsAt
  <2>2. /\ req'[t].op = "stream" /\ req'[t].seen = req[t].seen /\ pc'[t] = "reply"
        /\ req'[t].status = Status(req[t].run)
    BY <1>0, <1>6, <2>1 DEF ReadFinal, Requests
  <2> QED
    BY <1>0, <2>1, <2>2 DEF Says, IsOver, Status
<1>7. CASE Reply(t)
  <2>1. req'[t].op = "none"
    BY <1>0, <1>7 DEF Reply, Blank
  <2> QED
    BY <2>1 DEF Says
<1> QED
  BY <1>1, <1>2, <1>3, <1>4, <1>5, <1>6, <1>7 DEF Step

LEMMA LogStep ==
  ASSUME IInv, LogInv, NEW t \in Threads, Step(t)
  PROVE  LogInv'
<1>0. Says(t)
  BY DEF LogInv
<1>1. /\ \A u \in Threads \ {t} : pc'[u] = pc[u] /\ req'[u] = req[u]
      /\ events \subseteq events'
      /\ \A r : IsOver(runs, r) => IsOver(runs', r)
  BY <1>0, RowsStep, EventsStep
<1>2. ASSUME NEW r \in DOMAIN runs'
      PROVE  Word(Status(r))' \in Told(r)' \/ \E u \in Threads : Telling(u, r)'
  <2>1. CASE Changes(t, r)
    <3>1. Telling(t, r)'
      BY <2>1 DEF Changes, Telling, Status
    <3> QED
      BY <3>1
  <2>2. CASE r \in DOMAIN runs /\ runs'[r] = runs[r]
    <3>1. Status(r)' = Status(r) /\ Told(r) \subseteq Told(r)'
      BY <1>1, <2>2 DEF Status, Told
    <3>2. CASE Word(Status(r)) \in Told(r)
      BY <3>1, <3>2
    <3>3. ASSUME NEW u \in Threads \ {t}, Telling(u, r)
          PROVE  Telling(u, r)'
      BY <1>1, <3>1, <3>3 DEF Telling
    <3>4. CASE Telling(t, r)
      <4>1. CASE pc'[t] \in {"reread", "event"}
        <5>1. Telling(t, r)'
          BY <1>0, <3>1, <3>4, <4>1, EventsStep DEF Telling
        <5> QED
          BY <5>1
      <4>2. CASE [run |-> req[t].run, what |-> Notice(req[t].op)] \in events'
        <5>1. Notice(req[t].op) \in Told(r)'
          <6> DEFINE e == [run |-> req[t].run, what |-> Notice(req[t].op)]
          <6>1. e \in {v \in events' : v.run = r} /\ e.what = Notice(req[t].op)
            BY <3>4, <4>2 DEF Telling
          <6> QED
            BY <6>1 DEF Told
        <5> QED
          BY <3>1, <3>4, <5>1 DEF Telling
      <4> QED
        BY <1>0, <3>4, <4>1, <4>2, EventsStep DEF Telling
    <3> QED
      BY <2>2, <3>2, <3>3, <3>4 DEF LogInv
  <2> QED
    BY <1>0, <2>1, <2>2, RowsStep
<1>3. ASSUME NEW e \in events', e.what \in {"finished", "cancelled"}
      PROVE  IsOver(runs', e.run)
  <2>1. CASE e \in events
    BY <1>1, <1>3, <2>1 DEF LogInv
  <2>2. CASE pc[t] = "event" /\ e.run = req[t].run /\ e.what = Notice(req[t].op)
    <3>1. req[t].op \in {"complete", "cancel"}
      BY <1>3, <2>2 DEF IInv, Local, OpsAt, Notice
    <3> QED
      BY <1>0, <1>1, <2>2, <3>1 DEF Says
  <2> QED
    BY <1>0, <2>1, <2>2, EventsStep
<1>4. ASSUME NEW u \in Threads PROVE Says(u)'
  <2>1. CASE u = t
    BY <2>1, SaysStep
  <2>2. CASE u # t
    BY <1>1, <2>2 DEF Says, LogInv
  <2> QED
    BY <2>1, <2>2
<1> QED
  BY <1>2, <1>3, <1>4 DEF LogInv

\* A request that comes in, other than a recorded run or a cancel over HTTP.
LEMMA LogStart ==
  ASSUME IInv, LogInv, NEW t \in Threads, Start(t), RecordedAs = {}, "http_cancel" \notin Ops
  PROVE  LogInv'
<1>0. pc[t] = "idle" /\ UNCHANGED <<runs, events>>
  BY DEF Start, Begin, StartEnqueue, StartRecord, StartClaim, StartComplete, StartCancel,
         StartStream, tables
<1>1. \A u \in Threads \ {t} : pc'[u] = pc[u] /\ req'[u] = req[u]
  <2>1. ASSUME NEW q, NEW step, Begin(t, q, step)
        PROVE  \A u \in Threads \ {t} : pc'[u] = pc[u] /\ req'[u] = req[u]
    BY <2>1 DEF Begin, Goto, IInv, TypeOK
  <2> QED
    BY <2>1 DEF Start, StartEnqueue, StartRecord, StartClaim, StartComplete, StartCancel,
                StartStream
<1>2. Says(t)'
  <2>1. ASSUME NEW q, NEW step, Begin(t, q, step), q.op \notin {"record", "http_cancel"},
               q.op = "complete" => q.status \in Outcomes,
               q.op = "cancel" => q.status = "cancelled",
               step \notin {"commit_row", "event", "final", "reply"}
        PROVE  Says(t)'
    <3>1. req'[t] = q /\ pc'[t] = step
      BY <2>1 DEF Begin, Goto, IInv, TypeOK
    <3> QED
      BY <2>1, <3>1 DEF Says
  <2>2. ASSUME NEW k \in Keys \cup {NoKey}, StartEnqueue(t, k) PROVE Says(t)'
    <3> DEFINE q == [Blank EXCEPT !.op = "enqueue", !.key = k, !.status = "queued"]
               step == IF k \in {NoKey, EmptyKey} THEN "count" ELSE "find"
    <3>1. Begin(t, q, step) /\ q.op = "enqueue" /\ step \in {"count", "find"}
      BY <2>2 DEF StartEnqueue, Blank
    <3> HIDE DEF q, step
    <3> QED
      BY <2>1, <3>1
  <2>3. ASSUME NEW r, NEW op \in {"cancel", "http_cancel"}, StartCancel(t, r, op) PROVE Says(t)'
    BY <2>1, <2>3 DEF StartCancel, Begin, Blank
  <2>4. ASSUME NEW r, StartStream(t, r) PROVE Says(t)'
    <3> DEFINE q == [Blank EXCEPT !.op = "stream", !.run = r, !.status = Status(r)]
    <3>1. Begin(t, q, "history") /\ q.op = "stream"
      BY <2>4 DEF StartStream, Blank
    <3> HIDE DEF q
    <3> QED
      BY <2>1, <3>1
  <2>5. CASE StartClaim(t)
    BY <2>1, <2>5 DEF StartClaim, Blank
  <2>6. ASSUME NEW s \in Outcomes, StartComplete(t, s) PROVE Says(t)'
    <3> DEFINE q == [Blank EXCEPT !.op = "complete", !.run = job[t], !.status = s]
    <3>1. Begin(t, q, "update") /\ q.op = "complete" /\ q.status = s
      BY <2>6 DEF StartComplete, Blank
    <3> HIDE DEF q
    <3> QED
      BY <2>1, <2>6, <3>1
  <2> QED
    BY <2>2, <2>3, <2>4, <2>5, <2>6 DEF Start
<1>3. ASSUME NEW u \in Threads PROVE Says(u)'
  BY <1>0, <1>1, <1>2 DEF Says, LogInv
<1>4. ASSUME NEW r \in DOMAIN runs, NEW u \in Threads, Telling(u, r) PROVE Telling(u, r)'
  BY <1>0, <1>1, <1>4 DEF Telling, Status
<1> QED
  BY <1>0, <1>3, <1>4 DEF LogInv, Told, Status

\* With runs submitted through the queue only, and cancelled through it, the events
\* of a run nobody is at work on tell its status, and no stream that has heard the
\* end closes with a pending status: for any number of threads, on a server that
\* does not die.
THEOREM HistoryTold ==
  ASSUME MaxCrashes = 0, RecordedAs = {}, "http_cancel" \notin Ops
  PROVE  Spec => []HistoryIsTold
<1>1. Init => LogInv
  BY EmptySeq DEF Init, LogInv, Says, Blank
<1>2. IInv /\ LogInv /\ [Next]_vars => LogInv'
  <2> SUFFICES ASSUME IInv, LogInv, [Next]_vars PROVE LogInv'
    OBVIOUS
  <2>1. CASE UNCHANGED vars
    BY <2>1 DEF vars, LogInv, Says, Telling, Told, Status
  <2> QED
    BY <2>1, NoCrash, LogStart, LogStep DEF Next
<1>3. IInv /\ LogInv => HistoryIsTold
  <2> SUFFICES ASSUME IInv, LogInv PROVE ProgressIsLogged /\ StreamIsConsistent
    BY DEF HistoryIsTold
  <2>1. ProgressIsLogged
    BY DEF ProgressIsLogged, LogInv, Telling, Word, Outcomes
  <2>2. StreamIsConsistent
    BY DEF StreamIsConsistent, LogInv, Says
  <2> QED
    BY <2>1, <2>2
<1> QED
  BY Inductive, <1>1, <1>2, <1>3, PTL DEF Spec
===============================================================================
