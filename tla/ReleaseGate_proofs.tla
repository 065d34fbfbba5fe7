-------------------------- MODULE ReleaseGate_proofs --------------------------
(***************************************************************************)
(* What holds of the release gate for any number of threads, requests and  *)
(* restarts: type correctness, that there is one open freeze at most, that *)
(* the audit chain verifies and goes on from every export, that under a    *)
(* freeze nothing is deployable and nothing granted, and that an approval  *)
(* is decided once, as the log says.                                       *)
(*                                                                         *)
(* IInv rests on the lock: whoever is inside a read-check-write section    *)
(* holds it, so what the section has read still stands.  DecisionInv, on   *)
(* top of it, rests on the guarded UPDATE: one request decides, and is the *)
(* only one that owes the log an entry.                                    *)
(***************************************************************************)
EXTENDS ReleaseGate, SequenceTheorems, TLAPS

-------------------------------------------------------------------------------
(* The inductive invariant. *)

\* Between the first and the last statement of a section under the lock.
Critical == {"freeze_insert", "freeze_commit", "lift_write", "lift_commit",
             "audit_insert", "audit_commit"}

LockHeld == \A t \in Threads : pc[t] \in Critical => lock = t

Audited == {"freeze", "lift", "publish", "decide"}

\* Which requests can be at which statement.
OpsAt(step) ==
  CASE step = "idle" -> {"none"}
    [] step \in {"freeze_read", "freeze_insert", "freeze_commit", "freeze_state"} -> {"freeze"}
    [] step \in {"lift_read", "lift_write", "lift_commit"} -> {"lift"}
    [] step = "request" -> {"request"}
    [] step \in {"decide_gate", "decide"} -> {"decide"}
    [] step = "publish" -> {"publish"}
    [] step = "verify" -> {"verify"}
    [] step = "commit" -> {"request", "decide", "publish", "verify"}
    [] step \in {"deploy_gate", "deploy_contract", "deploy_runs"} -> {"deploy"}
    [] step \in {"audit_read", "audit_insert", "audit_commit"} -> Audited
    [] step = "export" -> {"export"}
    [] step = "reply" -> AllOps

Flow == \A t \in Threads : /\ req[t].op \in OpsAt(pc[t])
                           /\ req[t].op = "decide" => req[t].decision \in Decisions

\* One open freeze at most, in memory and on disk, and none where one is about
\* to be inserted.
Single(freezes) == \A i, j \in Open(freezes) : i = j
Switch == /\ Single(db.freezes) /\ Single(disk.freezes)
          /\ \A t \in Threads : pc[t] = "freeze_insert" => Open(db.freezes) = {}

\* A log that links up.
Chained(entries) == \A i \in DOMAIN entries : LinkHolds(entries, i) /\ ContentHolds(entries, i)

\* Log `new` has all the entries of `old`, in their places.
Extends(old, new) == /\ Len(old) <= Len(new)
                     /\ \A i \in DOMAIN old : new[i] = old[i]

\* Both logs link up; what was read as the tail still is; only the entry that
\* its thread is about to commit is not on disk; what was exported is.
Log == /\ Chained(db.audit) /\ Chained(disk.audit)
       /\ \A t \in Threads : pc[t] = "audit_insert" => req[t].tail = TailHash(db.audit)
       /\ Extends(disk.audit, db.audit)
       /\ (\A t \in Threads : pc[t] # "audit_commit") => disk.audit = db.audit
       /\ Extends(exported, disk.audit)

\* Requests that have been under a freeze all along: it is still on, and they
\* have not got past a look at it.
Stops == \A t \in Threads :
  req[t].stopped =>
    /\ Open(db.freezes) # {} /\ Open(disk.freezes) # {}
    /\ pc[t] \notin {"deploy_contract", "deploy_runs"}
    /\ req[t].op = "deploy" => ~req[t].ok
    /\ req[t].op = "decide" /\ req[t].decision = "approved" => pc[t] # "decide" /\ ~req[t].ok

IInv == TypeOK /\ LockHeld /\ Flow /\ Switch /\ Log /\ Stops

-------------------------------------------------------------------------------
(* Sequences. *)

\* A row at the end of a table.
LEMMA AtTheEnd ==
  ASSUME NEW S, NEW s \in Seq(S), NEW e \in S
  PROVE  /\ Append(s, e) \in Seq(S)
         /\ DOMAIN s = 1..Len(s) /\ Len(s) \in Nat
         /\ DOMAIN Append(s, e) = 1..(Len(s) + 1)
         /\ Len(Append(s, e)) = Len(s) + 1
         /\ \A i \in DOMAIN s : i \in DOMAIN Append(s, e) /\ Append(s, e)[i] = s[i]
         /\ Append(s, e)[Len(s) + 1] = e
  BY AppendProperties, LenProperties

LEMMA RowNumber ==
  ASSUME NEW S, NEW s \in Seq(S), NEW i \in DOMAIN s
  PROVE  i \in Nat
  BY LenProperties

\* A row overwritten.
LEMMA InPlace ==
  ASSUME NEW S, NEW s \in Seq(S), NEW i, NEW e \in S
  PROVE  /\ [s EXCEPT ![i] = e] \in Seq(S)
         /\ DOMAIN [s EXCEPT ![i] = e] = DOMAIN s
         /\ \A j \in DOMAIN s : [s EXCEPT ![i] = e][j] = IF j = i THEN e ELSE s[j]
<1>1. DOMAIN s = 1..Len(s) /\ Len(s) \in Nat
  BY LenProperties
<1>2. CASE i \in DOMAIN s
  BY <1>1, <1>2, ExceptSeq
<1>3. CASE i \notin DOMAIN s
  <2>1. s \in [DOMAIN s -> S]
    BY <1>1, LenProperties
  <2>2. [s EXCEPT ![i] = e] = s
    BY <1>3, <2>1
  <2> QED
    BY <1>3, <2>2
<1> QED
  BY <1>2, <1>3

-------------------------------------------------------------------------------
(* Types. *)

\* The columns of the tables, and a table with one of them replaced.
LEMMA Columns ==
  ASSUME NEW T \in Tables
  PROVE  /\ T.freezes \in Seq({"open", "lifted"}) /\ T.approvals \in Seq({"pending"} \cup Decisions)
         /\ T.audit \in Seq(Entries)
         /\ \A x \in Seq({"open", "lifted"}) : [T EXCEPT !.freezes = x] \in Tables
         /\ \A x \in Seq({"pending"} \cup Decisions) : [T EXCEPT !.approvals = x] \in Tables
         /\ \A x \in Seq(Entries) : [T EXCEPT !.audit = x] \in Tables
         /\ [T EXCEPT !.published = TRUE] \in Tables
         /\ [T EXCEPT !.verified = TRUE] \in Tables
  BY DEF Tables

\* The entry of a request that is audited.
LEMMA EntryType ==
  ASSUME NEW q \in Requests, q.op \in Audited, q.op = "decide" => q.decision \in Decisions,
         NEW prev \in Seq(Actions \X Nat)
  PROVE  NewEntry(prev, What(q)) \in Entries
<1>1. What(q) \in Actions \X Nat
  BY DEF What, Audited, Actions, Requests
<1>2. Append(prev, What(q)) \in Seq(Actions \X Nat)
  BY <1>1, AtTheEnd
<1> QED
  BY <1>1, <1>2 DEF NewEntry, EntryHash, Entries

LEMMA TailType ==
  ASSUME NEW entries \in Seq(Entries)
  PROVE  TailHash(entries) \in Seq(Actions \X Nat)
<1>1. CASE entries = <<>>
  BY <1>1, EmptySeq DEF TailHash, NoHash
<1>2. CASE entries # <<>>
  <2>1. Len(entries) \in DOMAIN entries
    BY <1>2, LenProperties, EmptySeq
  <2>2. entries[Len(entries)] \in Entries
    BY <2>1, LenProperties, ElementOfSeq
  <2> QED
    BY <1>2, <2>2 DEF TailHash, Entries
<1> QED
  BY <1>1, <1>2

\* The freeze to lift.
LEMMA OpenRow ==
  ASSUME NEW s \in Seq({"open", "lifted"}), Single(s), Open(s) # {}
  PROVE  (CHOOSE i \in Open(s) : \A j \in Open(s) : j <= i) \in Open(s)
<1>1. PICK i \in Open(s) : TRUE
  OBVIOUS
<1>2. i \in Nat
  BY LenProperties DEF Open
<1>3. \A j \in Open(s) : j <= i
  BY <1>1, <1>2 DEF Single
<1> QED
  BY <1>3

\* What the statements of a thread do to its own locals is well typed.
LEMMA LocalTypes ==
  ASSUME TypeOK, NEW t \in Threads
  PROVE  /\ req[t] \in Requests
         /\ \A step \in Steps : [pc EXCEPT ![t] = step] \in [Threads -> Steps]
         /\ \A ok \in BOOLEAN : [req EXCEPT ![t].ok = ok] \in [Threads -> Requests]
         /\ \A id \in Nat : [req EXCEPT ![t].id = id] \in [Threads -> Requests]
         /\ \A tail \in Seq(Actions \X Nat) :
              [req EXCEPT ![t].tail = tail] \in [Threads -> Requests]
         /\ [u \in Threads |-> [req[u] EXCEPT !.stopped = FALSE]] \in [Threads -> Requests]
         /\ Blank \in Requests
         /\ [req EXCEPT ![t] = Blank] \in [Threads -> Requests]
<1>1. req \in [Threads -> Requests] /\ pc \in [Threads -> Steps]
  BY DEF TypeOK
<1>2. Blank \in Requests
  BY EmptySeq DEF Blank, Requests, NoHash
<1>3. ASSUME NEW ok \in BOOLEAN PROVE [req EXCEPT ![t].ok = ok] \in [Threads -> Requests]
  BY <1>1 DEF Requests
<1>4. ASSUME NEW id \in Nat PROVE [req EXCEPT ![t].id = id] \in [Threads -> Requests]
  BY <1>1 DEF Requests
<1>5. ASSUME NEW tail \in Seq(Actions \X Nat)
      PROVE  [req EXCEPT ![t].tail = tail] \in [Threads -> Requests]
  BY <1>1 DEF Requests
<1>6. [u \in Threads |-> [req[u] EXCEPT !.stopped = FALSE]] \in [Threads -> Requests]
  BY <1>1 DEF Requests
<1> QED
  BY <1>1, <1>2, <1>3, <1>4, <1>5, <1>6

LEMMA StartTypes ==
  ASSUME TypeOK, NEW t \in Threads, NEW op \in AllOps, NEW id \in Nat,
         NEW decision \in Decisions \cup {"none"}, NEW step \in Steps,
         Start(t, op, id, decision, step)
  PROVE  TypeOK'
<1>1. [Blank EXCEPT !.op = op, !.id = id, !.decision = decision,
                    !.stopped = \A T \in {db, disk} : Open(T.freezes) # {}] \in Requests
  BY LocalTypes DEF Requests
<1>2. req' \in [Threads -> Requests]
  BY <1>1 DEF Start, TypeOK
<1> QED
  BY <1>2, LocalTypes DEF Start, TypeOK, Goto

LEMMA BeginTypes ==
  ASSUME TypeOK, NEW t \in Threads, Begin(t)
  PROVE  TypeOK'
<1>1. CASE StartFreeze(t)
  BY <1>1, StartTypes DEF StartFreeze, AllOps, Steps
<1>2. CASE StartLift(t)
  BY <1>2, StartTypes DEF StartLift, AllOps, Steps
<1>3. CASE StartRequest(t)
  BY <1>3, StartTypes DEF StartRequest, AllOps, Steps
<1>4. ASSUME NEW id \in DOMAIN db.approvals, NEW d \in Decisions, StartDecide(t, id, d)
      PROVE  TypeOK'
  <2>1. id \in Nat
    BY Columns, RowNumber DEF TypeOK
  <2> QED
    BY <1>4, <2>1, StartTypes DEF StartDecide, AllOps, Steps
<1>5. CASE StartPublish(t)
  BY <1>5, StartTypes DEF StartPublish, AllOps, Steps
<1>6. CASE StartVerify(t)
  BY <1>6, StartTypes DEF StartVerify, AllOps, Steps
<1>7. CASE StartDeploy(t)
  BY <1>7, StartTypes DEF StartDeploy, AllOps, Steps
<1>8. CASE StartExport(t)
  BY <1>8, StartTypes DEF StartExport, AllOps, Steps
<1> QED
  BY <1>1, <1>2, <1>3, <1>4, <1>5, <1>6, <1>7, <1>8 DEF Begin

LEMMA StepTypes ==
  ASSUME IInv, NEW t \in Threads, Step(t)
  PROVE  TypeOK'
<1> USE DEF IInv, TypeOK, Goto, Answer, Steps, bounds
<1> USE LocalTypes
<1>0. db \in Tables /\ disk \in Tables /\ lock \in Threads \cup {Nobody}
  OBVIOUS
<1>r. /\ [req EXCEPT ![t].ok = TRUE] \in [Threads -> Requests]
      /\ [req EXCEPT ![t].ok = FALSE] \in [Threads -> Requests]
  OBVIOUS
<1>1. CASE FreezeRead(t)
  <2>1. CASE Frozen
    BY <1>1, <1>r, <2>1 DEF FreezeRead
  <2>2. CASE ~Frozen
    BY <1>1, <2>2 DEF FreezeRead
  <2> QED
    BY <2>1, <2>2
<1>2. CASE FreezeInsert(t)
  BY <1>0, <1>2, Columns, AtTheEnd DEF FreezeInsert
<1>3. CASE FreezeCommit(t)
  BY <1>3 DEF FreezeCommit
<1>4. CASE FreezeState(t)
  BY <1>4 DEF FreezeState, Frozen
<1>5. CASE LiftRead(t)
  <2>1. CASE ~Frozen
    BY <1>5, <1>r, <2>1 DEF LiftRead
  <2>2. CASE Frozen
    <3> DEFINE i == CHOOSE i \in Open(db.freezes) : \A j \in Open(db.freezes) : j <= i
    <3>1. i \in Open(db.freezes)
      BY <1>0, <2>2, OpenRow, Columns DEF Frozen, Switch
    <3> HIDE DEF i
    <3>2. i \in Nat
      BY <1>0, <3>1, Columns, RowNumber DEF Open
    <3>3. req' = [req EXCEPT ![t].id = i]
      BY <1>5, <2>2 DEF LiftRead, i
    <3> QED
      BY <1>5, <2>2, <3>2, <3>3 DEF LiftRead
  <2> QED
    BY <2>1, <2>2
<1>6. CASE LiftWrite(t)
  BY <1>0, <1>6, Columns, InPlace DEF LiftWrite
<1>7. CASE LiftCommit(t)
  BY <1>7 DEF LiftCommit
<1>8. CASE AuditRead(t)
  BY <1>0, <1>8, Columns, TailType DEF AuditRead
<1>9. CASE AuditInsert(t)
  <2>1. req[t].op \in Audited /\ (req[t].op = "decide" => req[t].decision \in Decisions)
    BY <1>9 DEF AuditInsert, At, Flow, OpsAt
  <2>2. NewEntry(req[t].tail, What(req[t])) \in Entries
    BY <2>1, EntryType DEF Requests
  <2> QED
    BY <1>0, <1>9, <2>2, Columns, AtTheEnd DEF AuditInsert
<1>10. CASE AuditCommit(t)
  BY <1>10 DEF AuditCommit
<1>11. CASE InsertApproval(t)
  BY <1>0, <1>11, Columns, AtTheEnd DEF InsertApproval
<1>12. CASE DecideGate(t)
  BY <1>12 DEF DecideGate
<1>13. CASE Decide(t)
  <2>1. req[t].decision \in {"pending"} \cup Decisions
    BY <1>13 DEF Decide, At, Flow, OpsAt
  <2>2. CASE db.approvals[req[t].id] = "pending"
    <3>1. [db.approvals EXCEPT ![req[t].id] = req[t].decision] \in Seq({"pending"} \cup Decisions)
      BY <1>0, <2>1, Columns, InPlace
    <3>2. [db EXCEPT !.approvals[req[t].id] = req[t].decision] \in Tables
      BY <1>0, <3>1, Columns
    <3> QED
      BY <1>0, <1>r, <1>13, <2>2, <3>2 DEF Decide
  <2>3. CASE db.approvals[req[t].id] # "pending"
    BY <1>13, <2>3 DEF Decide
  <2> QED
    BY <2>2, <2>3
<1>14. CASE Publish(t) \/ Verify(t)
  <2>1. db' \in Tables
    <3>1. CASE Publish(t)
      <4>1. CASE db.published
        <5>1. db' = db
          BY <3>1, <4>1 DEF Publish
        <5> QED
          BY <1>0, <5>1
      <4>2. CASE ~db.published
        <5>1. db' = [db EXCEPT !.published = TRUE]
          BY <3>1, <4>2 DEF Publish
        <5> QED
          BY <1>0, <5>1, Columns
      <4> QED
        BY <4>1, <4>2
    <3>2. CASE Verify(t)
      BY <1>0, <3>2, Columns DEF Verify
    <3> QED
      BY <1>14, <3>1, <3>2
  <2>2. \/ req' = [req EXCEPT ![t].ok = FALSE] /\ pc' = [pc EXCEPT ![t] = "reply"]
        \/ req' = [req EXCEPT ![t].ok = TRUE] /\ pc' = [pc EXCEPT ![t] = "commit"]
    BY <1>14 DEF Publish, Verify
  <2>3. UNCHANGED <<disk, lock, exported, requests, crashes>>
    BY <1>14 DEF Publish, Verify, bounds
  <2> QED
    BY <1>r, <2>1, <2>2, <2>3
<1>15. CASE Commit(t)
  BY <1>15 DEF Commit
<1>16. CASE DeployGate(t) \/ DeployContract(t) \/ DeployRuns(t)
  <2>1. CASE DeployGate(t)
    BY <1>r, <2>1 DEF DeployGate
  <2>2. CASE DeployContract(t)
    BY <1>r, <2>2 DEF DeployContract
  <2>3. CASE DeployRuns(t)
    <3>1. [req EXCEPT ![t].ok = db.verified] \in [Threads -> Requests]
      BY <1>0 DEF Tables
    <3> QED
      BY <2>3, <3>1 DEF DeployRuns
  <2> QED
    BY <1>16, <2>1, <2>2, <2>3
<1>17. CASE Export(t)
  BY <1>0, <1>17, Columns DEF Export
<1>18. CASE Reply(t)
  BY <1>18 DEF Reply
<1> QED
  BY <1>1, <1>2, <1>3, <1>4, <1>5, <1>6, <1>7, <1>8, <1>9, <1>10, <1>11, <1>12, <1>13,
     <1>14, <1>15, <1>16, <1>17, <1>18 DEF Step

-------------------------------------------------------------------------------
(* The threads: who is where, with which request, and who holds the lock. *)

\* A step of thread t, to the others: they stay where they are, and their
\* requests are what they were, except that a lift ends a freeze for all.
OthersStay(t) ==
  \A u \in Threads \ {t} :
    /\ pc'[u] = pc[u]
    /\ req'[u].op = req[u].op /\ req'[u].decision = req[u].decision
    /\ req'[u].tail = req[u].tail /\ req'[u].ok = req[u].ok
    /\ req'[u].stopped => req[u].stopped

LEMMA Others ==
  ASSUME TypeOK, NEW t \in Threads, Step(t)
  PROVE  OthersStay(t)
<1> USE DEF TypeOK, Goto, Answer, OthersStay
<1>1. CASE FreezeRead(t) \/ FreezeInsert(t) \/ FreezeCommit(t) \/ FreezeState(t)
  BY <1>1 DEF FreezeRead, FreezeInsert, FreezeCommit, FreezeState
<1>2. CASE LiftRead(t) \/ LiftCommit(t)
  BY <1>2 DEF LiftRead, LiftCommit
<1>3. CASE LiftWrite(t)
  BY <1>3 DEF LiftWrite, Requests
<1>4. CASE AuditRead(t) \/ AuditInsert(t) \/ AuditCommit(t)
  BY <1>4 DEF AuditRead, AuditInsert, AuditCommit
<1>5. CASE InsertApproval(t) \/ DecideGate(t) \/ Decide(t)
  BY <1>5 DEF InsertApproval, DecideGate, Decide
<1>6. CASE Publish(t) \/ Verify(t) \/ Commit(t)
  BY <1>6 DEF Publish, Verify, Commit
<1>7. CASE DeployGate(t) \/ DeployContract(t) \/ DeployRuns(t)
  BY <1>7 DEF DeployGate, DeployContract, DeployRuns
<1>8. CASE Export(t) \/ Reply(t)
  BY <1>8 DEF Export, Reply
<1> QED
  BY <1>1, <1>2, <1>3, <1>4, <1>5, <1>6, <1>7, <1>8 DEF Step

\* Where a request that is at `step` goes next.
Successors(step) ==
  CASE step = "freeze_read" -> {"freeze_insert", "reply"}
    [] step = "freeze_insert" -> {"freeze_commit"}
    [] step \in {"freeze_commit", "lift_commit"} -> {"audit_read"}
    [] step = "lift_read" -> {"lift_write", "reply"}
    [] step = "lift_write" -> {"lift_commit"}
    [] step = "audit_read" -> {"audit_insert"}
    [] step = "audit_insert" -> {"audit_commit"}
    [] step = "audit_commit" -> {"freeze_state", "reply"}
    [] step \in {"request", "decide", "verify"} -> {"commit"}
    [] step = "publish" -> {"commit", "reply"}
    [] step = "commit" -> {"audit_read", "reply"}
    [] step = "decide_gate" -> {"decide", "reply"}
    [] step = "deploy_gate" -> {"deploy_contract", "reply"}
    [] step = "deploy_contract" -> {"deploy_runs", "reply"}
    [] step \in {"freeze_state", "deploy_runs", "export"} -> {"reply"}
    [] step = "reply" -> {"idle"}
    [] OTHER -> {}

\* A step of thread t, to itself: its request is what it was until it is answered.
Moves(t) ==
  /\ pc'[t] \in Successors(pc[t])
  /\ pc[t] \in {"commit", "audit_commit"} /\ pc'[t] # "reply" =>
       req[t].op \in (IF pc[t] = "commit" THEN {"decide", "publish"} ELSE {"freeze"})
  /\ IF pc[t] = "reply" THEN req'[t] = Blank
     ELSE /\ req'[t].op = req[t].op /\ req'[t].decision = req[t].decision
          /\ req'[t].stopped => req[t].stopped
  /\ pc[t] # "reply" => lock \in {Nobody, t}
  /\ lock' = IF pc'[t] \in Critical THEN t ELSE IF pc[t] \in Critical THEN Nobody ELSE lock

LEMMA OwnMove ==
  ASSUME TypeOK, LockHeld, NEW t \in Threads, Step(t)
  PROVE  Moves(t)
<1> USE DEF TypeOK, Requests, LockHeld, Goto, Answer, At, Moves, Successors, Critical
<1>1. CASE FreezeRead(t)
  BY <1>1 DEF FreezeRead
<1>2. CASE FreezeInsert(t) \/ FreezeCommit(t) \/ FreezeState(t)
  BY <1>2 DEF FreezeInsert, FreezeCommit, FreezeState
<1>3. CASE LiftRead(t)
  <2>1. CASE Frozen
    <3>1. PICK i : req' = [req EXCEPT ![t].id = i]
      BY <1>3, <2>1 DEF LiftRead
    <3>2. /\ pc[t] = "lift_read" /\ lock \in {Nobody, t} /\ lock' = t
          /\ pc' = [pc EXCEPT ![t] = "lift_write"]
      BY <1>3, <2>1 DEF LiftRead
    <3> QED
      BY <3>1, <3>2
  <2>2. CASE ~Frozen
    BY <1>3, <2>2 DEF LiftRead
  <2> QED
    BY <2>1, <2>2
<1>4. CASE LiftWrite(t) \/ LiftCommit(t)
  BY <1>4 DEF LiftWrite, LiftCommit, Requests
<1>5. CASE AuditRead(t) \/ AuditInsert(t)
  BY <1>5 DEF AuditRead, AuditInsert
<1>6. CASE AuditCommit(t)
  BY <1>6 DEF AuditCommit
<1>7. CASE InsertApproval(t)
  BY <1>7 DEF InsertApproval
<1>8. CASE DecideGate(t)
  BY <1>8 DEF DecideGate
<1>9. CASE Decide(t)
  BY <1>9 DEF Decide
<1>p. CASE Publish(t)
  <2>1. /\ pc[t] = "publish" /\ lock \in {Nobody, t} /\ lock' = lock
        /\ \/ req' = [req EXCEPT ![t].ok = FALSE] /\ pc' = [pc EXCEPT ![t] = "reply"]
           \/ req' = [req EXCEPT ![t].ok = TRUE] /\ pc' = [pc EXCEPT ![t] = "commit"]
    BY <1>p DEF Publish
  <2>2. /\ pc'[t] \in {"reply", "commit"}
        /\ req'[t].op = req[t].op /\ req'[t].decision = req[t].decision
        /\ req'[t].stopped = req[t].stopped
    BY <2>1
  <2> QED
    BY <2>1, <2>2
<1>v. CASE Verify(t)
  BY <1>v DEF Verify
<1>10. CASE Commit(t)
  BY <1>10 DEF Commit
<1>11. CASE DeployGate(t)
  <2>1. /\ pc[t] = "deploy_gate" /\ lock \in {Nobody, t} /\ lock' = lock
        /\ \/ req' = [req EXCEPT ![t].ok = FALSE] /\ pc' = [pc EXCEPT ![t] = "reply"]
           \/ UNCHANGED req /\ pc' = [pc EXCEPT ![t] = "deploy_contract"]
    BY <1>11 DEF DeployGate
  <2> QED
    BY <2>1
<1>12. CASE DeployContract(t)
  <2>1. /\ pc[t] = "deploy_contract" /\ lock \in {Nobody, t} /\ lock' = lock
        /\ \/ req' = [req EXCEPT ![t].ok = FALSE] /\ pc' = [pc EXCEPT ![t] = "reply"]
           \/ UNCHANGED req /\ pc' = [pc EXCEPT ![t] = "deploy_runs"]
    BY <1>12 DEF DeployContract
  <2> QED
    BY <2>1
<1>13. CASE DeployRuns(t) \/ Export(t)
  <2>1. /\ pc[t] \in {"deploy_runs", "export"} /\ lock \in {Nobody, t} /\ lock' = lock
        /\ pc' = [pc EXCEPT ![t] = "reply"]
        /\ \E ok : req' = [req EXCEPT ![t].ok = ok]
    BY <1>13 DEF DeployRuns, Export
  <2> QED
    BY <2>1
<1>14. CASE Reply(t)
  BY <1>14 DEF Reply
<1> QED
  BY <1>1, <1>2, <1>3, <1>4, <1>5, <1>6, <1>7, <1>8, <1>9, <1>10, <1>11, <1>12, <1>13,
     <1>14, <1>p, <1>v DEF Step

LEMMA ThreadsStep ==
  ASSUME IInv, NEW t \in Threads, Step(t)
  PROVE  LockHeld' /\ Flow'
<1>1. OthersStay(t) /\ Moves(t)
  BY Others, OwnMove DEF IInv
<1>2. LockHeld'
  BY <1>1, GateAssumption DEF IInv, LockHeld, OthersStay, Moves, Successors, Critical
<1>3. req'[t].op \in OpsAt(pc'[t])
  BY <1>1 DEF IInv, Flow, Moves, Successors, OpsAt, Audited, AllOps, Blank
<1>4. req'[t].op = "decide" => req'[t].decision \in Decisions
  BY <1>1 DEF IInv, Flow, Moves, Blank
<1>5. Flow'
  BY <1>1, <1>3, <1>4 DEF IInv, Flow, OthersStay
<1> QED
  BY <1>2, <1>5

-------------------------------------------------------------------------------
(* The tables: which statement writes what. *)

Commits == {"freeze_commit", "lift_commit", "audit_commit", "commit"}

Writes(t) ==
  /\ db'.freezes = CASE pc[t] = "freeze_insert" -> Append(db.freezes, "open")
                     [] pc[t] = "lift_write" -> [db.freezes EXCEPT ![req[t].id] = "lifted"]
                     [] OTHER -> db.freezes
  /\ db'.audit = IF pc[t] = "audit_insert"
                 THEN Append(db.audit, NewEntry(req[t].tail, What(req[t]))) ELSE db.audit
  /\ disk' = IF pc[t] \in Commits THEN db ELSE disk
  /\ exported' = IF pc[t] = "export" THEN db.audit ELSE exported

LEMMA TableWrites ==
  ASSUME TypeOK, NEW t \in Threads, Step(t)
  PROVE  Writes(t)
<1> USE DEF At, Writes, Commits
<1>0. db \in Tables
  BY DEF TypeOK
<1>1. CASE FreezeRead(t) \/ FreezeCommit(t) \/ FreezeState(t)
  BY <1>1 DEF FreezeRead, FreezeCommit, FreezeState
<1>2. CASE FreezeInsert(t)
  BY <1>0, <1>2 DEF FreezeInsert, Tables
<1>3. CASE LiftRead(t) \/ LiftCommit(t)
  BY <1>3 DEF LiftRead, LiftCommit
<1>4. CASE LiftWrite(t)
  BY <1>0, <1>4 DEF LiftWrite, Tables
<1>5. CASE AuditRead(t) \/ AuditCommit(t)
  BY <1>5 DEF AuditRead, AuditCommit
<1>6. CASE AuditInsert(t)
  BY <1>0, <1>6 DEF AuditInsert, Tables
<1>7. CASE InsertApproval(t)
  BY <1>0, <1>7 DEF InsertApproval, Tables
<1>8. CASE DecideGate(t) \/ Commit(t)
  BY <1>8 DEF DecideGate, Commit
<1>9. CASE Decide(t)
  BY <1>0, <1>9 DEF Decide, Tables
<1>10. CASE Publish(t)
  BY <1>0, <1>10 DEF Publish, Tables
<1>11. CASE Verify(t)
  BY <1>0, <1>11 DEF Verify, Tables
<1>12. CASE DeployGate(t) \/ DeployContract(t) \/ DeployRuns(t)
  BY <1>12 DEF DeployGate, DeployContract, DeployRuns
<1>13. CASE Export(t) \/ Reply(t)
  BY <1>13 DEF Export, Reply
<1> QED
  BY <1>1, <1>2, <1>3, <1>4, <1>5, <1>6, <1>7, <1>8, <1>9, <1>10, <1>11, <1>12, <1>13 DEF Step

\* Two threads are never inside sections under the lock at once.
LEMMA Alone ==
  ASSUME IInv, NEW t \in Threads, NEW u \in Threads,
         pc[u] \in Critical, pc[t] # "reply", Moves(t)
  PROVE  t = u
  BY GateAssumption DEF IInv, LockHeld, Moves

-------------------------------------------------------------------------------
(* The switch. *)

LEMMA OpenAppended ==
  ASSUME NEW s \in Seq({"open", "lifted"}), Open(s) = {}
  PROVE  Single(Append(s, "open")) /\ Open(Append(s, "open")) # {}
<1>1. /\ DOMAIN s = 1..Len(s) /\ Len(s) \in Nat
      /\ DOMAIN Append(s, "open") = 1..(Len(s) + 1)
      /\ \A i \in DOMAIN s : Append(s, "open")[i] = s[i]
      /\ Append(s, "open")[Len(s) + 1] = "open"
  BY AtTheEnd
<1>2. Open(Append(s, "open")) = {Len(s) + 1}
  BY <1>1 DEF Open
<1> QED
  BY <1>2 DEF Single

LEMMA OpenLifted ==
  ASSUME NEW s \in Seq({"open", "lifted"}), NEW i
  PROVE  Open([s EXCEPT ![i] = "lifted"]) \subseteq Open(s)
<1>1. /\ DOMAIN [s EXCEPT ![i] = "lifted"] = DOMAIN s
      /\ \A j \in DOMAIN s : [s EXCEPT ![i] = "lifted"][j] = IF j = i THEN "lifted" ELSE s[j]
  BY InPlace
<1> QED
  BY <1>1 DEF Open

LEMMA SwitchStep ==
  ASSUME IInv, NEW t \in Threads, Step(t)
  PROVE  Switch'
<1>0. OthersStay(t) /\ Moves(t) /\ Writes(t)
  BY Others, OwnMove, TableWrites DEF IInv
<1>1. db.freezes \in Seq({"open", "lifted"})
  BY Columns DEF IInv, TypeOK
<1>2. Single(db'.freezes)
  <2>1. CASE pc[t] = "freeze_insert"
    BY <1>0, <1>1, <2>1, OpenAppended DEF Writes, IInv, Switch
  <2>2. CASE pc[t] = "lift_write"
    <3>1. Open(db'.freezes) \subseteq Open(db.freezes)
      BY <1>0, <1>1, <2>2, OpenLifted DEF Writes
    <3> QED
      BY <3>1 DEF Single, IInv, Switch
  <2>3. CASE pc[t] \notin {"freeze_insert", "lift_write"}
    BY <1>0, <2>3 DEF Writes, IInv, Switch
  <2> QED
    BY <2>1, <2>2, <2>3
<1>3. Single(disk'.freezes)
  BY <1>0 DEF Writes, IInv, Switch
<1>4. ASSUME NEW u \in Threads, pc'[u] = "freeze_insert"
      PROVE  Open(db'.freezes) = {}
  <2>1. CASE u = t
    <3>1. FreezeRead(t) /\ ~Frozen
      <4>1. pc[t] = "freeze_read"
        BY <1>0, <1>4, <2>1 DEF Moves, Successors
      <4>2. FreezeRead(t)
        BY <4>1 DEF Step, At, FreezeRead, FreezeInsert, FreezeCommit, FreezeState, LiftRead,
               LiftWrite, LiftCommit, AuditRead, AuditInsert, AuditCommit, InsertApproval,
               DecideGate, Decide, Publish, Verify, Commit, DeployGate, DeployContract,
               DeployRuns, Export, Reply
      <4> QED
        BY <1>4, <2>1, <4>2 DEF FreezeRead, Answer, Goto, IInv, TypeOK
    <3> QED
      BY <3>1 DEF FreezeRead, Frozen
  <2>2. CASE u # t
    <3>1. pc[u] = "freeze_insert"
      BY <1>0, <1>4, <2>2 DEF OthersStay
    <3>2. pc[t] = "reply"
      BY <1>0, <2>2, <3>1, Alone DEF Critical
    <3> QED
      BY <1>0, <3>1, <3>2 DEF Writes, IInv, Switch
  <2> QED
    BY <2>1, <2>2
<1> QED
  BY <1>2, <1>3, <1>4 DEF Switch

-------------------------------------------------------------------------------
(* The log. *)

LEMMA ChainedAppend ==
  ASSUME NEW s \in Seq(Entries), Chained(s), NEW what, NewEntry(TailHash(s), what) \in Entries
  PROVE  Chained(Append(s, NewEntry(TailHash(s), what)))
<1> DEFINE e == NewEntry(TailHash(s), what)
           n == Append(s, e)
<1>1. /\ DOMAIN s = 1..Len(s) /\ Len(s) \in Nat
      /\ DOMAIN n = 1..(Len(s) + 1)
      /\ \A i \in DOMAIN s : n[i] = s[i]
      /\ n[Len(s) + 1] = e
  BY AtTheEnd
<1>2. e.prev = TailHash(s) /\ e.hash = EntryHash(e.prev, e.what)
  BY DEF NewEntry
<1> HIDE DEF e, n
<1>3. ASSUME NEW i \in DOMAIN s
      PROVE  LinkHolds(n, i) /\ ContentHolds(n, i)
  <2>1. LinkHolds(s, i) /\ ContentHolds(s, i)
    BY DEF Chained
  <2>2. n[i] = s[i] /\ (i # 1 => n[i - 1] = s[i - 1])
    BY <1>1
  <2> QED
    BY <2>1, <2>2 DEF LinkHolds, ContentHolds, Preceding
<1>4. LinkHolds(n, Len(s) + 1)
  <2>1. CASE s = <<>>
    BY <1>1, <1>2, <2>1, EmptySeq DEF LinkHolds, Preceding, TailHash
  <2>2. CASE s # <<>>
    <3>1. Len(s) # 0
      BY <2>2, EmptySeq
    <3>2. n[(Len(s) + 1) - 1] = s[Len(s)] /\ Len(s) + 1 # 1
      BY <1>1, <3>1
    <3> QED
      BY <1>1, <1>2, <2>2, <3>2 DEF LinkHolds, Preceding, TailHash
  <2> QED
    BY <2>1, <2>2
<1>5. ContentHolds(n, Len(s) + 1)
  BY <1>1, <1>2 DEF ContentHolds
<1> QED
  BY <1>1, <1>3, <1>4, <1>5 DEF Chained, e, n

LEMMA ExtendsSelf ==
  ASSUME NEW s \in Seq(Entries)
  PROVE  Extends(s, s)
  BY LenProperties DEF Extends

LEMMA ExtendsTransitive ==
  ASSUME NEW a \in Seq(Entries), NEW b \in Seq(Entries), NEW c \in Seq(Entries),
         Extends(a, b), Extends(b, c)
  PROVE  Extends(a, c)
<1>1. Len(a) <= Len(c)
  BY LenProperties DEF Extends
<1>2. \A i \in DOMAIN a : i \in DOMAIN b
  BY LenProperties DEF Extends
<1> QED
  BY <1>1, <1>2 DEF Extends

LEMMA ExtendsAppend ==
  ASSUME NEW s \in Seq(Entries), NEW e \in Entries
  PROVE  Extends(s, Append(s, e))
<1>1. /\ Len(s) \in Nat /\ Len(Append(s, e)) = Len(s) + 1
      /\ \A i \in DOMAIN s : Append(s, e)[i] = s[i]
  BY AtTheEnd
<1> QED
  BY <1>1 DEF Extends

\* A new entry: inserted where the tail that was read still is the tail.
LEMMA LogInserted ==
  ASSUME IInv, NEW t \in Threads, Step(t), pc[t] = "audit_insert"
  PROVE  Log'
<1>0. OthersStay(t) /\ Moves(t) /\ Writes(t)
  BY Others, OwnMove, TableWrites DEF IInv
<1> DEFINE e == NewEntry(req[t].tail, What(req[t]))
<1>1. /\ db.audit \in Seq(Entries) /\ disk.audit \in Seq(Entries) /\ exported \in Seq(Entries)
      /\ req[t].tail = TailHash(db.audit) /\ Chained(db.audit) /\ Chained(disk.audit)
      /\ Extends(exported, disk.audit)
  BY Columns DEF IInv, TypeOK, Log
<1>2. db'.audit = Append(db.audit, e) /\ disk' = disk /\ exported' = exported
  BY <1>0 DEF Writes, Commits
<1>3. e \in Entries
  <2>1. req[t].op \in Audited /\ (req[t].op = "decide" => req[t].decision \in Decisions)
    BY DEF IInv, Flow, OpsAt
  <2>2. req[t] \in Requests
    BY DEF IInv, TypeOK
  <2> QED
    BY <2>1, <2>2, EntryType DEF Requests
<1>4. Chained(db'.audit)
  BY <1>1, <1>2, <1>3, ChainedAppend
<1>5. \A u \in Threads : u # t => pc[u] \notin Critical
  BY <1>0, Alone
<1>6. disk.audit = db.audit
  BY <1>5 DEF IInv, Log, Critical
<1>7. Extends(disk'.audit, db'.audit)
  BY <1>1, <1>2, <1>3, <1>6, ExtendsAppend
<1>8. pc'[t] = "audit_commit"
  BY <1>0 DEF Moves, Successors
<1>9. \A u \in Threads : pc'[u] # "audit_insert"
  BY <1>0, <1>5, <1>8 DEF OthersStay, Critical
<1> QED
  BY <1>1, <1>2, <1>4, <1>7, <1>8, <1>9 DEF Log

\* Any other step leaves the log in memory alone.
LEMMA LogKept ==
  ASSUME IInv, NEW t \in Threads, Step(t), pc[t] # "audit_insert"
  PROVE  Log'
<1>0. OthersStay(t) /\ Moves(t) /\ Writes(t)
  BY Others, OwnMove, TableWrites DEF IInv
<1>1. /\ db.audit \in Seq(Entries) /\ disk.audit \in Seq(Entries) /\ exported \in Seq(Entries)
      /\ Chained(db.audit) /\ Chained(disk.audit)
      /\ Extends(exported, disk.audit) /\ Extends(disk.audit, db.audit)
      /\ (\A u \in Threads : pc[u] # "audit_commit") => disk.audit = db.audit
  BY Columns DEF IInv, TypeOK, Log
<1>2. db'.audit = db.audit
  BY <1>0 DEF Writes
<1>3. disk'.audit = disk.audit \/ disk'.audit = db.audit
  BY <1>0 DEF Writes
<1>4. ASSUME NEW u \in Threads, pc'[u] = "audit_insert"
      PROVE  req'[u].tail = TailHash(db'.audit)
  <2>1. CASE u = t
    <3>1. pc[t] = "audit_read"
      BY <1>0, <1>4, <2>1 DEF Moves, Successors
    <3>2. AuditRead(t)
      BY <3>1 DEF Step, At, FreezeRead, FreezeInsert, FreezeCommit, FreezeState, LiftRead,
             LiftWrite, LiftCommit, AuditRead, AuditInsert, AuditCommit, InsertApproval,
             DecideGate, Decide, Publish, Verify, Commit, DeployGate, DeployContract,
             DeployRuns, Export, Reply
    <3> QED
      BY <1>2, <2>1, <3>2 DEF AuditRead, IInv, TypeOK, Requests
  <2>2. CASE u # t
    BY <1>0, <1>2, <1>4, <2>2 DEF OthersStay, IInv, Log
  <2> QED
    BY <2>1, <2>2
<1>5. (\A u \in Threads : pc'[u] # "audit_commit") => disk'.audit = db'.audit
  <2>1. CASE pc[t] \in Commits
    BY <1>0, <1>2, <2>1 DEF Writes
  <2>2. CASE pc[t] \notin Commits
    <3>1. disk' = disk
      BY <1>0, <2>2 DEF Writes
    <3>2. ASSUME \A u \in Threads : pc'[u] # "audit_commit"
          PROVE  \A u \in Threads : pc[u] # "audit_commit"
      BY <1>0, <2>2, <3>2 DEF OthersStay, Commits
    <3> QED
      BY <1>1, <1>2, <3>1, <3>2
  <2> QED
    BY <2>1, <2>2
<1>6. Extends(disk'.audit, db'.audit)
  BY <1>1, <1>2, <1>3, ExtendsSelf
<1>7. Extends(exported', disk'.audit)
  <2>1. CASE pc[t] = "export"
    <3>1. \A u \in Threads : pc[u] # "audit_commit"
      BY <1>0, <2>1, Alone DEF Critical
    <3> QED
      BY <1>0, <1>1, <2>1, <3>1, ExtendsSelf DEF Writes, Commits
  <2>2. CASE pc[t] # "export"
    BY <1>0, <1>1, <1>3, <2>2, ExtendsTransitive DEF Writes
  <2> QED
    BY <2>1, <2>2
<1> QED
  BY <1>1, <1>2, <1>3, <1>4, <1>5, <1>6, <1>7 DEF Log

-------------------------------------------------------------------------------
(* Requests under a freeze. *)

\* What such a request has not done.
Held(t) == /\ pc[t] \notin {"deploy_contract", "deploy_runs"}
           /\ req[t].op = "deploy" => ~req[t].ok
           /\ req[t].op = "decide" /\ req[t].decision = "approved" => pc[t] # "decide" /\ ~req[t].ok

\* It looks at the freeze, finds it on, and gets no further.
LEMMA HeldStep ==
  ASSUME IInv, NEW t \in Threads, Step(t), Held(t), Frozen
  PROVE  pc[t] = "reply" \/ Held(t)'
<1> USE DEF TypeOK, Requests, Goto, Answer, At, Held, IInv, Flow, OpsAt
<1>1. CASE FreezeRead(t)
  <2>1. pc[t] = "freeze_read" /\ req[t] \in Requests
    BY <1>1 DEF FreezeRead
  <2>2. req[t].op = "freeze"
    BY <2>1
  <2>3. req' = [req EXCEPT ![t].ok = TRUE] /\ pc' = [pc EXCEPT ![t] = "reply"]
    BY <1>1 DEF FreezeRead
  <2>4. pc'[t] = "reply" /\ req'[t].op = "freeze"
    BY <2>2, <2>3
  <2> QED
    BY <2>4
<1>2. CASE FreezeInsert(t) \/ FreezeCommit(t)
  BY <1>2 DEF FreezeInsert, FreezeCommit
<1>3. CASE FreezeState(t)
  BY <1>3 DEF FreezeState
<1>4. CASE LiftRead(t)
  <2>1. PICK i : req' = [req EXCEPT ![t].id = i]
    BY <1>4 DEF LiftRead
  <2>2. pc[t] = "lift_read" /\ pc' = [pc EXCEPT ![t] = "lift_write"]
    BY <1>4 DEF LiftRead
  <2> QED
    BY <2>1, <2>2
<1>5. CASE LiftWrite(t)
  BY <1>5 DEF LiftWrite
<1>6. CASE LiftCommit(t)
  BY <1>6 DEF LiftCommit
<1>7. CASE AuditRead(t) \/ AuditInsert(t)
  BY <1>7 DEF AuditRead, AuditInsert
<1>8. CASE AuditCommit(t)
  BY <1>8 DEF AuditCommit
<1>9. CASE InsertApproval(t)
  BY <1>9 DEF InsertApproval
<1>10. CASE DecideGate(t)
  BY <1>10 DEF DecideGate
<1>11. CASE Decide(t)
  <2>1. pc[t] = "decide" /\ req[t] \in Requests
    BY <1>11 DEF Decide
  <2>2. req[t].op = "decide"
    BY <2>1
  <2>3. req[t].decision # "approved"
    BY <2>1, <2>2
  <2>4. pc' = [pc EXCEPT ![t] = "commit"]
    BY <1>11 DEF Decide
  <2>5. req' = req \/ req' = [req EXCEPT ![t].ok = TRUE]
    BY <1>11 DEF Decide
  <2>6. pc'[t] = "commit" /\ req'[t].op = "decide" /\ req'[t].decision # "approved"
    BY <2>2, <2>3, <2>4, <2>5
  <2> QED
    BY <2>6
<1>12. CASE Publish(t)
  <2>1. pc[t] = "publish" /\ req[t] \in Requests
    BY <1>12 DEF Publish
  <2>2. req[t].op = "publish"
    BY <2>1
  <2>3. \/ req' = [req EXCEPT ![t].ok = FALSE] /\ pc' = [pc EXCEPT ![t] = "reply"]
        \/ req' = [req EXCEPT ![t].ok = TRUE] /\ pc' = [pc EXCEPT ![t] = "commit"]
    BY <1>12 DEF Publish
  <2>4. pc'[t] \in {"reply", "commit"} /\ req'[t].op = "publish"
    BY <2>2, <2>3
  <2> QED
    BY <2>4
<1>13. CASE Verify(t)
  BY <1>13 DEF Verify
<1>14. CASE Commit(t)
  BY <1>14 DEF Commit
<1>15. CASE DeployGate(t)
  BY <1>15 DEF DeployGate
<1>16. CASE DeployContract(t) \/ DeployRuns(t)
  BY <1>16 DEF DeployContract, DeployRuns
<1>17. CASE Export(t)
  BY <1>17 DEF Export
<1>18. CASE Reply(t)
  BY <1>18 DEF Reply
<1> QED
  BY <1>1, <1>2, <1>3, <1>4, <1>5, <1>6, <1>7, <1>8, <1>9, <1>10, <1>11, <1>12, <1>13,
     <1>14, <1>15, <1>16, <1>17, <1>18 DEF Step

LEMMA StopsStep ==
  ASSUME IInv, NEW t \in Threads, Step(t)
  PROVE  Stops'
<1>0. OthersStay(t) /\ Moves(t) /\ Writes(t)
  BY Others, OwnMove, TableWrites DEF IInv
<1> SUFFICES ASSUME NEW u \in Threads, req'[u].stopped
             PROVE  Open(db'.freezes) # {} /\ Open(disk'.freezes) # {} /\ Held(u)'
  BY DEF Stops, Held
<1>1. req[u].stopped
  BY <1>0 DEF OthersStay, Moves, Blank
<1>2. Open(db.freezes) # {} /\ Open(disk.freezes) # {} /\ Held(u)
  BY <1>1 DEF IInv, Stops, Held
<1>3. pc[t] # "lift_write"
  <2> SUFFICES ASSUME pc[t] = "lift_write" PROVE FALSE
    OBVIOUS
  <2>1. LiftWrite(t)
    BY DEF Step, At, FreezeRead, FreezeInsert, FreezeCommit, FreezeState, LiftRead, LiftWrite,
           LiftCommit, AuditRead, AuditInsert, AuditCommit, InsertApproval, DecideGate, Decide,
           Publish, Verify, Commit, DeployGate, DeployContract, DeployRuns, Export, Reply
  <2>2. req' = [v \in Threads |-> [req[v] EXCEPT !.stopped = FALSE]] /\ req[u] \in Requests
    BY <2>1 DEF LiftWrite, IInv, TypeOK
  <2> QED
    BY <2>2 DEF Requests
<1>4. Open(db'.freezes) # {} /\ Open(disk'.freezes) # {}
  <2>1. pc[t] # "freeze_insert"
    BY <1>2 DEF IInv, Switch
  <2> QED
    BY <1>0, <1>2, <1>3, <2>1 DEF Writes
<1>5. Held(u)'
  <2>1. CASE u = t
    <3>1. pc[t] # "reply"
      BY <1>0, <2>1 DEF Moves, Blank
    <3> QED
      BY <1>2, <2>1, <3>1, HeldStep DEF Frozen
  <2>2. CASE u # t
    BY <1>0, <1>2, <2>2 DEF OthersStay, Held
  <2> QED
    BY <2>1, <2>2
<1> QED
  BY <1>4, <1>5

-------------------------------------------------------------------------------
(* The invariant holds initially and is preserved by every step. *)

LEMMA InitInv == Init => IInv
<1> SUFFICES ASSUME Init PROVE IInv
  OBVIOUS
<1>0. /\ \A S : <<>> \in Seq(S)
      /\ Len(<<>>) = 0 /\ DOMAIN <<>> = {}
  BY EmptySeq
<1>1. TypeOK
  <2>1. Empty \in Tables
    BY <1>0 DEF Empty, Tables
  <2>2. Blank \in Requests
    BY <1>0 DEF Blank, Requests, NoHash
  <2> QED
    BY <1>0, <2>1, <2>2 DEF Init, TypeOK, Steps
<1>2. LockHeld /\ Flow
  BY DEF Init, LockHeld, Critical, Flow, OpsAt, Blank
<1>3. Switch
  BY <1>0 DEF Init, Switch, Single, Open, Empty
<1>4. Log
  BY <1>0 DEF Init, Log, Chained, Extends, Empty
<1>5. Stops
  BY DEF Init, Stops, Blank
<1> QED
  BY <1>1, <1>2, <1>3, <1>4, <1>5 DEF IInv

\* A request comes in: nothing but its own thread is touched.
LEMMA StartInv ==
  ASSUME IInv, TypeOK', NEW t \in Threads, NEW op, NEW id, NEW decision, NEW step,
         Start(t, op, id, decision, step), op \in OpsAt(step), step # "commit",
         op = "decide" => decision \in Decisions /\ step # "decide",
         step \notin Critical \cup {"deploy_contract", "deploy_runs"}
  PROVE  IInv'
<1>1. /\ pc' = [pc EXCEPT ![t] = step] /\ UNCHANGED <<db, disk, lock, exported>>
      /\ \E stopped \in BOOLEAN :
           /\ stopped => Open(db.freezes) # {} /\ Open(disk.freezes) # {}
           /\ req' = [req EXCEPT ![t] = [Blank EXCEPT !.op = op, !.id = id, !.decision = decision,
                                                      !.stopped = stopped]]
  BY DEF Start, Goto
<1>2. /\ pc'[t] = step /\ req'[t].op = op /\ req'[t].decision = decision /\ ~req'[t].ok
      /\ req'[t].stopped => Open(db.freezes) # {} /\ Open(disk.freezes) # {}
      /\ \A u \in Threads \ {t} : pc'[u] = pc[u] /\ req'[u] = req[u]
  BY <1>1 DEF IInv, TypeOK, Blank
<1>3. LockHeld' /\ Flow'
  BY <1>1, <1>2 DEF IInv, LockHeld, Flow
<1>4. Switch'
  BY <1>1, <1>2 DEF IInv, Switch, Critical
<1>5. Log'
  <2>1. pc[t] = "idle"
    BY DEF Start
  <2> QED
    BY <1>1, <1>2, <2>1 DEF IInv, Log, Critical
<1>6. Stops'
  BY <1>1, <1>2 DEF IInv, Stops
<1> QED
  BY <1>3, <1>4, <1>5, <1>6 DEF IInv

LEMMA BeginInv ==
  ASSUME IInv, NEW t \in Threads, Begin(t)
  PROVE  IInv'
<1> USE DEF OpsAt, Critical
<1>0. TypeOK'
  BY BeginTypes DEF IInv
<1>1. CASE StartFreeze(t)
  BY <1>0, <1>1, StartInv DEF StartFreeze
<1>2. CASE StartLift(t)
  BY <1>0, <1>2, StartInv DEF StartLift
<1>3. CASE StartRequest(t)
  BY <1>0, <1>3, StartInv DEF StartRequest
<1>4. ASSUME NEW id \in DOMAIN db.approvals, NEW d \in Decisions, StartDecide(t, id, d)
      PROVE  IInv'
  BY <1>0, <1>4, StartInv DEF StartDecide
<1>5. CASE StartPublish(t)
  BY <1>0, <1>5, StartInv DEF StartPublish
<1>6. CASE StartVerify(t)
  BY <1>0, <1>6, StartInv DEF StartVerify
<1>7. CASE StartDeploy(t)
  BY <1>0, <1>7, StartInv DEF StartDeploy
<1>8. CASE StartExport(t)
  BY <1>0, <1>8, StartInv DEF StartExport
<1> QED
  BY <1>1, <1>2, <1>3, <1>4, <1>5, <1>6, <1>7, <1>8 DEF Begin

\* After a restart everything is as it is on disk, and nobody holds the lock.
LEMMA CrashInv ==
  ASSUME IInv, Crash
  PROVE  IInv'
<1>1. /\ db' = disk /\ disk' = disk /\ lock' = Nobody /\ exported' = exported
      /\ pc' = [t \in Threads |-> "idle"] /\ req' = [t \in Threads |-> Blank]
  BY DEF Crash
<1>2. TypeOK'
  <2>1. Blank \in Requests
    BY EmptySeq DEF Blank, Requests, NoHash
  <2> QED
    BY <1>1, <2>1 DEF IInv, TypeOK, Crash, Steps
<1>3. LockHeld' /\ Flow'
  BY <1>1 DEF LockHeld, Critical, Flow, OpsAt, Blank
<1>4. Switch'
  BY <1>1 DEF IInv, Switch
<1>5. Log'
  <2>1. disk.audit \in Seq(Entries)
    BY Columns DEF IInv, TypeOK
  <2> QED
    BY <1>1, <2>1, ExtendsSelf DEF IInv, Log
<1>6. Stops'
  BY <1>1 DEF Stops, Blank
<1> QED
  BY <1>2, <1>3, <1>4, <1>5, <1>6 DEF IInv

LEMMA NextInv == IInv /\ [Next]_vars => IInv'
<1> SUFFICES ASSUME IInv, [Next]_vars PROVE IInv'
  OBVIOUS
<1>1. CASE Crash
  BY <1>1, CrashInv
<1>2. ASSUME NEW t \in Threads, Begin(t)
      PROVE  IInv'
  BY <1>2, BeginInv
<1>3. ASSUME NEW t \in Threads, Step(t)
      PROVE  IInv'
  <2>1. TypeOK' /\ LockHeld' /\ Flow' /\ Switch' /\ Stops'
    BY <1>3, StepTypes, ThreadsStep, SwitchStep, StopsStep
  <2>2. Log'
    BY <1>3, LogInserted, LogKept
  <2> QED
    BY <2>1, <2>2 DEF IInv
<1>4. CASE UNCHANGED vars
  BY <1>4 DEF vars, IInv, TypeOK, LockHeld, Flow, Switch, Log, Stops
<1> QED
  BY <1>1, <1>2, <1>3, <1>4 DEF Next, Done

LEMMA Invariant == Spec => []IInv
  BY InitInv, NextInv, PTL DEF Spec

-------------------------------------------------------------------------------
(* The theorems. *)

\* Tables, locals and history keep their types.
THEOREM TypeCorrect == Spec => []TypeOK
<1>1. IInv => TypeOK
  BY DEF IInv
<1> QED
  BY <1>1, Invariant, PTL

\* However many threads pull the switch at once, and whenever the process dies,
\* the organization has one open freeze at most.
THEOREM OneFreeze == Spec => []OneOpenFreeze
<1>1. IInv => OneOpenFreeze
  BY DEF IInv, Switch, Single, OneOpenFreeze
<1> QED
  BY <1>1, Invariant, PTL

\* A log that links up is what verify_chain calls valid.
LEMMA ChainedIsValid == \A s : Chained(s) <=> VerifyChain(s).valid
<1> SUFFICES ASSUME NEW s PROVE Chained(s) <=> VerifyChain(s).valid
  OBVIOUS
<1>1. VerifyChain(s).valid = (Broken(s) = {})
  BY DEF VerifyChain
<1> QED
  BY <1>1 DEF Chained, Broken

\* The audit chain verifies at every moment, in memory and on disk.
THEOREM ChainHolds == Spec => []ChainIsValid
<1>1. IInv => ChainIsValid
  BY ChainedIsValid DEF IInv, Log, ChainIsValid
<1> QED
  BY <1>1, Invariant, PTL

\* Equal hashes have hashed the same.
LEMMA SameHash ==
  ASSUME NEW W, NEW p \in Seq(W), NEW q \in Seq(W), NEW v \in W, NEW w \in W,
         EntryHash(p, v) = EntryHash(q, w)
  PROVE  p = q /\ v = w
BY AppendInjective DEF EntryHash

LEMMA SameEntry ==
  ASSUME NEW a \in Entries, NEW b \in Entries, a.what = b.what, a.prev = b.prev, a.hash = b.hash
  PROVE  a = b
BY DEF Entries

\* What the check on an export concludes: when it finds no problem, the log as it
\* was exported earlier is the beginning of the log as it is now, entry by entry,
\* and not only by the hashes that are compared (verify_export, _continuity).
THEOREM CheckedIsContained ==
  ASSUME NEW now \in Seq(Entries), NEW old \in Seq(Entries), NEW key,
         NEW document, document.entries = now,
         NEW earlier, earlier.entries = old, VerifyChain(old).valid,
         VerifyExport(document, key, earlier) = {}
  PROVE  Extends(old, now)
<1>1. VerifyChain(now).valid /\ Continuity(now, old) = "continuous"
  BY DEF VerifyExport
<1>2. Len(old) <= Len(now) /\ \A i \in DOMAIN old : old[i].hash = now[i].hash
  BY <1>1, LenProperties DEF Continuity
<1>3. Chained(now) /\ Chained(old)
  BY <1>1, ChainedIsValid
<1>4. ASSUME NEW i \in DOMAIN old PROVE now[i] = old[i]
  <2>1. i \in DOMAIN now /\ now[i] \in Entries /\ old[i] \in Entries
    BY <1>2, LenProperties, ElementOfSeq
  <2>2. EntryHash(old[i].prev, old[i].what) = EntryHash(now[i].prev, now[i].what)
    BY <1>2, <1>3, <2>1 DEF Chained, ContentHolds
  <2>3. /\ old[i].prev \in Seq(Actions \X Nat) /\ old[i].what \in Actions \X Nat
        /\ now[i].prev \in Seq(Actions \X Nat) /\ now[i].what \in Actions \X Nat
    BY <2>1 DEF Entries
  <2>4. ASSUME NEW W, W = Actions \X Nat, NEW a, NEW b, a = old[i], b = now[i]
        PROVE  a.prev = b.prev /\ a.what = b.what
    <3>1. a.prev \in Seq(W) /\ b.prev \in Seq(W) /\ a.what \in W /\ b.what \in W
          /\ EntryHash(a.prev, a.what) = EntryHash(b.prev, b.what)
      BY <2>2, <2>3, <2>4
    <3> QED
      BY <3>1, SameHash
  <2>5. old[i].hash = now[i].hash
    BY <1>2
  <2> QED
    BY <2>1, <2>4, <2>5, SameEntry
<1> QED
  BY <1>2, <1>4 DEF Extends

\* Every export passes the check against any earlier one, across restarts.
THEOREM ExportsHold == Spec => []ExportsContinue
<1>1. IInv => ExportsContinue
  <2> SUFFICES ASSUME IInv PROVE ExportsContinue
    OBVIOUS
  <2>1. db.audit \in Seq(Entries) /\ disk.audit \in Seq(Entries) /\ exported \in Seq(Entries)
    BY Columns DEF IInv, TypeOK
  <2>2. Extends(exported, db.audit)
    BY <2>1, ExtendsTransitive DEF IInv, Log
  <2>3. Continuity(db.audit, exported) = "continuous"
    BY <2>1, <2>2, LenProperties DEF Extends, Continuity
  <2>4. VerifyChain(db.audit).valid
    BY ChainedIsValid DEF IInv, Log
  <2>5. ASSUME NEW key
        PROVE  /\ BuildExport(exported, key).entries = exported
               /\ BuildExport(db.audit, key).entries = db.audit
               /\ BuildExport(db.audit, key).entry_count = Len(db.audit)
               /\ BuildExport(db.audit, key).first = FirstHash(db.audit)
               /\ BuildExport(db.audit, key).last = TailHash(db.audit)
               /\ BuildExport(db.audit, key).chain = VerifyChain(db.audit)
               /\ BuildExport(db.audit, key).seal = Seal(BuildExport(db.audit, key), key)
    BY DEF BuildExport, Seal
  <2>6. ASSUME NEW key
        PROVE  VerifyExport(BuildExport(db.audit, key), key, BuildExport(exported, key)) = {}
    BY <2>3, <2>4, <2>5 DEF VerifyExport
  <2> QED
    BY <2>4, <2>5, <2>6 DEF ExportsContinue, ExportCommand, VerifyCommand
<1> QED
  BY <1>1, Invariant, PTL

\* Under a freeze that held throughout, nothing is deployable and nothing granted.
THEOREM FreezeStops == Spec => []StoppedMeansStopped
<1>1. IInv => StoppedMeansStopped
  BY DEF IInv, Stops, StoppedMeansStopped
<1> QED
  BY <1>1, Invariant, PTL

-------------------------------------------------------------------------------
(* Decisions.  The update that decides an approval lets one request through; *)
(* until that one has logged its decision, it owes the entry.                *)

IsDecision(e) == e.what[1] \in Decisions

\* A table's log has one decision of an approval at most, and that is the table's.
Agrees(approvals, audit) ==
  /\ \A i \in DOMAIN audit : IsDecision(audit[i]) =>
        /\ audit[i].what[2] \in DOMAIN approvals
        /\ approvals[audit[i].what[2]] = audit[i].what[1]
  /\ \A i, j \in DOMAIN audit :
        IsDecision(audit[i]) /\ IsDecision(audit[j]) /\ audit[i].what[2] = audit[j].what[2] => i = j

Owes(t) == /\ pc[t] \in {"commit", "audit_read", "audit_insert"}
           /\ req[t].op = "decide" /\ req[t].ok

Unlogged(audit, id) == \A i \in DOMAIN audit : IsDecision(audit[i]) => audit[i].what[2] # id

\* A request that decides is about a row of the table, and logs only what it decided.
Deciding(t) ==
  req[t].op = "decide" =>
    /\ req[t].id \in DOMAIN db.approvals
    /\ pc[t] \in {"decide_gate", "decide"} => ~req[t].ok
    /\ pc[t] \in {"audit_read", "audit_insert"} => req[t].ok

\* What it owes is in the table, is not in the log, and nobody else owes it.
Owed(t) ==
  Owes(t) => /\ db.approvals[req[t].id] = req[t].decision
             /\ Unlogged(db.audit, req[t].id)
             /\ \A u \in Threads \ {t} : Owes(u) => req[u].id # req[t].id

DecisionInv == /\ Agrees(db.approvals, db.audit) /\ Agrees(disk.approvals, disk.audit)
               /\ \A t \in Threads : Deciding(t) /\ Owed(t)

\* What a statement of thread t does to the approvals, and to a request that decides.
Settles(t) ==
  /\ \A u \in Threads \ {t} : req'[u].id = req[u].id
  /\ req[t].op = "decide" /\ pc[t] # "reply" =>
       /\ req'[t].id = req[t].id
       /\ pc[t] # "decide" => req'[t].ok = req[t].ok
       /\ pc[t] = "decide" /\ req'[t].ok => req[t].ok \/ db.approvals[req[t].id] = "pending"
       /\ pc[t] = "commit" /\ pc'[t] = "audit_read" => req[t].ok
  /\ db'.approvals =
       IF pc[t] = "request" THEN Append(db.approvals, "pending")
       ELSE IF pc[t] = "decide" /\ db.approvals[req[t].id] = "pending"
       THEN [db.approvals EXCEPT ![req[t].id] = req[t].decision]
       ELSE db.approvals

LEMMA Settling ==
  ASSUME IInv, NEW t \in Threads, Step(t)
  PROVE  Settles(t)
<1> USE DEF At, Goto, Answer, Settles
<1>0. /\ req \in [Threads -> Requests] /\ req[t] \in Requests /\ pc \in [Threads -> Steps]
      /\ db \in Tables /\ req[t].op \in OpsAt(pc[t])
  BY DEF IInv, TypeOK, Flow
<1>1. CASE FreezeRead(t) \/ FreezeInsert(t) \/ FreezeCommit(t) \/ FreezeState(t)
  <2>1. req[t].op = "freeze"
    BY <1>0, <1>1 DEF FreezeRead, FreezeInsert, FreezeCommit, FreezeState, OpsAt
  <2> QED
    BY <1>0, <1>1, <2>1 DEF FreezeRead, FreezeInsert, FreezeCommit, FreezeState, Tables
<1>2. CASE LiftRead(t) \/ LiftWrite(t) \/ LiftCommit(t)
  <2>1. req[t].op = "lift"
    BY <1>0, <1>2 DEF LiftRead, LiftWrite, LiftCommit, OpsAt
  <2> QED
    BY <1>0, <1>2, <2>1 DEF LiftRead, LiftWrite, LiftCommit, Tables, Requests
<1>3. CASE AuditRead(t)
  BY <1>0, <1>3 DEF AuditRead, Requests
<1>4. CASE AuditInsert(t)
  BY <1>0, <1>4 DEF AuditInsert, Tables
<1>5. CASE AuditCommit(t)
  BY <1>0, <1>5 DEF AuditCommit
<1>6. CASE InsertApproval(t)
  <2>1. req[t].op = "request"
    BY <1>0, <1>6 DEF InsertApproval, OpsAt
  <2> QED
    BY <1>0, <1>6, <2>1 DEF InsertApproval, Tables
<1>7. CASE DecideGate(t)
  BY <1>0, <1>7 DEF DecideGate
<1>8. CASE Decide(t)
  BY <1>0, <1>8 DEF Decide, Tables, Requests
<1>9. CASE Publish(t) \/ Verify(t)
  <2>1. req[t].op \in {"publish", "verify"}
    BY <1>0, <1>9 DEF Publish, Verify, OpsAt
  <2> QED
    BY <1>0, <1>9, <2>1 DEF Publish, Verify, Tables
<1>10. CASE Commit(t)
  BY <1>0, <1>10 DEF Commit
<1>11. CASE DeployGate(t) \/ DeployContract(t) \/ DeployRuns(t)
  <2>1. req[t].op = "deploy"
    BY <1>0, <1>11 DEF DeployGate, DeployContract, DeployRuns, OpsAt
  <2> QED
    BY <1>0, <1>11, <2>1 DEF DeployGate, DeployContract, DeployRuns
<1>12. CASE Export(t)
  <2>1. req[t].op = "export"
    BY <1>0, <1>12 DEF Export, OpsAt
  <2> QED
    BY <1>0, <1>12, <2>1 DEF Export
<1>13. CASE Reply(t)
  BY <1>0, <1>13 DEF Reply
<1> QED
  BY <1>1, <1>2, <1>3, <1>4, <1>5, <1>6, <1>7, <1>8, <1>9, <1>10, <1>11, <1>12, <1>13 DEF Step

\* An entry at the end of the log: of a decision that was owed, or of something else.
LEMMA AgreesAppend ==
  ASSUME NEW approvals, NEW audit \in Seq(Entries), NEW e \in Entries, Agrees(approvals, audit),
         IsDecision(e) => /\ e.what[2] \in DOMAIN approvals /\ approvals[e.what[2]] = e.what[1]
                          /\ Unlogged(audit, e.what[2])
  PROVE  Agrees(approvals, Append(audit, e))
<1> DEFINE n == Append(audit, e)
<1>1. /\ DOMAIN audit = 1..Len(audit) /\ Len(audit) \in Nat
      /\ DOMAIN n = 1..(Len(audit) + 1)
      /\ \A i \in DOMAIN audit : n[i] = audit[i]
      /\ n[Len(audit) + 1] = e
  BY AtTheEnd
<1> HIDE DEF n
<1>2. \A i \in DOMAIN n : i \in DOMAIN audit \/ i = Len(audit) + 1
  BY <1>1
<1>3. \A i \in DOMAIN n : IsDecision(n[i]) =>
        /\ n[i].what[2] \in DOMAIN approvals /\ approvals[n[i].what[2]] = n[i].what[1]
  BY <1>1, <1>2 DEF Agrees
<1>4. ASSUME NEW i \in DOMAIN n, NEW j \in DOMAIN n,
             IsDecision(n[i]) /\ IsDecision(n[j]) /\ n[i].what[2] = n[j].what[2]
      PROVE  i = j
  BY <1>1, <1>2, <1>4 DEF Agrees, Unlogged
<1> QED
  BY <1>3, <1>4 DEF Agrees, n

LEMMA DecisionStep ==
  ASSUME IInv, DecisionInv, NEW t \in Threads, Step(t)
  PROVE  DecisionInv'
<1>0. OthersStay(t) /\ Moves(t) /\ Writes(t) /\ Settles(t)
  BY Others, OwnMove, TableWrites, Settling DEF IInv
<1>1. /\ db.approvals \in Seq({"pending"} \cup Decisions) /\ db.audit \in Seq(Entries)
      /\ req[t] \in Requests /\ req[t].op \in OpsAt(pc[t])
      /\ req[t].op = "decide" => req[t].decision \in Decisions
  BY Columns DEF IInv, TypeOK, Flow
<1> DEFINE old == db.approvals
           new == db'.approvals
           id == req[t].id
\* The approvals: none goes, and only a pending one changes.
<1>2. \A a \in DOMAIN old : /\ a \in DOMAIN new
                            /\ new[a] = old[a] \/ (pc[t] = "decide" /\ a = id /\ old[a] = "pending")
  <2>1. CASE pc[t] = "request"
    <3>1. new = Append(old, "pending")
      BY <1>0, <2>1 DEF Settles
    <3> QED
      BY <1>1, <3>1, AtTheEnd
  <2>2. CASE pc[t] = "decide" /\ old[id] = "pending"
    <3>1. new = [old EXCEPT ![id] = req[t].decision]
      BY <1>0, <2>2 DEF Settles
    <3> QED
      BY <2>2, <3>1
  <2>3. CASE pc[t] # "request" /\ ~(pc[t] = "decide" /\ old[id] = "pending")
    BY <1>0, <2>3 DEF Settles
  <2> QED
    BY <2>1, <2>2, <2>3
<1>3. pc[t] = "decide" /\ old[id] = "pending" => id \in DOMAIN old /\ new[id] = req[t].decision
  BY <1>0, <1>1 DEF Settles, DecisionInv, Deciding, OpsAt
<1>4. "pending" \notin Decisions
  BY DEF Decisions
\* An approval that is decided, in the log or by somebody who owes the entry, stays.
<1>5. \A i \in DOMAIN db.audit : IsDecision(db.audit[i]) =>
        new[db.audit[i].what[2]] = db.audit[i].what[1] /\ db.audit[i].what[2] \in DOMAIN new
  BY <1>2, <1>4 DEF DecisionInv, Agrees, IsDecision
<1>6. Agrees(new, db.audit)
  BY <1>5 DEF DecisionInv, Agrees
<1>7. Agrees(new, db'.audit)
  <2>1. CASE pc[t] = "audit_insert"
    <3> DEFINE e == NewEntry(req[t].tail, What(req[t]))
    <3>1. db'.audit = Append(db.audit, e)
      BY <1>0, <2>1 DEF Writes
    <3>2. e \in Entries
      BY <1>1, <2>1, EntryType DEF OpsAt, Requests
    <3>3. e.what = What(req[t])
      BY DEF NewEntry
    <3>4. new = old
      BY <1>0, <2>1 DEF Settles
    <3>5. CASE req[t].op = "decide"
      <4>1. e.what[1] = req[t].decision /\ e.what[2] = id
        BY <3>3, <3>5 DEF What
      <4>2. Deciding(t) /\ Owed(t)
        BY DEF DecisionInv
      <4>3. id \in DOMAIN old /\ old[id] = req[t].decision /\ Unlogged(db.audit, id)
        BY <2>1, <3>5, <4>2 DEF Deciding, Owed, Owes
      <4> HIDE DEF e, old, new, id
      <4> QED
        BY <1>1, <1>6, <3>1, <3>2, <3>4, <4>1, <4>3, AgreesAppend
    <3>6. CASE req[t].op # "decide"
      <4>1. e.what[1] \notin Decisions
        BY <1>1, <2>1, <3>3, <3>6 DEF OpsAt, Audited, What, Decisions
      <4>2. ~IsDecision(e)
        BY <4>1 DEF IsDecision
      <4> HIDE DEF e, old, new, id
      <4> QED
        BY <1>1, <1>6, <3>1, <3>2, <4>2, AgreesAppend
    <3> QED
      BY <3>5, <3>6
  <2>2. CASE pc[t] # "audit_insert"
    BY <1>0, <1>6, <2>2 DEF Writes
  <2> QED
    BY <2>1, <2>2
<1>8. Agrees(disk'.approvals, disk'.audit)
  BY <1>0 DEF Writes, DecisionInv
<1>9. ASSUME NEW u \in Threads PROVE Deciding(u)'
  <2>1. CASE u # t
    BY <1>0, <1>2, <2>1 DEF DecisionInv, Deciding, OthersStay, Settles
  <2>2. CASE u = t
    <3> SUFFICES ASSUME req'[t].op = "decide"
                 PROVE  /\ req'[t].id \in DOMAIN new
                        /\ pc'[t] \in {"decide_gate", "decide"} => ~req'[t].ok
                        /\ pc'[t] \in {"audit_read", "audit_insert"} => req'[t].ok
      BY <2>2 DEF Deciding
    <3>1. req[t].op = "decide" /\ pc[t] # "reply"
      BY <1>0 DEF Moves, Blank
    <3>2. pc[t] \in {"decide_gate", "decide", "commit", "audit_read", "audit_insert", "audit_commit"}
      BY <1>1, <3>1 DEF OpsAt, IInv, TypeOK, Steps
    <3>3. id \in DOMAIN old /\ Deciding(t)
      BY <3>1 DEF DecisionInv, Deciding
    <3> QED
      BY <1>0, <1>2, <3>1, <3>2, <3>3 DEF Settles, Moves, Successors, Deciding
  <2> QED
    BY <2>1, <2>2
\* Nobody who owes an entry is about the approval that is being decided.
<1>10. ASSUME NEW u \in Threads, Owes(u)
       PROVE  new[req[u].id] = req[u].decision /\ ~(pc[t] = "decide" /\ req[u].id = id /\ old[id] = "pending")
  <2>1. old[req[u].id] = req[u].decision /\ req[u].decision \in Decisions /\ req[u].id \in DOMAIN old
    BY <1>10 DEF DecisionInv, Owed, Owes, Deciding, IInv, Flow
  <2> QED
    BY <1>2, <1>4, <2>1
\* Who owes an entry after the step owed it before, or has just decided.
<1>11. ASSUME NEW u \in Threads, Owes(u)'
       PROVE  /\ req'[u].id = req[u].id /\ req'[u].decision = req[u].decision
              /\ \/ Owes(u) /\ (u = t => pc[t] # "audit_insert")
                 \/ u = t /\ pc[t] = "decide" /\ old[id] = "pending"
  <2>1. CASE u # t
    BY <1>0, <1>11, <2>1 DEF OthersStay, Settles, Owes
  <2>2. CASE u = t
    <3>1. req[t].op = "decide" /\ pc[t] # "reply" /\ req'[t].decision = req[t].decision
      BY <1>0, <1>11, <2>2 DEF Moves, Blank, Owes
    <3>2. pc[t] \in {"decide_gate", "decide", "commit", "audit_read", "audit_insert", "audit_commit"}
      BY <1>1, <3>1 DEF OpsAt, IInv, TypeOK, Steps
    <3>3. pc[t] \in {"decide", "commit", "audit_read"}
      BY <1>0, <1>11, <2>2, <3>2 DEF Owes, Moves, Successors
    <3>4. pc[t] = "decide" => ~req[t].ok
      BY <3>1 DEF DecisionInv, Deciding
    <3> QED
      BY <1>0, <1>11, <2>2, <3>1, <3>3, <3>4 DEF Settles, Owes
  <2> QED
    BY <2>1, <2>2
<1>12. \A i \in DOMAIN db.audit : IsDecision(db.audit[i]) => old[db.audit[i].what[2]] # "pending"
  BY <1>4 DEF DecisionInv, Agrees, IsDecision
<1>13. ASSUME NEW u \in Threads, Owes(u)' PROVE Unlogged(db'.audit, req'[u].id)
  <2>1. Unlogged(db.audit, req[u].id)
    BY <1>11, <1>12, <1>13 DEF DecisionInv, Owed, Unlogged
  <2>2. CASE pc[t] # "audit_insert"
    BY <1>0, <1>11, <1>13, <2>1, <2>2 DEF Writes
  <2>3. CASE pc[t] = "audit_insert"
    <3> DEFINE e == NewEntry(req[t].tail, What(req[t]))
    <3>1. db'.audit = Append(db.audit, e) /\ e \in Entries /\ e.what = What(req[t])
      BY <1>0, <1>1, <2>3, EntryType DEF Writes, OpsAt, Requests, NewEntry
    <3>2. u # t /\ Owes(u)
      BY <1>11, <1>13, <2>3
    <3>3. IsDecision(e) => req[t].op = "decide" /\ e.what[2] = id
      BY <1>1, <2>3, <3>1 DEF IsDecision, What, OpsAt, Audited, Decisions
    <3>4. IsDecision(e) => Owes(t)
      BY <2>3, <3>3 DEF DecisionInv, Deciding, Owes
    <3>5. IsDecision(e) => e.what[2] # req[u].id
      BY <3>2, <3>3, <3>4 DEF DecisionInv, Owed
    <3> HIDE DEF e
    <3>6. \A i \in DOMAIN db'.audit : \/ i \in DOMAIN db.audit /\ db'.audit[i] = db.audit[i]
                                  \/ db'.audit[i] = e
      BY <1>1, <3>1, AtTheEnd
    <3> QED
      BY <1>11, <1>13, <2>1, <3>5, <3>6 DEF Unlogged
  <2> QED
    BY <2>2, <2>3
<1>14. ASSUME NEW u \in Threads PROVE Owed(u)'
  <2> SUFFICES ASSUME Owes(u)'
               PROVE  /\ new[req'[u].id] = req'[u].decision
                      /\ Unlogged(db'.audit, req'[u].id)
                      /\ \A v \in Threads \ {u} : Owes(v)' => req'[v].id # req'[u].id
    BY DEF Owed
  <2>1. new[req'[u].id] = req'[u].decision
    BY <1>3, <1>10, <1>11
  <2>2. ASSUME NEW v \in Threads \ {u}, Owes(v)' PROVE req'[v].id # req'[u].id
    <3>1. CASE Owes(u) /\ Owes(v)
      BY <1>11, <2>2, <3>1 DEF DecisionInv, Owed
    <3>2. CASE Owes(u) /\ ~Owes(v)
      BY <1>10, <1>11, <2>2, <3>2
    <3>3. CASE ~Owes(u)
      BY <1>10, <1>11, <2>2, <3>3
    <3> QED
      BY <3>1, <3>2, <3>3
  <2> QED
    BY <1>13, <2>1, <2>2
<1> QED
  BY <1>7, <1>8, <1>9, <1>14 DEF DecisionInv

\* A request that comes in has decided nothing, and is about a row of the table.
LEMMA StartDecision ==
  ASSUME TypeOK, DecisionInv, NEW t \in Threads, NEW op, NEW id, NEW decision, NEW step,
         Start(t, op, id, decision, step), op = "decide" => id \in DOMAIN db.approvals,
         step \notin {"commit", "audit_read", "audit_insert"}
  PROVE  DecisionInv'
<1>1. /\ pc' = [pc EXCEPT ![t] = step] /\ UNCHANGED <<db, disk>>
      /\ \E stopped \in BOOLEAN :
           req' = [req EXCEPT ![t] = [Blank EXCEPT !.op = op, !.id = id, !.decision = decision,
                                                   !.stopped = stopped]]
  BY DEF Start, Goto
<1>2. /\ pc'[t] = step /\ req'[t].op = op /\ req'[t].id = id /\ ~req'[t].ok
      /\ \A u \in Threads \ {t} : pc'[u] = pc[u] /\ req'[u] = req[u]
  BY <1>1 DEF TypeOK, Blank
<1>3. ~Owes(t)' /\ \A u \in Threads \ {t} : Owes(u)' <=> Owes(u)
  BY <1>2 DEF Owes
<1>4. ASSUME NEW u \in Threads PROVE Deciding(u)'
  BY <1>1, <1>2 DEF DecisionInv, Deciding
<1>5. ASSUME NEW u \in Threads PROVE Owed(u)'
  BY <1>1, <1>2, <1>3 DEF DecisionInv, Owed
<1> QED
  BY <1>1, <1>4, <1>5 DEF DecisionInv

LEMMA BeginDecision ==
  ASSUME TypeOK, DecisionInv, NEW t \in Threads, Begin(t)
  PROVE  DecisionInv'
<1>1. CASE StartFreeze(t)
  BY <1>1, StartDecision DEF StartFreeze
<1>2. CASE StartLift(t)
  BY <1>2, StartDecision DEF StartLift
<1>3. CASE StartRequest(t)
  BY <1>3, StartDecision DEF StartRequest
<1>4. ASSUME NEW id \in DOMAIN db.approvals, NEW d \in Decisions, StartDecide(t, id, d)
      PROVE  DecisionInv'
  BY <1>4, StartDecision DEF StartDecide
<1>5. CASE StartPublish(t)
  BY <1>5, StartDecision DEF StartPublish
<1>6. CASE StartVerify(t)
  BY <1>6, StartDecision DEF StartVerify
<1>7. CASE StartDeploy(t)
  BY <1>7, StartDecision DEF StartDeploy
<1>8. CASE StartExport(t)
  BY <1>8, StartDecision DEF StartExport
<1> QED
  BY <1>1, <1>2, <1>3, <1>4, <1>5, <1>6, <1>7, <1>8 DEF Begin

LEMMA DecisionNext == IInv /\ DecisionInv /\ [Next]_vars => DecisionInv'
<1> SUFFICES ASSUME IInv, DecisionInv, [Next]_vars PROVE DecisionInv'
  OBVIOUS
<1>1. CASE Crash
  <2>1. /\ db' = disk /\ disk' = disk
        /\ pc' = [t \in Threads |-> "idle"] /\ req' = [t \in Threads |-> Blank]
    BY <1>1 DEF Crash
  <2>2. \A t \in Threads : Deciding(t)' /\ Owed(t)'
    BY <2>1 DEF Deciding, Owed, Owes, Blank
  <2> QED
    BY <2>1, <2>2 DEF DecisionInv
<1>2. ASSUME NEW t \in Threads, Begin(t)
      PROVE  DecisionInv'
  BY <1>2, BeginDecision DEF IInv
<1>3. ASSUME NEW t \in Threads, Step(t)
      PROVE  DecisionInv'
  BY <1>3, DecisionStep
<1>4. CASE UNCHANGED vars
  BY <1>4 DEF vars, DecisionInv, Deciding, Owed, Owes
<1> QED
  BY <1>1, <1>2, <1>3, <1>4 DEF Next, Done

\* Of every approval the log has one decision at most, and it is the one the
\* table shows, in memory and on disk, whoever decides it at the same time and
\* whenever the process dies.
THEOREM DecisionsAudited == Spec => []DecisionsMatchAudit
<1>1. Init => DecisionInv
  <2> SUFFICES ASSUME Init PROVE DecisionInv
    OBVIOUS
  <2>1. db.audit = <<>> /\ disk.audit = <<>> /\ DOMAIN <<>> = {}
    BY EmptySeq DEF Init, Empty
  <2> QED
    BY <2>1 DEF Init, DecisionInv, Agrees, Deciding, Owed, Owes, Blank
<1>2. DecisionInv => DecisionsMatchAudit
  BY DEF DecisionInv, Agrees, IsDecision, DecisionsMatchAudit
<1> QED
  BY <1>1, <1>2, DecisionNext, Invariant, PTL DEF Spec
===============================================================================
