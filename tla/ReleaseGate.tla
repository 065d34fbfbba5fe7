------------------------------ MODULE ReleaseGate ------------------------------
(***************************************************************************)
(* The release decisions of the self-hosted server, for one organization:  *)
(* the emergency freeze (server/freeze.py), approvals, can-i-deploy        *)
(* (server/decision.py) and the hash-chained audit log, with the Store     *)
(* methods (server/store.py) and routes (server/api.py) behind them.       *)
(*                                                                         *)
(* Request threads share one connection.  A step is one statement; a       *)
(* statement waits while another thread holds the connection's lock across *)
(* several (freeze, lift_freeze and audit_append do).  All statements run  *)
(* in one shared transaction: any commit makes all of them durable, and a  *)
(* crash takes the tables back to the last commit.                         *)
(***************************************************************************)
EXTENDS AuditExport, FiniteSets, TLC

CONSTANTS Threads,      \* request threads
          Nobody,       \* holder of the free lock
          Ops,          \* the requests that are sent
          MaxRequests,  \* bound: requests handled
          MaxCrashes    \* bound: restarts of the server process

AllOps == {"freeze", "lift", "request", "decide", "publish", "verify", "deploy", "export"}
Decisions == {"approved", "rejected"}
Steps == {"idle", "freeze_read", "freeze_insert", "freeze_commit", "freeze_state",
          "lift_read", "lift_write", "lift_commit", "request", "decide_gate", "decide",
          "publish", "verify", "commit", "deploy_gate", "deploy_contract", "deploy_runs",
          "audit_read", "audit_insert", "audit_commit", "export", "reply"}

ASSUME GateAssumption ==
  /\ Nobody \notin Threads
  /\ Ops \subseteq AllOps
  /\ MaxRequests \in Nat
  /\ MaxCrashes \in Nat

VARIABLES
  db,        \* the tables as the connection sees them
  disk,      \* the tables as of the last commit
  lock,      \* who holds the connection's lock between two statements
  pc,        \* the next statement of each thread
  req,       \* the locals of each thread's handler
  exported,  \* history: the entries of the last audit export
  requests, crashes

vars == <<db, disk, lock, pc, req, exported, requests, crashes>>
bounds == <<requests, crashes>>

\* One version of one provider stands for all: is its contract there, and a
\* passed verification of it?
Empty == [freezes |-> <<>>, approvals |-> <<>>, published |-> FALSE,
          verified |-> FALSE, audit |-> <<>>]

\* `ok` is the handler's outcome, `stopped` (history) whether the org has been
\* frozen ever since the request came in.
Blank == [op |-> "none", id |-> 0, decision |-> "none", ok |-> FALSE,
          tail |-> NoHash, stopped |-> FALSE]

Init == /\ db = Empty /\ disk = Empty
        /\ lock = Nobody
        /\ pc = [t \in Threads |-> "idle"]
        /\ req = [t \in Threads |-> Blank]
        /\ exported = <<>>
        /\ requests = 0 /\ crashes = 0

-------------------------------------------------------------------------------
Open(freezes) == {i \in DOMAIN freezes : freezes[i] = "open"}

\* Mutant: the oldest row is looked at, lifted or not.
Frozen_Oldest == db.freezes # <<>> /\ db.freezes[1] = "open"

\* freeze_state(...).active
Frozen == Open(db.freezes) # {}

Goto(t, step) == pc' = [pc EXCEPT ![t] = step]

\* Thread t executes the statement it is at: nobody else holds the lock.
At(t, step) == pc[t] = step /\ lock \in {Nobody, t}

Answer(t, ok) == /\ req' = [req EXCEPT ![t].ok = ok]
                 /\ Goto(t, "reply")

\* What an audit entry records: the action, and the approval it is about.
What(q) == CASE q.op = "freeze" -> <<"org.frozen", 0>>
             [] q.op = "lift" -> <<"org.freeze_lifted", 0>>
             [] q.op = "publish" -> <<"contract.published", 0>>
             [] q.op = "decide" -> <<q.decision, q.id>>

Start(t, op, id, decision, step) ==
  /\ pc[t] = "idle" /\ op \in Ops /\ requests < MaxRequests
  /\ requests' = requests + 1
  /\ LET stopped == \A T \in {db, disk} : Open(T.freezes) # {}
     IN req' = [req EXCEPT ![t] = [Blank EXCEPT !.op = op, !.id = id, !.decision = decision,
                                                !.stopped = stopped]]
  /\ Goto(t, step)
  /\ UNCHANGED <<db, disk, lock, exported, crashes>>

StartFreeze(t) == Start(t, "freeze", 0, "none", "freeze_read")
StartLift(t) == Start(t, "lift", 0, "none", "lift_read")
StartRequest(t) == Start(t, "request", 0, "none", "request")

StartDecide(t, id, d) == Start(t, "decide", id, d, "decide_gate")
StartPublish(t) == Start(t, "publish", 0, "none", "publish")
StartVerify(t) == Start(t, "verify", 0, "none", "verify")
StartDeploy(t) == Start(t, "deploy", 0, "none", "deploy_gate")
StartExport(t) == Start(t, "export", 0, "none", "export")

-------------------------------------------------------------------------------
(* Store.freeze: read, insert and commit under the lock, then the audit entry. *)

\* Mutant: the state is read before the lock is taken.
FreezeRead_NoLock(t) ==
  /\ At(t, "freeze_read")
  /\ \/ Frozen /\ Answer(t, TRUE)
     \/ ~Frozen /\ Goto(t, "freeze_insert") /\ UNCHANGED req
  /\ UNCHANGED <<db, disk, lock, exported, bounds>>

FreezeRead(t) ==
  /\ At(t, "freeze_read")
  /\ \/ Frozen /\ Answer(t, TRUE) /\ UNCHANGED lock
     \/ ~Frozen /\ lock' = t /\ Goto(t, "freeze_insert") /\ UNCHANGED req
  /\ UNCHANGED <<db, disk, exported, bounds>>

FreezeInsert(t) ==
  /\ At(t, "freeze_insert")
  /\ db' = [db EXCEPT !.freezes = Append(@, "open")]
  /\ Goto(t, "freeze_commit")
  /\ UNCHANGED <<disk, lock, req, exported, bounds>>

FreezeCommit(t) ==
  /\ At(t, "freeze_commit")
  /\ disk' = db /\ lock' = Nobody
  /\ Goto(t, "audit_read")
  /\ UNCHANGED <<db, req, exported, bounds>>

\* The state is read once more for the answer.
FreezeState(t) ==
  /\ At(t, "freeze_state")
  /\ Answer(t, Frozen)
  /\ UNCHANGED <<db, disk, lock, exported, bounds>>

(* Store.lift_freeze: likewise. *)

LiftRead(t) ==
  /\ At(t, "lift_read")
  /\ \/ ~Frozen /\ Answer(t, FALSE) /\ UNCHANGED lock
     \/ /\ Frozen
        /\ req' = [req EXCEPT ![t].id = CHOOSE i \in Open(db.freezes) :
                                          \A j \in Open(db.freezes) : j <= i]
        /\ lock' = t /\ Goto(t, "lift_write")
  /\ UNCHANGED <<db, disk, exported, bounds>>

LiftWrite(t) ==
  /\ At(t, "lift_write")
  /\ db' = [db EXCEPT !.freezes[req[t].id] = "lifted"]
  /\ req' = [u \in Threads |-> [req[u] EXCEPT !.stopped = FALSE]]
  /\ Goto(t, "lift_commit")
  /\ UNCHANGED <<disk, lock, exported, bounds>>

LiftCommit(t) ==
  /\ At(t, "lift_commit")
  /\ disk' = db /\ lock' = Nobody
  /\ Goto(t, "audit_read")
  /\ UNCHANGED <<db, req, exported, bounds>>

-------------------------------------------------------------------------------
(* Store.audit_append: the tail is read, and the entry that links to it      *)
(* inserted and committed, under the lock.                                   *)

\* Mutant: statements are serialized, the gap between them is not.
AuditRead_NoLock(t) ==
  /\ At(t, "audit_read")
  /\ req' = [req EXCEPT ![t].tail = TailHash(db.audit)]
  /\ Goto(t, "audit_insert")
  /\ UNCHANGED <<db, disk, lock, exported, bounds>>

AuditRead(t) ==
  /\ At(t, "audit_read")
  /\ lock' = t
  /\ req' = [req EXCEPT ![t].tail = TailHash(db.audit)]
  /\ Goto(t, "audit_insert")
  /\ UNCHANGED <<db, disk, exported, bounds>>

\* Mutant: the lock is released before the entry is committed.
AuditInsert_Early(t) ==
  /\ At(t, "audit_insert")
  /\ db' = [db EXCEPT !.audit = Append(@, NewEntry(req[t].tail, What(req[t])))]
  /\ lock' = Nobody
  /\ Goto(t, "audit_commit")
  /\ UNCHANGED <<disk, req, exported, bounds>>

AuditInsert(t) ==
  /\ At(t, "audit_insert")
  /\ db' = [db EXCEPT !.audit = Append(@, NewEntry(req[t].tail, What(req[t])))]
  /\ Goto(t, "audit_commit")
  /\ UNCHANGED <<disk, lock, req, exported, bounds>>

AuditCommit(t) ==
  /\ At(t, "audit_commit")
  /\ disk' = db /\ lock' = Nobody
  /\ Goto(t, IF req[t].op = "freeze" THEN "freeze_state" ELSE "reply")
  /\ UNCHANGED <<db, req, exported, bounds>>

-------------------------------------------------------------------------------
(* The other writers: a statement, a commit, and for some an audit entry. *)

\* Store.request_approval
InsertApproval(t) ==
  /\ At(t, "request")
  /\ db' = [db EXCEPT !.approvals = Append(@, "pending")]
  /\ req' = [req EXCEPT ![t].ok = TRUE]
  /\ Goto(t, "commit")
  /\ UNCHANGED <<disk, lock, exported, bounds>>

\* The decision route looks at the freeze first: granting is refused.
DecideGate(t) ==
  /\ At(t, "decide_gate")
  /\ Goto(t, IF Frozen /\ req[t].decision = "approved" THEN "reply" ELSE "decide")
  /\ UNCHANGED <<db, disk, lock, req, exported, bounds>>

\* Mutant: the row is overwritten whatever its status.
Decide_Always(t) ==
  /\ At(t, "decide")
  /\ db' = [db EXCEPT !.approvals[req[t].id] = req[t].decision]
  /\ req' = [req EXCEPT ![t].ok = TRUE]
  /\ Goto(t, "commit")
  /\ UNCHANGED <<disk, lock, exported, bounds>>

\* Store.decide_approval: UPDATE ... WHERE status = 'pending'.
Decide(t) ==
  /\ At(t, "decide")
  /\ LET i == req[t].id
         d == req[t].decision
     IN \/ /\ db.approvals[i] = "pending"
           /\ db' = [db EXCEPT !.approvals[i] = d]
           /\ req' = [req EXCEPT ![t].ok = TRUE]
        \/ db.approvals[i] # "pending" /\ UNCHANGED <<db, req>>
  /\ Goto(t, "commit")
  /\ UNCHANGED <<disk, lock, exported, bounds>>

\* Store.publish_contract: a version that is there already fails the INSERT, and
\* the request, before anything is committed or recorded.
Publish(t) ==
  /\ At(t, "publish")
  /\ \/ /\ ~db.published
        /\ db' = [db EXCEPT !.published = TRUE]
        /\ req' = [req EXCEPT ![t].ok = TRUE]
        /\ Goto(t, "commit")
     \/ db.published /\ Answer(t, FALSE) /\ UNCHANGED db
  /\ UNCHANGED <<disk, lock, exported, bounds>>

\* Store.record_run, of a passed verification
Verify(t) ==
  /\ At(t, "verify")
  /\ db' = [db EXCEPT !.verified = TRUE]
  /\ req' = [req EXCEPT ![t].ok = TRUE]
  /\ Goto(t, "commit")
  /\ UNCHANGED <<disk, lock, exported, bounds>>

Commit(t) ==
  /\ At(t, "commit")
  /\ disk' = db
  /\ Goto(t, IF req[t].ok /\ req[t].op \in {"decide", "publish"} THEN "audit_read" ELSE "reply")
  /\ UNCHANGED <<db, lock, req, exported, bounds>>

-------------------------------------------------------------------------------
(* compute_can_i_deploy: the freeze, the contract and the runs, in turn. *)

DeployGate(t) ==
  /\ At(t, "deploy_gate")
  /\ \/ Frozen /\ Answer(t, FALSE)
     \/ ~Frozen /\ Goto(t, "deploy_contract") /\ UNCHANGED req
  /\ UNCHANGED <<db, disk, lock, exported, bounds>>

DeployContract(t) ==
  /\ At(t, "deploy_contract")
  /\ \/ ~db.published /\ Answer(t, FALSE)
     \/ db.published /\ Goto(t, "deploy_runs") /\ UNCHANGED req
  /\ UNCHANGED <<db, disk, lock, exported, bounds>>

DeployRuns(t) ==
  /\ At(t, "deploy_runs")
  /\ Answer(t, db.verified)
  /\ UNCHANGED <<db, disk, lock, exported, bounds>>

\* GET /v1/audit/export, one unlimited SELECT (audit_all).
Export(t) ==
  /\ At(t, "export")
  /\ exported' = db.audit
  /\ Answer(t, TRUE)
  /\ UNCHANGED <<db, disk, lock, bounds>>

Reply(t) ==
  /\ pc[t] = "reply"
  /\ req' = [req EXCEPT ![t] = Blank]
  /\ Goto(t, "idle")
  /\ UNCHANGED <<db, disk, lock, exported, bounds>>

\* The process dies: requests, the lock and uncommitted statements are gone.
Crash ==
  /\ crashes < MaxCrashes
  /\ crashes' = crashes + 1
  /\ db' = disk /\ lock' = Nobody
  /\ pc' = [t \in Threads |-> "idle"]
  /\ req' = [t \in Threads |-> Blank]
  /\ UNCHANGED <<disk, exported, requests>>

-------------------------------------------------------------------------------
Begin(t) ==
  \/ StartFreeze(t) \/ StartLift(t) \/ StartRequest(t)
  \/ \E id \in DOMAIN db.approvals, d \in Decisions : StartDecide(t, id, d)
  \/ StartPublish(t) \/ StartVerify(t) \/ StartDeploy(t) \/ StartExport(t)

Step(t) ==
  \/ FreezeRead(t) \/ FreezeInsert(t) \/ FreezeCommit(t) \/ FreezeState(t)
  \/ LiftRead(t) \/ LiftWrite(t) \/ LiftCommit(t)
  \/ AuditRead(t) \/ AuditInsert(t) \/ AuditCommit(t)
  \/ InsertApproval(t) \/ DecideGate(t) \/ Decide(t)
  \/ Publish(t) \/ Verify(t) \/ Commit(t)
  \/ DeployGate(t) \/ DeployContract(t) \/ DeployRuns(t)
  \/ Export(t) \/ Reply(t)

\* All the requests of the bound have been answered.
Done == /\ requests = MaxRequests
        /\ \A t \in Threads : pc[t] = "idle"
        /\ UNCHANGED vars

Next == Crash \/ Done \/ \E t \in Threads : Begin(t) \/ Step(t)

Spec == Init /\ [][Next]_vars

\* What TLC may take for one another.
Symmetry == Permutations(Threads)

-------------------------------------------------------------------------------
(* Properties. *)

Actions == {"org.frozen", "org.freeze_lifted", "contract.published"} \cup Decisions
Entries == [what : Actions \X Nat, prev : Seq(Actions \X Nat), hash : Seq(Actions \X Nat)]
Tables == [freezes : Seq({"open", "lifted"}), approvals : Seq({"pending"} \cup Decisions),
           published : BOOLEAN, verified : BOOLEAN, audit : Seq(Entries)]
Requests == [op : AllOps \cup {"none"}, id : Nat, decision : Decisions \cup {"none"},
             ok : BOOLEAN, tail : Seq(Actions \X Nat), stopped : BOOLEAN]

\* Tables, locals and history have the shapes the code gives them.
TypeOK ==
  /\ db \in Tables /\ disk \in Tables
  /\ lock \in Threads \cup {Nobody}
  /\ pc \in [Threads -> Steps]
  /\ req \in [Threads -> Requests]
  /\ exported \in Seq(Entries)
  /\ requests \in Nat /\ crashes \in Nat

\* However many terminals pull the switch at once, the org has at most one open
\* freeze, so one lift releases it (Store.freeze, Store.lift_freeze).
OneOpenFreeze == \A i, j \in Open(db.freezes) : i = j

\* The log never reports tampering on its own writes: the chain verifies at
\* every moment, with appends of several threads interleaved and after a crash.
ChainIsValid == VerifyChain(db.audit).valid /\ VerifyChain(disk.audit).valid

\* An export taken once is contained, unchanged and in place, in the log at any
\* later time, after a crash as well: sealed or not, an export of an honest
\* server's log passes the check against any earlier one.
ExportsContinue ==
  \A key \in {NoKey, "key"} :
    LET export == ExportCommand(db.audit, key)
    IN /\ export.exit = "ok"
       /\ VerifyCommand(export.document, key, BuildExport(exported, key)) = "ok"

\* An approval is decided once: the log has at most one decision of it, and that
\* is the one the table shows, in memory and on disk.
DecisionsMatchAudit ==
  \A T \in {db, disk} :
    LET decided == {i \in DOMAIN T.audit : T.audit[i].what[1] \in Decisions}
    IN /\ \A i \in decided : LET w == T.audit[i].what IN T.approvals[w[2]] = w[1]
       /\ \A i, j \in decided : T.audit[i].what[2] = T.audit[j].what[2] => i = j

InFlight(ops) == \E t \in Threads : req[t].op \in ops

\* A request that came in while the org was frozen, and was answered before
\* anyone lifted the freeze, neither finds a version deployable nor grants an
\* approval -- whatever it read of contracts and runs in between.
StoppedMeansStopped ==
  \A t \in Threads :
    pc[t] = "reply" /\ req[t].stopped /\ req[t].ok =>
      /\ req[t].op # "deploy"
      /\ ~(req[t].op = "decide" /\ req[t].decision = "approved")
===============================================================================
