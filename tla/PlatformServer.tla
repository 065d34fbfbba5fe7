---------------------------- MODULE PlatformServer ----------------------------
(***************************************************************************)
(* The writing routes of the platform server (server/api.py) over its      *)
(* store (server/store.py), and `apiverity server-db export` and `import`  *)
(* beside it.                                                              *)
(*                                                                         *)
(* Every request thread of the server uses one connection, one statement   *)
(* at a time: what one thread has not committed the others see, and any    *)
(* commit makes it durable.  The command line is a second connection;      *)
(* SQLite lets one connection at a time hold uncommitted rows.             *)
(***************************************************************************)
EXTENDS OidcProvider, Sequences, FiniteSets

CONSTANTS Requests,     \* what clients may ask, see PlatformAssumption
          FirstOrg,     \* the organization that is there from the start
          MaxRequests,  \* bound: requests that clients send
          MaxCrashes    \* bound: crashes of a process

\* The connections: the server's, and that of the command line.
Server == "server"
Cli == "cli"
Processes == Threads \cup {Cli}
Connection(p) == IF p = Cli THEN Cli ELSE Server

\* A row: its table, what UNIQUE makes of it, and the rest that matters.
Row(table, org, key, value) == [table |-> table, org |-> org, key |-> key, value |-> value]
Id(r) == [table |-> r.table, org |-> r.org, key |-> r.key]

\* A row no schema takes: a missing rule, an unknown role, not an object.
Bad == Row("bad", "", "", "")

-------------------------------------------------------------------------------
(* What each handler does: a sequence of statements. *)

\* INSERT fails on a row that is there; the upserts replace it.
Insert(r) == [do |-> "insert", row |-> r]
Upsert(r) == [do |-> "upsert", row |-> r]
Commit == [do |-> "commit", row |-> Bad]
\* audit_append: reads the tail, inserts and commits under the lock.
Append_(org, action, target) == [do |-> "append", row |-> Row("audit", org, action, target)]
Notify(event, target) == [do |-> "notify", row |-> Row("event", FirstOrg, event, target)]

Inserts(rows) == [i \in 1..Len(rows) |-> Insert(rows[i])]

Contract(q) == Row("contracts", FirstOrg, q.key, q.value)
Findings(q) == [i \in 1..Len(q.findings) |->
                 IF q.findings[i] = Bad.value THEN Bad
                 ELSE Row("findings", FirstOrg, q.key, q.findings[i])]
Tables == [environment |-> "environments", policy |-> "policies", worker |-> "workers",
           user |-> "users", webhook |-> "webhooks"]
Subject(q) == IF q.op = "user" /\ q.value = Bad.value THEN Bad
              ELSE Row(Tables[q.op], FirstOrg, q.key, q.value)

\* Mutant: the audit entry is written before the findings.
PublishContract_AuditFirst(q) ==
  <<Insert(Contract(q)), Commit, Append_(FirstOrg, "contract.published", q.key)>>
  \o Inserts(Findings(q)) \o <<Commit, Notify("contract.published", q.key)>>

PublishContract(q) ==
  <<Insert(Contract(q)), Commit>> \o Inserts(Findings(q)) \o <<Commit>>
  \o <<Append_(FirstOrg, "contract.published", q.key), Notify("contract.published", q.key)>>

\* Mutant: the findings are left for the next commit.
AddFindings_Uncommitted(q) == Inserts(Findings(q))

AddFindings(q) == Inserts(Findings(q)) \o <<Commit>>

Register(q, statement, action) ==
  <<statement, Commit, Append_(FirstOrg, action, q.key)>>

CreateOrg(q) ==
  <<Insert(Row("orgs", q.key, "", "")), Commit,
    Insert(Row("users", q.key, "bootstrap", "owner")), Commit,
    Append_(q.key, "org.created", q.key)>>

Handler(q) ==
  CASE q.op = "publish" -> PublishContract(q)
    [] q.op = "findings" -> AddFindings(q)
    [] q.op = "org" -> CreateOrg(q)
    [] q.op = "user" -> Register(q, Insert(Subject(q)), "user.added")
    [] q.op = "environment" -> Register(q, Upsert(Subject(q)), "environment.registered")
    [] q.op = "policy" -> Register(q, Upsert(Subject(q)), "policy.updated")
    [] q.op = "worker" -> Register(q, Upsert(Subject(q)), "worker.enrolled")
    [] q.op = "webhook" -> <<Insert(Subject(q)), Commit>>

\* The tables an export reads and an import brings back, in their order.
Carried == <<"users", "contracts", "environments", "policies">>

\* Rows of one table, in some order.
Listed(rows) == CHOOSE s \in [1..Cardinality(rows) -> rows] : \A r \in rows : \E i \in DOMAIN s : s[i] = r

Each(table, rows, org) ==
  LET s == Listed({r \in rows : r.table = table})
  IN [i \in 1..2 * Len(s) |-> IF i % 2 = 0 THEN Commit
                              ELSE Insert([s[(i + 1) \div 2] EXCEPT !.org = org])]

\* Every row is committed on its own, under the name of the new organization.
ImportOrg(rows, org) ==
  <<Insert(Row("orgs", org, "", "")), Commit>>
  \o Each("users", rows, org) \o Each("contracts", rows, org)
  \o Each("environments", rows, org) \o Each("policies", rows, org)
  \o <<Append_(org, "org.imported", org)>>

Ops == {"publish", "findings", "org", "user", "environment", "policy", "worker", "webhook"}
ASSUME PlatformAssumption ==
  /\ Requests \subseteq [op : Ops, key : STRING, value : STRING, findings : Seq(STRING)]
  /\ FirstOrg \in STRING /\ Cli \notin Threads /\ None \notin {Server, Cli}
  /\ MaxRequests \in Nat /\ MaxCrashes \in Nat

VARIABLES
  issuer,    \* callers sign in with the issuer, and read; else local tokens, and write
  db,        \* the committed rows
  work,      \* the rows as the connection that holds uncommitted ones sees them
  writer,    \* that connection
  job,       \* the request or command of each process and its statements to come
  file,      \* the export file
  sent, crashes,
  answered,  \* history: requests answered with success
  told       \* history: the events webhooks received

storeVars == <<db, work, writer, job, file, sent, crashes, answered, told>>
vars == <<oidcVars, issuer, storeVars>>

NoJob == [request |-> None, todo |-> <<>>]
Start0 == {Row("orgs", FirstOrg, "", ""), Row("users", FirstOrg, "bootstrap", "owner")}

Init == /\ OidcInit
        /\ issuer \in BOOLEAN
        /\ db = Start0 /\ work = db /\ writer = None
        /\ job = [p \in Processes |-> NoJob]
        /\ file = None
        /\ sent = 0 /\ crashes = 0 /\ answered = {} /\ told = {}

-------------------------------------------------------------------------------
\* What a process reads: its own uncommitted rows, or the committed ones.
Visible(p) == IF writer = Connection(p) THEN work ELSE db

Busy(p) == job[p] # NoJob
Next_(p) == Head(job[p].todo)
At(p, what) == Busy(p) /\ job[p].todo # <<>> /\ Next_(p).do = what
Done(p) == job' = [job EXCEPT ![p].todo = Tail(@)]
Ends(p) == job' = [job EXCEPT ![p] = NoJob]

\* A client's request reaches a free thread, with a token of the users table.
Receive(t, q) ==
  /\ ~Busy(t) /\ sent < MaxRequests
  /\ q.op = "findings" => \E r \in Visible(t) : r.table = "contracts" /\ r.key = q.key
  /\ sent' = sent + 1
  /\ job' = [job EXCEPT ![t] = [request |-> q, todo |-> Handler(q)]]
  /\ UNCHANGED <<db, work, writer, file, crashes, answered, told>>

\* Only one connection at a time holds uncommitted rows.
MayWrite(p) == writer \in {None, Connection(p)}

Unique == {"orgs", "users", "contracts"}
Violates(p, r) ==
  \/ r = Bad
  \/ r.table \in Unique /\ \E other \in Visible(p) : Id(other) = Id(r)

Write(p, rows) == /\ MayWrite(p) /\ writer' = Connection(p) /\ work' = rows

Execute(p) ==
  LET r == Next_(p).row
  IN /\ \/ At(p, "insert") /\ ~Violates(p, r) /\ Write(p, Visible(p) \cup {r})
        \/ /\ At(p, "upsert")
           /\ Write(p, {other \in Visible(p) : Id(other) # Id(r)} \cup {r})
     /\ Done(p)
     /\ UNCHANGED <<db, file, sent, crashes, answered, told>>

\* A commit makes whatever the connection has written durable.
CommitRows(p) ==
  /\ At(p, "commit") /\ Done(p)
  /\ db' = Visible(p)
  /\ IF writer = Connection(p) THEN writer' = None /\ UNCHANGED work
                               ELSE UNCHANGED <<work, writer>>
  /\ UNCHANGED <<file, sent, crashes, answered, told>>

Audit(p) ==
  /\ At(p, "append") /\ MayWrite(p) /\ Done(p)
  /\ db' = Visible(p) \cup {Next_(p).row} /\ work' = db' /\ writer' = None
  /\ UNCHANGED <<file, sent, crashes, answered, told>>

\* The hooks are read, and each is called once: what it does not answer is lost.
Deliver(p) ==
  LET event == Next_(p).row
      hooks == {r \in Visible(p) : r.table = "webhooks" /\ r.value = event.key}
  IN /\ At(p, "notify") /\ Done(p)
     /\ \E reached \in SUBSET hooks :
          told' = told \cup {[hook |-> h.key, event |-> event.key, target |-> event.value] : h \in reached}
     /\ UNCHANGED <<db, work, writer, file, sent, crashes, answered>>

Reply(t) ==
  /\ t \in Threads /\ Busy(t) /\ job[t].todo = <<>> /\ Ends(t)
  /\ answered' = answered \cup {job[t].request}
  /\ UNCHANGED <<db, work, writer, file, sent, crashes, told>>

\* What a process that is gone has not committed is gone.
Lose(p) == IF writer = Connection(p) THEN work' = db /\ writer' = None
                                     ELSE UNCHANGED <<work, writer>>

\* A statement fails: a row the schema refuses (the transaction stays open), or
\* another connection that does not commit before the busy timeout.  A request
\* is answered with an error and nothing is rolled back; a command ends.
Fail(p) ==
  /\ Busy(p) /\ job[p].todo # <<>> /\ Next_(p).do \in {"insert", "upsert", "append"}
  /\ Ends(p)
  /\ \/ ~MayWrite(p) /\ UNCHANGED <<work, writer>>
     \/ /\ MayWrite(p) /\ Next_(p).do = "insert" /\ Violates(p, Next_(p).row)
        /\ IF p = Cli THEN Lose(p) ELSE Write(p, Visible(p))
  /\ UNCHANGED <<db, file, sent, crashes, answered, told>>

-------------------------------------------------------------------------------
(* The command line. *)

\* server-db export reads table after table and writes the file at the end.
ExportOrg ==
  /\ ~Busy(Cli) /\ file = None
  /\ job' = [job EXCEPT ![Cli] = [request |-> {}, todo |->
               [i \in DOMAIN Carried |-> [do |-> "read", row |-> Row(Carried[i], FirstOrg, "", "")]]]]
  /\ UNCHANGED <<db, work, writer, file, sent, crashes, answered, told>>

ReadTable ==
  /\ At(Cli, "read")
  /\ LET r == Next_(Cli).row
         rows == job[Cli].request \cup {s \in db : s.table = r.table /\ s.org = r.org}
     IN IF Len(job[Cli].todo) = 1 THEN Ends(Cli) /\ file' = rows
        ELSE /\ job' = [job EXCEPT ![Cli] = [request |-> rows, todo |-> Tail(@.todo)]]
             /\ UNCHANGED file
  /\ UNCHANGED <<db, work, writer, sent, crashes, answered, told>>

\* server-db import makes a new organization of the file.
Restored == "restored"
Import ==
  /\ ~Busy(Cli) /\ file # None /\ \A r \in db : r.org # Restored
  /\ job' = [job EXCEPT ![Cli] = [request |-> {}, todo |-> ImportOrg(file, Restored)]]
  /\ UNCHANGED <<db, work, writer, file, sent, crashes, answered, told>>

Imported ==
  /\ Busy(Cli) /\ job[Cli].todo = <<>> /\ Ends(Cli)
  /\ UNCHANGED <<db, work, writer, file, sent, crashes, answered, told>>

-------------------------------------------------------------------------------
\* The server dies with every request in it and starts again; a command dies.
Crash(connection) ==
  /\ crashes < MaxCrashes /\ crashes' = crashes + 1
  /\ \E p \in Processes : Connection(p) = connection /\ Busy(p)
  /\ job' = [p \in Processes |-> IF Connection(p) = connection THEN NoJob ELSE job[p]]
  /\ IF writer = connection THEN work' = db /\ writer' = None ELSE UNCHANGED <<work, writer>>
  /\ UNCHANGED <<db, file, sent, answered, told>>

Statement(p) ==
  Execute(p) \/ CommitRows(p) \/ Audit(p) \/ Deliver(p) \/ Reply(p) \/ Fail(p)

Writing == \/ \E t \in Threads, q \in Requests : Receive(t, q)
           \/ \E p \in Processes : Statement(p)
           \/ ExportOrg \/ ReadTable \/ Import \/ Imported
           \/ \E connection \in {Server, Cli} : Crash(connection)

Next == \/ ~issuer /\ Writing /\ UNCHANGED <<issuer, oidcVars>>
        \/ issuer /\ OidcNext /\ UNCHANGED <<issuer, storeVars>>

Spec == Init /\ [][Next]_vars

-------------------------------------------------------------------------------
\* The rows a request has to leave behind.
Rows(q) == {s.row : s \in {Handler(q)[i] : i \in {j \in DOMAIN Handler(q) : Handler(q)[j].do # "notify"}}}
           \ {Bad}

\* A row is there, or what an upsert made of it.
Kept(r, rows) == IF r.org = FirstOrg /\ r.table \in {"environments", "policies", "workers"}
                 THEN \E s \in rows : Id(s) = Id(r) ELSE r \in rows

\* Nobody is told of half a request.  A request answered with success is durable
\* in every part -- the row, each of its findings and its audit entry -- although
\* the parts are committed one by one, by statements of several threads that
\* share a transaction, and the server may die between any two (what an upsert
\* replaced since, aside).  Once the audit entry of a name is durable, or one
\* webhook has been told of it, a contract was published under it that is durable
\* with every finding that came with it, crash or not; and an import the log
\* records has every row of the export and no other, whatever the server
\* committed in between.
HalfIsNotTold ==
  /\ \A q \in answered : \A r \in Rows(q) : Kept(r, db)
  /\ \A key \in {q.key : q \in Requests} :
       \/ Row("audit", FirstOrg, "contract.published", key) \in db
       \/ \E d \in told : d.target = key
       => \E q \in Requests : q.op = "publish" /\ q.key = key /\ Rows(q) \subseteq db
  /\ Row("audit", Restored, "org.imported", Restored) \in db
     => {[r EXCEPT !.org = FirstOrg] :
           r \in {s \in db : s.org = Restored /\ s.table \notin {"orgs", "audit"}}} = file
===============================================================================
