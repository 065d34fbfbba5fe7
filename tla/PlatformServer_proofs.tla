------------------------- MODULE PlatformServer_proofs -------------------------
(* Nobody is told of half a request, for any requests, any number of threads   *)
(* and of crashes.  Each process owes rows: what its statements to come will   *)
(* write, and what they have written and not committed.  A row is only ever    *)
(* replaced by an upsert, so what is not owed any more is there to stay.  An   *)
(* import owns the organization it makes: whoever inserts the row of an        *)
(* organization first keeps the others out of it.                              *)
EXTENDS PlatformServer, FiniteSetTheorems, SequenceTheorems, TLAPS

\* Strings; those of the module by name, for the provers do not know them as such.
Words == STRING \cup
  {"", "bad", "orgs", "users", "contracts", "findings", "environments", "policies", "workers",
   "webhooks", "audit", "event", "bootstrap", "owner", "restored", "contract.published",
   "org.created", "org.imported", "user.added", "environment.registered", "policy.updated",
   "worker.enrolled"}
RowSet == [table : Words, org : Words, key : Words, value : Words]
Kinds == {"insert", "upsert", "commit", "append", "notify", "read"}
Statements == [do : Kinds, row : RowSet]

AuditRow(key) == Row("audit", FirstOrg, "contract.published", key)
ImportRow == Row("audit", Restored, "org.imported", Restored)
HomeRow == Row("orgs", FirstOrg, "", "")
DoorRow == Row("orgs", Restored, "", "")

\* A row of the new organization, other than its name and its log.
Inner(r) == r.org = Restored /\ r.table \notin {"orgs", "audit"}
Copy(f) == [f EXCEPT !.org = Restored]
Original(r) == [r EXCEPT !.org = FirstOrg]

Writes == {"insert", "upsert", "append"}
Committing == {"commit", "append"}

\* The statements to come commit the row, which is there or is written first.
Owed(r, todo, seen, closing) ==
  \E c \in DOMAIN todo :
    /\ todo[c].do \in closing
    /\ Kept(r, seen) \/ \E j \in 1..c : todo[j].do \in Writes /\ todo[j].row = r

Safe(r, todo, durable, seen, closing) == Kept(r, durable) \/ Owed(r, todo, seen, closing)

-------------------------------------------------------------------------------
(* The store. *)

\* Whatever one set of rows keeps, the other does.
Grows(rows, later) == \A r \in RowSet : Kept(r, rows) => Kept(r, later)

Jobs == [request : Requests \cup {None} \cup SUBSET RowSet, todo : Seq(Statements)]

StoreOK == /\ db \subseteq RowSet /\ work \subseteq RowSet
           /\ IsFiniteSet(db) /\ IsFiniteSet(work)
           /\ writer \in {None, Server, Cli}
           /\ HomeRow \in db
           /\ Grows(db, work)
           /\ job \in [Processes -> Jobs]

FileOK == file # None => /\ file \subseteq RowSet /\ IsFiniteSet(file)
                         /\ \A f \in file : f.org = FirstOrg /\ \E i \in DOMAIN Carried : f.table = Carried[i]

(* What the statements of a request are, whatever is left of them. *)

PublishPlan(key, todo) ==
  /\ \A a, c \in DOMAIN todo : todo[a].do = "append" /\ todo[c].do = "commit" => c < a
  /\ \A a, c \in DOMAIN todo : todo[a].do = "notify" /\ todo[c].do \in Committing => c < a
  /\ \A a \in DOMAIN todo : todo[a].do = "append" => todo[a].row = AuditRow(key)
  /\ \A a \in DOMAIN todo : todo[a].do = "notify" => todo[a].row.value = key

ThreadPlan(q, todo) ==
  /\ todo \in Seq(Statements)
  /\ \A i \in DOMAIN todo :
       LET s == todo[i] IN
         /\ s.do # "read"
         /\ s.do = "upsert" => s.row.org = FirstOrg
                               /\ s.row.table \in {"environments", "policies", "workers"}
         /\ s.do = "append" => s.row.table = "audit" /\ s.row.key # "org.imported"
         /\ s.do \in {"insert", "upsert"} => s.row.table # "audit"
         /\ (s.do = "notify" \/ (s.do = "append" /\ s.row.key = "contract.published"))
            => q.op = "publish"
         /\ s.row = DoorRow => s.do = "insert"
  /\ q.op = "publish" => PublishPlan(q.key, todo)

ThreadOK(t) ==
  LET q == job[t].request  todo == job[t].todo IN
    /\ q \in Requests /\ ThreadPlan(q, todo)
    /\ \A r \in Rows(q) : Safe(r, todo, db, Visible(t), Committing)
    /\ q.op = "publish" => \A r \in Rows(q) \ {AuditRow(q.key)} : Safe(r, todo, db, Visible(t), {"commit"})

PublishedOK ==
  \A key \in {q.key : q \in Requests} :
    (AuditRow(key) \in db \cup work \/ \E d \in told : d.target = key)
    => \E q \in Requests : q.op = "publish" /\ q.key = key /\ \A r \in Rows(q) : Kept(r, db)

AnsweredOK == /\ answered \subseteq Requests
              /\ \A q \in answered : \A r \in Rows(q) : Kept(r, db)

(* Export and import. *)

Reading(todo) == todo # <<>> /\ todo[1].do = "read"
ExportOK(rows, todo) ==
  /\ file = None /\ todo \in Seq(Statements)
  /\ \A i \in DOMAIN todo : /\ todo[i].do = "read"
                            /\ todo[i].row.org = FirstOrg
                            /\ \E j \in DOMAIN Carried : todo[i].row.table = Carried[j]
  /\ rows \subseteq RowSet /\ IsFiniteSet(rows)
  /\ \A f \in rows : f.org = FirstOrg /\ \E j \in DOMAIN Carried : f.table = Carried[j]

ImportPlan(todo) ==
  /\ todo \in Seq(Statements)
  /\ \A i \in DOMAIN todo :
       LET s == todo[i] IN
         /\ s.do \in {"insert", "commit", "append"}
         /\ s.do = "insert" => \/ (i = 1 /\ s.row = DoorRow)
                               \/ (Inner(s.row) /\ Original(s.row) \in file)
         /\ s.do = "commit" => s.row = Bad
         /\ s.do = "append" => i = Len(todo) /\ s.row = ImportRow
  /\ todo # <<>> => todo[Len(todo)].do = "append"

ImportOK(todo) ==
  /\ file # None /\ FirstOrg # Restored /\ ImportPlan(todo)
  /\ \A f \in file : Safe(Copy(f), todo, db, Visible(Cli), {"commit"})

CliOK == Busy(Cli) => IF Reading(job[Cli].todo) THEN ExportOK(job[Cli].request, job[Cli].todo)
                      ELSE ImportOK(job[Cli].todo)

\* A request is about to write in the new organization, whose name it inserted.
Inside(t) ==
  /\ Busy(t)
  /\ \E i \in DOMAIN job[t].todo :
       /\ job[t].todo[i].do = "insert" /\ Inner(job[t].todo[i].row)
       /\ \A j \in 1..(i - 1) : job[t].todo[j].row # DoorRow

\* The import has inserted the name of the organization.
Importing == /\ Busy(Cli) /\ ~Reading(job[Cli].todo) /\ job[Cli].todo # <<>>
             /\ job[Cli].todo[1].row # DoorRow
Owned == Importing \/ ImportRow \in db \cup work

DoorOK ==
  FirstOrg # Restored =>
    /\ \A t \in Threads : Inside(t) => DoorRow \in Visible(t)
    /\ (\E s \in db : Inner(s)) => DoorRow \in db
    /\ (\E s \in work : Inner(s)) => DoorRow \in work
    /\ Owned => /\ DoorRow \in Visible(Cli)
                /\ \A t \in Threads : ~Inside(t)
                /\ \A s \in db \cup work : Inner(s) => Original(s) \in file

ImportedOK == ImportRow \in db \cup work =>
                /\ FirstOrg # Restored /\ file # None /\ DoorRow \in db
                /\ \A f \in file : Kept(Copy(f), db)

JobsOK == \A t \in Threads : Busy(t) => ThreadOK(t)

IInv == /\ StoreOK /\ FileOK /\ JobsOK /\ PublishedOK /\ AnsweredOK
        /\ CliOK /\ DoorOK /\ ImportedOK

-------------------------------------------------------------------------------
(* Rows and statements. *)

LEMMA RowIsTyped ==
  ASSUME NEW a \in Words, NEW b \in Words, NEW c \in Words, NEW d \in Words
  PROVE  Row(a, b, c, d) \in RowSet
  BY DEF Row, RowSet

LEMMA RowsDiffer ==
  ASSUME NEW a, NEW b, NEW c, NEW d, NEW e, NEW f, NEW g, NEW h,
         Row(a, b, c, d) = Row(e, f, g, h)
  PROVE  a = e /\ b = f /\ c = g /\ d = h
  BY Row(a, b, c, d).table = Row(e, f, g, h).table, Row(a, b, c, d).org = Row(e, f, g, h).org,
     Row(a, b, c, d).key = Row(e, f, g, h).key, Row(a, b, c, d).value = Row(e, f, g, h).value DEF Row

LEMMA HomeIsNamed == FirstOrg \in Words /\ Restored \in Words
  BY PlatformAssumption DEF PlatformAssumption, Restored, Words

LEMMA SpecialRows ==
  /\ HomeRow \in RowSet /\ DoorRow \in RowSet /\ ImportRow \in RowSet /\ Bad \in RowSet
  /\ \A key \in Words : AuditRow(key) \in RowSet
  /\ HomeRow.table = "orgs" /\ DoorRow.table = "orgs" /\ ImportRow.table = "audit"
  /\ HomeRow.org = FirstOrg /\ DoorRow.org = Restored /\ ImportRow.org = Restored
  /\ ImportRow.key = "org.imported" /\ Bad.table = "bad"
  /\ \A key : /\ AuditRow(key).table = "audit" /\ AuditRow(key).key = "contract.published"
              /\ AuditRow(key).value = key
  <1>1. HomeRow \in RowSet /\ DoorRow \in RowSet /\ ImportRow \in RowSet /\ Bad \in RowSet
    BY HomeIsNamed, RowIsTyped DEF Words, HomeRow, DoorRow, ImportRow, Bad, Restored
  <1>2. \A key \in Words : AuditRow(key) \in RowSet
    BY HomeIsNamed, RowIsTyped DEF Words, AuditRow
  <1>3. \A key : /\ AuditRow(key).table = "audit" /\ AuditRow(key).key = "contract.published"
                /\ AuditRow(key).value = key
    BY DEF AuditRow, Row
  <1> QED BY <1>1, <1>2, <1>3 DEF HomeRow, DoorRow, ImportRow, Bad, Row

\* A copy goes back to the row it was made of.
LEMMA CopyAndBack ==
  ASSUME NEW f \in RowSet
  PROVE  /\ Copy(f) \in RowSet /\ Copy(f).org = Restored /\ Copy(f).table = f.table
         /\ Original(f) \in RowSet
         /\ f.org = FirstOrg => Original(Copy(f)) = f
         /\ f.org = Restored => Copy(Original(f)) = f
  BY HomeIsNamed DEF Copy, Original, RowSet, Restored

(* What is kept. *)

LEMMA KeptExactly ==
  ASSUME NEW r, NEW rows,
         r.org # FirstOrg \/ r.table \notin {"environments", "policies", "workers"}
  PROVE  Kept(r, rows) <=> r \in rows
  BY DEF Kept

LEMMA InsertKeeps ==
  ASSUME NEW rows \in SUBSET RowSet, NEW r
  PROVE  Grows(rows, rows \cup {r}) /\ Kept(r, rows \cup {r})
  BY DEF Grows, Kept

LEMMA UpsertKeeps ==
  ASSUME NEW rows \in SUBSET RowSet, NEW r \in RowSet, r.org = FirstOrg,
         r.table \in {"environments", "policies", "workers"}
  PROVE  /\ Grows(rows, {other \in rows : Id(other) # Id(r)} \cup {r})
         /\ Kept(r, {other \in rows : Id(other) # Id(r)} \cup {r})
  <1> DEFINE later == {other \in rows : Id(other) # Id(r)} \cup {r}
  <1>1. Kept(r, later) BY DEF Kept
  <1>2. ASSUME NEW x \in RowSet, Kept(x, rows) PROVE Kept(x, later)
    <2>1. CASE x.org = FirstOrg /\ x.table \in {"environments", "policies", "workers"}
      <3>1. PICK s \in rows : Id(s) = Id(x) BY <1>2, <2>1 DEF Kept
      <3>2. CASE Id(s) = Id(r)
        BY <3>1, <3>2, <2>1, r \in later DEF Kept
      <3>3. CASE Id(s) # Id(r)
        BY <3>1, <3>3, <2>1, s \in later DEF Kept
      <3> QED BY <3>2, <3>3
    <2>2. CASE ~(x.org = FirstOrg /\ x.table \in {"environments", "policies", "workers"})
      <3>1. x \in rows BY <1>2, <2>2 DEF Kept
      <3>2. Id(x).org = x.org /\ Id(x).table = x.table /\ Id(r).org = r.org /\ Id(r).table = r.table
        BY DEF Id
      <3>3. Id(x) # Id(r) BY <3>2, <2>2
      <3> QED BY <3>1, <3>3, <2>2 DEF Kept
    <2> QED BY <2>1, <2>2
  <1> QED BY <1>1, <1>2 DEF Grows

(* What is owed. *)

LEMMA StaysSafe ==
  ASSUME NEW r \in RowSet, NEW todo, NEW durable, NEW seen, NEW later, NEW then, NEW closing,
         Grows(durable, later), Grows(seen, then), Safe(r, todo, durable, seen, closing)
  PROVE  Safe(r, todo, later, then, closing)
  BY DEF Safe, Owed, Grows

\* A statement is executed.
LEMMA ExecutedSafe ==
  ASSUME NEW r \in RowSet, NEW todo \in Seq(Statements), todo # <<>>,
         NEW durable, NEW seen, NEW later, NEW then, NEW closing,
         Grows(durable, later), Grows(seen, then),
         Head(todo).do \in Writes /\ Head(todo).row = r => Kept(r, then),
         Head(todo).do \in closing => \/ Grows(seen, later) /\ Head(todo).do \notin Writes
                                      \/ Grows(seen, later) /\ Kept(Head(todo).row, later),
         Safe(r, todo, durable, seen, closing)
  PROVE  Safe(r, Tail(todo), later, then, closing)
  <1>1. CASE Kept(r, durable) BY <1>1 DEF Safe, Grows
  <1>2. CASE ~Kept(r, durable)
    <2>1. PICK c \in DOMAIN todo :
            /\ todo[c].do \in closing
            /\ Kept(r, seen) \/ \E j \in 1..c : todo[j].do \in Writes /\ todo[j].row = r
      BY <1>2 DEF Safe, Owed
    <2>2. Tail(todo) \in Seq(Statements) /\ Len(todo) \in Nat /\ Len(todo) > 0
          /\ DOMAIN todo = 1..Len(todo) /\ Head(todo) = todo[1]
          /\ DOMAIN Tail(todo) = 1..(Len(todo) - 1)
          /\ \A i \in 1..(Len(todo) - 1) : Tail(todo)[i] = todo[i + 1]
      OBVIOUS
    <2>3. CASE c = 1
      <3>1. Kept(r, seen) \/ (Head(todo).do \in Writes /\ Head(todo).row = r)
        BY <2>1, <2>2, <2>3
      <3> QED BY <3>1, <2>1, <2>2, <2>3 DEF Safe, Grows
    <2>4. CASE c # 1
      <3>1. c - 1 \in DOMAIN Tail(todo) /\ Tail(todo)[c - 1].do \in closing BY <2>1, <2>2, <2>4
      <3>2. CASE Kept(r, then) BY <3>1, <3>2 DEF Safe, Owed
      <3>3. CASE ~Kept(r, then)
        <4>1. PICK j \in 1..c : todo[j].do \in Writes /\ todo[j].row = r BY <2>1, <3>3 DEF Grows
        <4>2. j # 1 BY <4>1, <2>2, <3>3
        <4>3. j - 1 \in 1..(c - 1) /\ Tail(todo)[j - 1] = todo[j] BY <4>1, <4>2, <2>1, <2>2
        <4> QED BY <4>1, <4>3, <3>1 DEF Safe, Owed
      <3> QED BY <3>2, <3>3
    <2> QED BY <2>3, <2>4
  <1> QED BY <1>1, <1>2

\* Nothing is left that commits: what is safe is durable.
LEMMA SafeIsDurable ==
  ASSUME NEW r, NEW todo, NEW durable, NEW seen, NEW closing,
         \A c \in DOMAIN todo : todo[c].do \notin closing, Safe(r, todo, durable, seen, closing)
  PROVE  Kept(r, durable)
  BY DEF Safe, Owed
-------------------------------------------------------------------------------
(* The statements of a request. *)

LEMMA ConcatAt ==
  ASSUME NEW s \in Seq(Statements), NEW t \in Seq(Statements)
  PROVE  /\ s \o t \in Seq(Statements) /\ Len(s \o t) = Len(s) + Len(t)
         /\ Len(s) \in Nat /\ Len(t) \in Nat
         /\ \A i \in 1..Len(s) : (s \o t)[i] = s[i]
         /\ \A i \in 1..Len(t) : (s \o t)[Len(s) + i] = t[i]
  <1>1. s \o t \in Seq(Statements) /\ Len(s \o t) = Len(s) + Len(t) /\ Len(s) \in Nat /\ Len(t) \in Nat
    OBVIOUS
  <1>2. \A i \in 1..Len(s) : (s \o t)[i] = s[i] BY <1>1
  <1>3. \A i \in 1..Len(t) : (s \o t)[Len(s) + i] = t[i] BY <1>1
  <1> QED BY <1>1, <1>2, <1>3

LEMMA RequestIsTyped ==
  ASSUME NEW q \in Requests
  PROVE  /\ q.op \in Ops /\ q.key \in Words /\ q.value \in Words
         /\ q.findings \in Seq(STRING) /\ Len(q.findings) \in Nat
         /\ \A i \in 1..Len(q.findings) : q.findings[i] \in Words
  <1>1. q \in [op : Ops, key : STRING, value : STRING, findings : Seq(STRING)]
    BY PlatformAssumption DEF PlatformAssumption
  <1>2. q.op \in Ops /\ q.key \in STRING /\ q.value \in STRING /\ q.findings \in Seq(STRING)
    BY <1>1
  <1>3. Len(q.findings) \in Nat /\ \A i \in 1..Len(q.findings) : q.findings[i] \in STRING
    BY <1>2
  <1> QED BY <1>2, <1>3 DEF Words

LEMMA StatementIsTyped ==
  ASSUME NEW r \in RowSet
  PROVE  /\ Insert(r) \in Statements /\ Insert(r).do = "insert" /\ Insert(r).row = r
         /\ Upsert(r) \in Statements /\ Upsert(r).do = "upsert" /\ Upsert(r).row = r
  BY DEF Insert, Upsert, Statements, Kinds

LEMMA CommitIsTyped == Commit \in Statements /\ Commit.do = "commit" /\ Commit.row = Bad
  BY SpecialRows DEF Commit, Statements, Kinds

LEMMA AppendIsTyped ==
  ASSUME NEW a \in Words, NEW b \in Words, NEW c \in Words
  PROVE  /\ Append_(a, b, c) \in Statements /\ Append_(a, b, c).do = "append"
         /\ Append_(a, b, c).row = Row("audit", a, b, c)
         /\ Notify(a, b) \in Statements /\ Notify(a, b).do = "notify"
         /\ Notify(a, b).row = Row("event", FirstOrg, a, b)
  <1>1. Row("audit", a, b, c) \in RowSet /\ Row("event", FirstOrg, a, b) \in RowSet
    BY HomeIsNamed, RowIsTyped DEF Words
  <1> QED BY <1>1 DEF Append_, Notify, Statements, Kinds

LEMMA FindingsAt ==
  ASSUME NEW q \in Requests
  PROVE  /\ Inserts(Findings(q)) \in Seq(Statements)
         /\ Len(Inserts(Findings(q))) = Len(q.findings)
         /\ \A i \in 1..Len(q.findings) :
              /\ Inserts(Findings(q))[i].do = "insert"
              /\ Inserts(Findings(q))[i].row \in RowSet
              /\ \/ Inserts(Findings(q))[i].row = Bad
                 \/ /\ Inserts(Findings(q))[i].row.table = "findings"
                    /\ Inserts(Findings(q))[i].row.org = FirstOrg
  <1> DEFINE n == Len(q.findings)
             f == Findings(q)
  <1>1. n \in Nat /\ \A i \in 1..n : q.findings[i] \in Words BY RequestIsTyped
  <1>2. Len(f) = n /\ DOMAIN f = 1..n BY <1>1 DEF Findings
  <1>3. ASSUME NEW i \in 1..n
        PROVE  f[i] \in RowSet /\ (f[i] = Bad \/ (f[i].table = "findings" /\ f[i].org = FirstOrg))
    <2>1. Row("findings", FirstOrg, q.key, q.findings[i]) \in RowSet
      BY <1>1, RequestIsTyped, HomeIsNamed, RowIsTyped DEF Words
    <2>2. f[i] = IF q.findings[i] = Bad.value THEN Bad ELSE Row("findings", FirstOrg, q.key, q.findings[i])
      BY DEF Findings
    <2>3. Row("findings", FirstOrg, q.key, q.findings[i]).table = "findings"
          /\ Row("findings", FirstOrg, q.key, q.findings[i]).org = FirstOrg
      BY DEF Row
    <2> QED BY <2>1, <2>2, <2>3, SpecialRows
  <1>4. Inserts(f) = [i \in 1..n |-> Insert(f[i])] BY <1>2 DEF Inserts
  <1>5. \A i \in 1..n : Insert(f[i]) \in Statements /\ Insert(f[i]).do = "insert" /\ Insert(f[i]).row = f[i]
    BY <1>3, StatementIsTyped
  <1> HIDE DEF n, f
  <1>6. Inserts(f) \in Seq(Statements) /\ Len(Inserts(f)) = n BY <1>1, <1>4, <1>5
  <1>7. \A i \in 1..n : Inserts(f)[i] = Insert(f[i]) BY <1>4
  <1> QED BY <1>3, <1>5, <1>6, <1>7 DEF n, f

LEMMA PublishAt ==
  ASSUME NEW q \in Requests, NEW n, n = Len(q.findings), NEW H, H = PublishContract(q)
  PROVE  /\ H \in Seq(Statements) /\ n \in Nat /\ DOMAIN H = 1..(n + 5)
         /\ H[1].do = "insert" /\ H[1].row = Contract(q) /\ H[2] = Commit
         /\ \A i \in 1..n : H[2 + i] = Inserts(Findings(q))[i]
         /\ H[n + 3] = Commit
         /\ H[n + 4].do = "append" /\ H[n + 4].row = AuditRow(q.key)
         /\ H[n + 5].do = "notify" /\ H[n + 5].row = Row("event", FirstOrg, "contract.published", q.key)
  <1> DEFINE A == <<Insert(Contract(q)), Commit>>
             F == Inserts(Findings(q))
             B == <<Commit>>
             C == <<Append_(FirstOrg, "contract.published", q.key), Notify("contract.published", q.key)>>
  <1>1. Contract(q) \in RowSet BY RequestIsTyped, HomeIsNamed, RowIsTyped DEF Contract, Words
  <1>2. /\ Insert(Contract(q)) \in Statements /\ Insert(Contract(q)).do = "insert"
        /\ Insert(Contract(q)).row = Contract(q)
    BY <1>1, StatementIsTyped
  <1>3. "contract.published" \in Words /\ q.key \in Words /\ FirstOrg \in Words
    BY RequestIsTyped, HomeIsNamed DEF Words
  <1>4. /\ C[1] \in Statements /\ C[1].do = "append" /\ C[1].row = AuditRow(q.key)
        /\ C[2] \in Statements /\ C[2].do = "notify"
        /\ C[2].row = Row("event", FirstOrg, "contract.published", q.key)
    BY <1>3, AppendIsTyped DEF AuditRow
  <1>5. A \in Seq(Statements) /\ Len(A) = 2 /\ A[1] = Insert(Contract(q)) /\ A[2] = Commit
    BY <1>2, CommitIsTyped
  <1>6. B \in Seq(Statements) /\ Len(B) = 1 /\ B[1] = Commit BY CommitIsTyped
  <1>7. C \in Seq(Statements) /\ Len(C) = 2 BY <1>4
  <1>8. F \in Seq(Statements) /\ Len(F) = n /\ n \in Nat BY FindingsAt, RequestIsTyped
  <1>9. H = ((A \o F) \o B) \o C BY DEF PublishContract
  <1> HIDE DEF A, B, C, F
  <1>10. /\ A \o F \in Seq(Statements) /\ Len(A \o F) = n + 2
         /\ \A i \in 1..2 : (A \o F)[i] = A[i]
         /\ \A i \in 1..n : (A \o F)[2 + i] = F[i]
    <2>1. /\ A \o F \in Seq(Statements) /\ Len(A \o F) = Len(A) + Len(F)
          /\ \A i \in 1..Len(A) : (A \o F)[i] = A[i]
          /\ \A i \in 1..Len(F) : (A \o F)[Len(A) + i] = F[i]
      BY <1>5, <1>8, ConcatAt
    <2> QED BY <2>1, <1>5, <1>8
  <1> DEFINE AF == A \o F
             AFB == AF \o B
  <1> HIDE DEF AF
  <1>11. /\ AF \in Seq(Statements) /\ Len(AF) = n + 2 /\ AF[1] = A[1] /\ AF[2] = A[2]
         /\ \A i \in 1..n : AF[2 + i] = F[i]
    BY <1>10 DEF AF
  <1>12. /\ AFB \in Seq(Statements) /\ Len(AFB) = (n + 2) + 1
         /\ \A i \in 1..(n + 2) : AFB[i] = AF[i]
         /\ \A i \in 1..1 : AFB[(n + 2) + i] = B[i]
    BY <1>6, <1>11, ConcatAt
  <1>13. AFB[n + 3] = Commit BY <1>12, <1>6, <1>8
  <1> HIDE DEF AFB
  <1>14. Len(AFB) = n + 3 BY <1>12, <1>8
  <1>15. H = AFB \o C BY <1>9 DEF AFB, AF
  <1>16. /\ H \in Seq(Statements) /\ Len(H) = (n + 3) + 2
         /\ \A i \in 1..(n + 3) : H[i] = AFB[i]
         /\ \A i \in 1..2 : H[(n + 3) + i] = C[i]
    <2>1. /\ AFB \o C \in Seq(Statements) /\ Len(AFB \o C) = Len(AFB) + Len(C)
          /\ \A i \in 1..Len(AFB) : (AFB \o C)[i] = AFB[i]
          /\ \A i \in 1..Len(C) : (AFB \o C)[Len(AFB) + i] = C[i]
      BY <1>7, <1>12, ConcatAt
    <2> QED BY <2>1, <1>7, <1>14, <1>15
  <1>17. H[n + 4] = C[1] /\ H[n + 5] = C[2] /\ DOMAIN H = 1..(n + 5) BY <1>16, <1>8
  <1>18. H[1] = A[1] /\ H[2] = A[2] /\ H[n + 3] = Commit
    <2>1. H[1] = AFB[1] /\ H[2] = AFB[2] /\ H[n + 3] = AFB[n + 3] BY <1>8, <1>16
    <2>2. AFB[1] = AF[1] /\ AFB[2] = AF[2] BY <1>8, <1>12
    <2> QED BY <2>1, <2>2, <1>11, <1>13
  <1>19. \A i \in 1..n : H[2 + i] = F[i]
    <2> SUFFICES ASSUME NEW i \in 1..n PROVE H[2 + i] = F[i] OBVIOUS
    <2>1. 2 + i \in 1..(n + 2) /\ 2 + i \in 1..(n + 3) BY <1>8
    <2> QED BY <2>1, <1>11, <1>12, <1>16
  <1> QED BY <1>2, <1>4, <1>5, <1>8, <1>16, <1>17, <1>18, <1>19 DEF F
\* What holds of the statements of a request when it is received.
Handled(q, todo) ==
  /\ ThreadPlan(q, todo)
  /\ \A i \in DOMAIN todo : todo[i].do = "commit" => todo[i].row = Bad
  /\ \A i \in DOMAIN todo : todo[i].do \in Writes => \E c \in i..Len(todo) : todo[c].do \in Committing
  /\ q.op = "publish" =>
       \A i \in DOMAIN todo :
         todo[i].do \in {"insert", "upsert"} => \E c \in i..Len(todo) : todo[c].do = "commit"
  /\ FirstOrg # Restored =>
       \A i \in DOMAIN todo :
         todo[i].do = "insert" /\ Inner(todo[i].row) => \E j \in 1..(i - 1) : todo[j].row = DoorRow

LEMMA PublishIsHandled ==
  ASSUME NEW q \in Requests, q.op = "publish"
  PROVE  Handled(q, PublishContract(q))
  <1> DEFINE n == Len(q.findings)
             H == PublishContract(q)
  <1>1. /\ H \in Seq(Statements) /\ n \in Nat /\ DOMAIN H = 1..(n + 5)
        /\ H[1].do = "insert" /\ H[1].row = Contract(q) /\ H[2] = Commit
        /\ \A i \in 1..n : H[2 + i] = Inserts(Findings(q))[i]
        /\ H[n + 3] = Commit
        /\ H[n + 4].do = "append" /\ H[n + 4].row = AuditRow(q.key)
        /\ H[n + 5].do = "notify" /\ H[n + 5].row = Row("event", FirstOrg, "contract.published", q.key)
    BY PublishAt
  <1> HIDE DEF n, H
  <1>2. Contract(q).table = "contracts" /\ Contract(q).org = FirstOrg BY DEF Contract, Row
  <1>3. ASSUME NEW i \in 1..n
        PROVE  /\ H[2 + i].do = "insert"
               /\ \/ H[2 + i].row = Bad
                  \/ H[2 + i].row.table = "findings" /\ H[2 + i].row.org = FirstOrg
    BY <1>1, FindingsAt DEF n
  <1>4. Row("event", FirstOrg, "contract.published", q.key).table = "event"
        /\ Row("event", FirstOrg, "contract.published", q.key).value = q.key
    BY DEF Row
  <1>5. H[2].do = "commit" /\ H[n + 3].do = "commit" /\ H[2].row = Bad /\ H[n + 3].row = Bad
    BY <1>1, CommitIsTyped
  <1>6. Len(H) = n + 5 BY <1>1
  <1>7. Bad.org # Restored BY DEF Bad, Restored, Row
  <1>8. ASSUME NEW i \in DOMAIN H
        PROVE  \/ H[i].do = "insert" /\ i < n + 3
                  /\ (H[i].row = Bad \/ H[i].row.org = FirstOrg)
                  /\ H[i].row.table \in {"bad", "contracts", "findings"}
               \/ H[i].do = "commit" /\ H[i].row = Bad /\ i <= n + 3
               \/ H[i].do = "append" /\ i = n + 4 /\ H[i].row = AuditRow(q.key)
               \/ H[i].do = "notify" /\ i = n + 5 /\ H[i].row.table = "event" /\ H[i].row.value = q.key
    <2>1. i = 1 \/ i = 2 \/ (\E j \in 1..n : i = 2 + j) \/ i = n + 3 \/ i = n + 4 \/ i = n + 5
      <3>1. n \in Nat /\ i \in 1..(n + 5) BY <1>1
      <3>2. CASE i \in 3..(n + 2)
        <4>1. i - 2 \in 1..n /\ i = 2 + (i - 2) BY <3>1, <3>2
        <4> QED BY <4>1
      <3>3. CASE i \notin 3..(n + 2) BY <3>1, <3>3
      <3> QED BY <3>2, <3>3
    <2>2. CASE i = 1 BY <2>2, <1>1, <1>2
    <2>3. CASE i = 2 BY <2>3, <1>1, <1>5
    <2>4. CASE \E j \in 1..n : i = 2 + j BY <2>4, <1>1, <1>3, SpecialRows
    <2>5. CASE i = n + 3 BY <2>5, <1>1, <1>5
    <2>6. CASE i = n + 4 BY <2>6, <1>1
    <2>7. CASE i = n + 5 BY <2>7, <1>1, <1>4
    <2> QED BY <2>1, <2>2, <2>3, <2>4, <2>5, <2>6, <2>7
  <1>9. PublishPlan(q.key, H)
    <2>1. n \in Nat /\ DOMAIN H = 1..(n + 5) BY <1>1
    <2>2. ASSUME NEW a \in DOMAIN H, NEW c \in DOMAIN H,
                 H[a].do = "append" /\ H[c].do = "commit"
          PROVE  c < a
      <3>1. a = n + 4 BY <1>8, <2>2
      <3>2. c <= n + 3 BY <1>8, <2>2
      <3> QED BY <2>1, <3>1, <3>2
    <2>3. ASSUME NEW a \in DOMAIN H, NEW c \in DOMAIN H,
                 H[a].do = "notify" /\ H[c].do \in Committing
          PROVE  c < a
      <3>1. a = n + 5 BY <1>8, <2>3
      <3>2. c <= n + 3 \/ c = n + 4 BY <1>8, <2>3 DEF Committing
      <3> QED BY <2>1, <3>1, <3>2
    <2>4. \A a \in DOMAIN H : H[a].do = "append" => H[a].row = AuditRow(q.key) BY <1>8
    <2>5. \A a \in DOMAIN H : H[a].do = "notify" => H[a].row.value = q.key BY <1>8
    <2> QED BY <2>2, <2>3, <2>4, <2>5 DEF PublishPlan
  <1>10. ThreadPlan(q, H)
    <2>1. ASSUME NEW i \in DOMAIN H
          PROVE  /\ H[i].do # "read" /\ H[i].do # "upsert"
                 /\ H[i].do = "append" => H[i].row.table = "audit" /\ H[i].row.key # "org.imported"
                 /\ H[i].do \in {"insert", "upsert"} => H[i].row.table # "audit"
                 /\ H[i].row = DoorRow => H[i].do = "insert"
      BY <1>8, SpecialRows
    <2> QED BY <1>1, <1>9, <2>1 DEF ThreadPlan
  <1>11. ASSUME NEW i \in DOMAIN H, H[i].do \in {"insert", "upsert"}
         PROVE  \E c \in i..Len(H) : H[c].do = "commit"
    <2>1. n + 3 \in i..Len(H) BY <1>1, <1>6, <1>8, <1>11
    <2> QED BY <2>1, <1>5
  <1>12. ASSUME NEW i \in DOMAIN H, H[i].do \in Writes
         PROVE  \E c \in i..Len(H) : H[c].do \in Committing
    <2>1. CASE H[i].do = "append" BY <2>1, <1>1, <1>6 DEF Committing
    <2>2. CASE H[i].do # "append" BY <2>2, <1>11, <1>12 DEF Writes, Committing
    <2> QED BY <2>1, <2>2
  <1>13. ASSUME FirstOrg # Restored, NEW i \in DOMAIN H, H[i].do = "insert" PROVE ~Inner(H[i].row)
    BY <1>8, <1>13, <1>7 DEF Inner
  <1>14. Handled(q, H) BY <1>8, <1>10, <1>11, <1>12, <1>13 DEF Handled
  <1> QED BY <1>14 DEF H

LEMMA FindingsAreHandled ==
  ASSUME NEW q \in Requests, q.op = "findings"
  PROVE  Handled(q, AddFindings(q))
  <1> DEFINE n == Len(q.findings)
             F == Inserts(Findings(q))
             B == <<Commit>>
             H == AddFindings(q)
  <1>1. F \in Seq(Statements) /\ Len(F) = n /\ n \in Nat BY FindingsAt, RequestIsTyped
  <1>2. B \in Seq(Statements) /\ Len(B) = 1 /\ B[1] = Commit BY CommitIsTyped
  <1>3. H = F \o B BY DEF AddFindings
  <1> HIDE DEF n, F, B, H
  <1>4. /\ F \o B \in Seq(Statements) /\ Len(F \o B) = Len(F) + Len(B)
        /\ \A i \in 1..Len(F) : (F \o B)[i] = F[i]
        /\ \A i \in 1..Len(B) : (F \o B)[Len(F) + i] = B[i]
    BY <1>1, <1>2, ConcatAt
  <1>5. H \in Seq(Statements) /\ Len(H) = n + 1 /\ DOMAIN H = 1..(n + 1) BY <1>1, <1>2, <1>3, <1>4
  <1>6. H[n + 1] = Commit /\ \A i \in 1..n : H[i] = F[i] BY <1>1, <1>2, <1>3, <1>4
  <1>7. Bad.org # Restored BY DEF Bad, Restored, Row
  <1>8. ASSUME NEW i \in DOMAIN H
        PROVE  \/ H[i].do = "insert" /\ (H[i].row = Bad \/ H[i].row.org = FirstOrg)
                  /\ H[i].row.table \in {"bad", "findings"}
               \/ H[i].do = "commit" /\ H[i].row = Bad
    <2>1. CASE i \in 1..n BY <2>1, <1>6, FindingsAt, SpecialRows DEF F, n
    <2>2. CASE i = n + 1 BY <2>2, <1>6, CommitIsTyped
    <2> QED BY <1>1, <1>5, <2>1, <2>2
  <1>9. ThreadPlan(q, H)
    <2>1. ASSUME NEW i \in DOMAIN H
          PROVE  /\ H[i].do \in {"insert", "commit"}
                 /\ H[i].do \in {"insert", "upsert"} => H[i].row.table # "audit"
                 /\ H[i].row = DoorRow => H[i].do = "insert"
      BY <1>8, SpecialRows
    <2> QED BY <1>5, <2>1 DEF ThreadPlan
  <1>10. n + 1 \in DOMAIN H /\ H[n + 1].do = "commit" BY <1>1, <1>5, <1>6, CommitIsTyped
  <1>11. ASSUME NEW i \in DOMAIN H
         PROVE  \E c \in i..Len(H) : H[c].do = "commit"
    <2>1. n + 1 \in i..Len(H) BY <1>1, <1>5
    <2> QED BY <2>1, <1>10
  <1>12. ASSUME FirstOrg # Restored, NEW i \in DOMAIN H, H[i].do = "insert" PROVE ~Inner(H[i].row)
    BY <1>8, <1>12, <1>7 DEF Inner
  <1>13. Handled(q, H) BY <1>8, <1>9, <1>11, <1>12 DEF Handled, Committing
  <1> QED BY <1>13 DEF H

LEMMA RegisterIsHandled ==
  ASSUME NEW q \in Requests, q.op # "publish", NEW s \in Statements,
         s.do = "insert" \/ (s.do = "upsert" /\ s.row.org = FirstOrg
                             /\ s.row.table \in {"environments", "policies", "workers"}),
         s.row.table \notin {"audit", "orgs"}, s.row = Bad \/ s.row.org = FirstOrg,
         NEW action \in Words, action \notin {"org.imported", "contract.published"}
  PROVE  Handled(q, Register(q, s, action)) /\ Handled(q, <<s, Commit>>)
  <1> DEFINE a == Append_(FirstOrg, action, q.key)
  <1>1. a \in Statements /\ a.do = "append" /\ a.row = Row("audit", FirstOrg, action, q.key)
    BY RequestIsTyped, HomeIsNamed, AppendIsTyped
  <1>2. a.row.table = "audit" /\ a.row.key = action BY <1>1 DEF Row
  <1>3. Register(q, s, action) = <<s, Commit, a>> BY DEF Register
  <1>4. Bad.org # Restored BY DEF Bad, Restored, Row
  <1> HIDE DEF a
  <1>5. s.row # DoorRow /\ Bad # DoorRow /\ a.row # DoorRow BY <1>2, SpecialRows
  <1>6. ASSUME FirstOrg # Restored PROVE ~Inner(s.row) BY <1>4, <1>6 DEF Inner
  <1>7. Handled(q, <<s, Commit>>)
    <2> DEFINE H == <<s, Commit>>
    <2>1. H \in Seq(Statements) /\ DOMAIN H = 1..2 /\ Len(H) = 2 /\ H[1] = s /\ H[2] = Commit
      BY CommitIsTyped
    <2> HIDE DEF H
    <2>2. \A i \in DOMAIN H : H[i] = s \/ H[i] = Commit BY <2>1
    <2>3. ThreadPlan(q, H) BY <2>1, <2>2, <1>5, CommitIsTyped DEF ThreadPlan
    <2>4. ASSUME NEW i \in DOMAIN H PROVE \E c \in i..Len(H) : H[c].do \in Committing
      <3>1. 2 \in i..Len(H) BY <2>1
      <3> QED BY <3>1, <2>1, CommitIsTyped DEF Committing
    <2>5. \A i \in DOMAIN H : FirstOrg # Restored /\ H[i].do = "insert" => ~Inner(H[i].row)
      BY <2>2, <1>6, CommitIsTyped
    <2>6. \A i \in DOMAIN H : H[i].do = "commit" => H[i].row = Bad BY <2>2, CommitIsTyped
    <2> QED BY <2>3, <2>4, <2>5, <2>6 DEF Handled, H
  <1>8. Handled(q, <<s, Commit, a>>)
    <2> DEFINE H == <<s, Commit, a>>
    <2>1. /\ H \in Seq(Statements) /\ DOMAIN H = 1..3 /\ Len(H) = 3
          /\ H[1] = s /\ H[2] = Commit /\ H[3] = a
      BY <1>1, CommitIsTyped
    <2> HIDE DEF H
    <2>2. \A i \in DOMAIN H : H[i] = s \/ H[i] = Commit \/ H[i] = a BY <2>1
    <2>3. ThreadPlan(q, H) BY <2>1, <2>2, <1>1, <1>2, <1>5, CommitIsTyped DEF ThreadPlan
    <2>4. ASSUME NEW i \in DOMAIN H PROVE \E c \in i..Len(H) : H[c].do \in Committing
      <3>1. 3 \in i..Len(H) BY <2>1
      <3> QED BY <3>1, <2>1, <1>1 DEF Committing
    <2>5. \A i \in DOMAIN H : FirstOrg # Restored /\ H[i].do = "insert" => ~Inner(H[i].row)
      BY <2>2, <1>1, <1>6, CommitIsTyped
    <2>6. \A i \in DOMAIN H : H[i].do = "commit" => H[i].row = Bad BY <2>2, <1>1, CommitIsTyped
    <2> QED BY <2>3, <2>4, <2>5, <2>6 DEF Handled, H
  <1> QED BY <1>3, <1>7, <1>8

LEMMA OrgIsHandled ==
  ASSUME NEW q \in Requests, q.op = "org"
  PROVE  Handled(q, CreateOrg(q))
  <1> DEFINE o == Row("orgs", q.key, "", "")
             u == Row("users", q.key, "bootstrap", "owner")
             a == Append_(q.key, "org.created", q.key)
             H == CreateOrg(q)
  <1>1. q.key \in Words /\ o \in RowSet /\ u \in RowSet
    BY RequestIsTyped, RowIsTyped DEF Words
  <1>2. a \in Statements /\ a.do = "append" /\ a.row = Row("audit", q.key, "org.created", q.key)
    BY <1>1, AppendIsTyped DEF Words
  <1>3. a.row.table = "audit" /\ a.row.key = "org.created" BY <1>2 DEF Row
  <1>4. /\ Insert(o) \in Statements /\ Insert(o).do = "insert" /\ Insert(o).row = o
        /\ Insert(u) \in Statements /\ Insert(u).do = "insert" /\ Insert(u).row = u
    BY <1>1, StatementIsTyped
  <1>5. o.table = "orgs" /\ u.table = "users" /\ u.org = q.key BY DEF Row
  <1>6. q.key = Restored => o = DoorRow BY DEF DoorRow
  <1>7. H = <<Insert(o), Commit, Insert(u), Commit, a>> BY DEF CreateOrg
  <1> HIDE DEF o, u, a
  <1>8. /\ H \in Seq(Statements) /\ DOMAIN H = 1..5 /\ Len(H) = 5
        /\ H[1] = Insert(o) /\ H[2] = Commit /\ H[3] = Insert(u) /\ H[4] = Commit /\ H[5] = a
    BY <1>2, <1>4, <1>7, CommitIsTyped
  <1> HIDE DEF H
  <1>9. ASSUME NEW i \in DOMAIN H
        PROVE  \/ i = 1 /\ H[i].do = "insert" /\ H[i].row = o
               \/ i = 3 /\ H[i].do = "insert" /\ H[i].row = u
               \/ H[i].do = "commit" /\ H[i].row = Bad
               \/ H[i].do = "append" /\ H[i].row = a.row
    BY <1>2, <1>4, <1>8, CommitIsTyped
  <1>10. ThreadPlan(q, H)
    <2>1. ASSUME NEW i \in DOMAIN H
          PROVE  /\ H[i].do \in {"insert", "commit", "append"}
                 /\ H[i].do = "append" => H[i].row.table = "audit" /\ H[i].row.key = "org.created"
                 /\ H[i].do \in {"insert", "upsert"} => H[i].row.table # "audit"
                 /\ H[i].row = DoorRow => H[i].do = "insert"
      BY <1>3, <1>5, <1>9, SpecialRows
    <2> QED BY <1>8, <2>1 DEF ThreadPlan
  <1>11. ASSUME NEW i \in DOMAIN H PROVE \E c \in i..Len(H) : H[c].do \in Committing
    <2>1. 5 \in i..Len(H) BY <1>8
    <2> QED BY <2>1, <1>2, <1>8 DEF Committing
  <1>12. ASSUME NEW i \in DOMAIN H, H[i].do = "insert", Inner(H[i].row)
         PROVE  \E j \in 1..(i - 1) : H[j].row = DoorRow
    <2>1. i = 3 /\ H[i].row = u BY <1>5, <1>9, <1>12 DEF Inner
    <2>2. q.key = Restored BY <2>1, <1>5, <1>12 DEF Inner
    <2>3. 1 \in 1..(i - 1) /\ H[1].row = DoorRow BY <2>1, <2>2, <1>4, <1>6, <1>8
    <2> QED BY <2>3
  <1>13. Handled(q, H) BY <1>9, <1>10, <1>11, <1>12 DEF Handled
  <1> QED BY <1>13 DEF H

LEMMA SubjectIs ==
  ASSUME NEW q \in Requests, q.op \in {"environment", "policy", "worker", "user", "webhook"}
  PROVE  /\ Subject(q) \in RowSet
         /\ Subject(q).table \notin {"audit", "orgs"} /\ (Subject(q) = Bad \/ Subject(q).org = FirstOrg)
         /\ q.op \in {"environment", "policy", "worker"}
            => /\ Subject(q).org = FirstOrg
               /\ Subject(q).table \in {"environments", "policies", "workers"}
  <1>1. /\ Tables["environment"] = "environments" /\ Tables["policy"] = "policies"
        /\ Tables["worker"] = "workers" /\ Tables["user"] = "users" /\ Tables["webhook"] = "webhooks"
    BY DEF Tables
  <1>2. Tables[q.op] \in {"environments", "policies", "workers", "users", "webhooks"}
        /\ (q.op \in {"environment", "policy", "worker"}
            => Tables[q.op] \in {"environments", "policies", "workers"})
    BY <1>1
  <1>3. q.key \in Words /\ q.value \in Words /\ Tables[q.op] \in Words BY <1>2, RequestIsTyped DEF Words
  <1> DEFINE r == Row(Tables[q.op], FirstOrg, q.key, q.value)
  <1>4. r \in RowSet BY <1>3, HomeIsNamed, RowIsTyped
  <1>5. r.table = Tables[q.op] /\ r.org = FirstOrg BY DEF Row
  <1>6. Subject(q) = r \/ (q.op = "user" /\ Subject(q) = Bad) BY DEF Subject
  <1> HIDE DEF r
  <1> QED BY <1>2, <1>4, <1>5, <1>6, SpecialRows

LEMMA RequestIsHandled ==
  ASSUME NEW q \in Requests
  PROVE  Handled(q, Handler(q))
  <1>1. q.op \in {"publish", "findings", "org", "user", "environment", "policy", "worker", "webhook"}
    BY RequestIsTyped DEF Ops
  <1>2. CASE q.op = "publish" BY <1>2, PublishIsHandled DEF Handler
  <1>3. CASE q.op = "findings" BY <1>3, FindingsAreHandled DEF Handler
  <1>4. CASE q.op = "org" BY <1>4, OrgIsHandled DEF Handler
  <1>5. CASE q.op \in {"user", "environment", "policy", "worker", "webhook"}
    <2>1. /\ Subject(q) \in RowSet
          /\ Subject(q).table \notin {"audit", "orgs"} /\ (Subject(q) = Bad \/ Subject(q).org = FirstOrg)
          /\ q.op \in {"environment", "policy", "worker"}
             => /\ Subject(q).org = FirstOrg
                /\ Subject(q).table \in {"environments", "policies", "workers"}
      BY <1>5, SubjectIs
    <2> DEFINE r == Subject(q)
    <2> HIDE DEF r
    <2>2. /\ Insert(r) \in Statements /\ Insert(r).do = "insert" /\ Insert(r).row = r
          /\ Upsert(r) \in Statements /\ Upsert(r).do = "upsert" /\ Upsert(r).row = r
      BY <2>1, StatementIsTyped DEF r
    <2>3. /\ "user.added" \in Words /\ "environment.registered" \in Words
          /\ "policy.updated" \in Words /\ "worker.enrolled" \in Words
      BY DEF Words
    <2>4. CASE q.op = "user"
      <3>1. Handled(q, Register(q, Insert(r), "user.added"))
        BY <2>1, <2>2, <2>3, <2>4, RegisterIsHandled DEF r
      <3> QED BY <3>1, <2>4 DEF Handler, r
    <2>5. CASE q.op = "environment"
      <3>1. Handled(q, Register(q, Upsert(r), "environment.registered"))
        BY <2>1, <2>2, <2>3, <2>5, RegisterIsHandled DEF r
      <3> QED BY <3>1, <2>5 DEF Handler, r
    <2>6. CASE q.op = "policy"
      <3>1. Handled(q, Register(q, Upsert(r), "policy.updated"))
        BY <2>1, <2>2, <2>3, <2>6, RegisterIsHandled DEF r
      <3> QED BY <3>1, <2>6 DEF Handler, r
    <2>7. CASE q.op = "worker"
      <3>1. Handled(q, Register(q, Upsert(r), "worker.enrolled"))
        BY <2>1, <2>2, <2>3, <2>7, RegisterIsHandled DEF r
      <3> QED BY <3>1, <2>7 DEF Handler, r
    <2>8. CASE q.op = "webhook"
      <3>1. Handled(q, <<Insert(r), Commit>>)
        BY <2>1, <2>2, <2>3, <2>8, RegisterIsHandled DEF r
      <3> QED BY <3>1, <2>8 DEF Handler, r
    <2> QED BY <1>5, <2>4, <2>5, <2>6, <2>7, <2>8
  <1> QED BY <1>1, <1>2, <1>3, <1>4, <1>5

\* A request owes every row it has to leave behind, and a publication all but
\* the last of them before it logs itself.
LEMMA RequestOwes ==
  ASSUME NEW q \in Requests, NEW r \in Rows(q), NEW seen
  PROVE  /\ Owed(r, Handler(q), seen, Committing) /\ r \in RowSet
         /\ q.op = "publish" /\ r # AuditRow(q.key) => Owed(r, Handler(q), seen, {"commit"})
  <1> DEFINE H == Handler(q)
  <1>1. Handled(q, H) BY RequestIsHandled
  <1>2. PICK i \in DOMAIN H : H[i].do # "notify" /\ r = H[i].row /\ r # Bad BY DEF Rows
  <1> HIDE DEF H
  <1>3. H \in Seq(Statements) /\ DOMAIN H = 1..Len(H) /\ Len(H) \in Nat BY <1>1 DEF Handled, ThreadPlan
  <1>4. H[i] \in Statements BY <1>2, <1>3
  <1>5. H[i].row \in RowSet /\ H[i].do \in Kinds BY <1>4 DEF Statements
  <1>6. H[i].do # "read" /\ H[i].do # "commit" BY <1>1, <1>2 DEF Handled, ThreadPlan
  <1>7. H[i].do \in Writes BY <1>2, <1>5, <1>6 DEF Kinds, Writes
  <1>8. \A c \in i..Len(H) : c \in DOMAIN H /\ i \in 1..c BY <1>2, <1>3
  <1>9. Owed(r, H, seen, Committing)
    <2>1. PICK c \in i..Len(H) : H[c].do \in Committing BY <1>1, <1>2, <1>7 DEF Handled
    <2> QED BY <2>1, <1>2, <1>7, <1>8 DEF Owed
  <1>10. ASSUME q.op = "publish", r # AuditRow(q.key) PROVE Owed(r, H, seen, {"commit"})
    <2>1. H[i].do # "append" BY <1>1, <1>2, <1>10 DEF Handled, ThreadPlan, PublishPlan
    <2>2. PICK c \in i..Len(H) : H[c].do = "commit"
      BY <1>1, <1>2, <1>7, <1>10, <2>1 DEF Handled, Writes
    <2> QED BY <2>2, <1>2, <1>7, <1>8 DEF Owed
  <1> QED BY <1>2, <1>5, <1>9, <1>10 DEF H
-------------------------------------------------------------------------------
(* The statements of an import. *)

LEMMA ListedIs ==
  ASSUME NEW S, IsFiniteSet(S)
  PROVE  /\ Cardinality(S) \in Nat /\ Listed(S) \in [1..Cardinality(S) -> S]
         /\ \A r \in S : \E i \in 1..Cardinality(S) : Listed(S)[i] = r
  <1> DEFINE n == Cardinality(S)
             Lists(s) == \A r \in S : \E i \in DOMAIN s : s[i] = r
  <1>1. n \in Nat /\ ExistsBijection(1..n, S) BY FS_CardinalityType
  <1>2. PICK s \in [1..n -> S] : \A r \in S : \E i \in 1..n : s[i] = r
    BY <1>1 DEF ExistsBijection, Bijection, Surjection
  <1>3. Lists(s) BY <1>2
  <1>4. Listed(S) = CHOOSE t \in [1..n -> S] : Lists(t) BY DEF Listed
  <1> HIDE DEF Lists, n
  <1>5. Listed(S) \in [1..n -> S] /\ Lists(Listed(S)) BY <1>2, <1>3, <1>4
  <1> QED BY <1>1, <1>5 DEF Lists, n

\* Statements that insert copies of rows, and commit.
Copying(rows, todo) ==
  /\ todo \in Seq(Statements)
  /\ \A i \in DOMAIN todo :
       \/ todo[i].do = "commit" /\ todo[i].row = Bad
       \/ todo[i].do = "insert" /\ \E f \in rows : todo[i].row = Copy(f)
Copied(f, todo) ==
  \E i \in DOMAIN todo, c \in DOMAIN todo :
    i <= c /\ todo[i].do = "insert" /\ todo[i].row = Copy(f) /\ todo[c].do = "commit"

LEMMA EachCopies ==
  ASSUME NEW table, NEW rows \in SUBSET RowSet, IsFiniteSet(rows)
  PROVE  /\ Copying(rows, Each(table, rows, Restored))
         /\ \A f \in rows : f.table = table => Copied(f, Each(table, rows, Restored))
  <1> DEFINE S == {r \in rows : r.table = table}
             n == Cardinality(S)
             s == Listed(S)
             E == Each(table, rows, Restored)
  <1>1. IsFiniteSet(S) BY FS_Subset
  <1>2. n \in Nat /\ s \in [1..n -> S] /\ \A r \in S : \E i \in 1..n : s[i] = r BY <1>1, ListedIs
  <1>3. Len(s) = n BY <1>2
  <1>4. E = [i \in 1..2 * n |-> IF i % 2 = 0 THEN Commit ELSE Insert(Copy(s[(i + 1) \div 2]))]
    BY <1>3 DEF Each, Copy
  <1>5. \A f \in rows : /\ Copy(f) \in RowSet /\ Insert(Copy(f)) \in Statements
                        /\ Insert(Copy(f)).do = "insert" /\ Insert(Copy(f)).row = Copy(f)
    BY CopyAndBack, StatementIsTyped
  <1>6. \A i \in 1..n : s[i] \in rows BY <1>2
  <1> HIDE DEF s, n, E
  <1>7. 2 * n \in Nat /\ DOMAIN E = 1..(2 * n) BY <1>2, <1>4
  <1>8. ASSUME NEW k \in 1..n
        PROVE  /\ 2 * k - 1 \in 1..(2 * n) /\ 2 * k \in 1..(2 * n)
               /\ E[2 * k - 1] = Insert(Copy(s[k])) /\ E[2 * k] = Commit
    <2>1. k \in Nat /\ n \in Nat /\ 1 <= k /\ k <= n BY <1>2
    <2>2. 2 * k - 1 \in 1..(2 * n) /\ 2 * k \in 1..(2 * n) BY <2>1
    <2>3. (2 * k) % 2 = 0 /\ (2 * k - 1) % 2 # 0 /\ ((2 * k - 1) + 1) \div 2 = k BY <2>1
    <2> QED BY <1>4, <2>2, <2>3
  <1>9. ASSUME NEW i \in 1..(2 * n) PROVE \E k \in 1..n : i = 2 * k - 1 \/ i = 2 * k
    <2>1. i \in Nat /\ n \in Nat /\ 1 <= i /\ i <= 2 * n BY <1>2
    <2>2. (i + 1) \div 2 \in 1..n BY <2>1
    <2>3. i = 2 * ((i + 1) \div 2) - 1 \/ i = 2 * ((i + 1) \div 2) BY <2>1
    <2> QED BY <2>2, <2>3
  <1>10. ASSUME NEW i \in 1..(2 * n)
         PROVE  E[i] \in Statements /\ (E[i] = Commit \/ \E f \in rows : E[i] = Insert(Copy(f)))
    <2>1. PICK k \in 1..n : i = 2 * k - 1 \/ i = 2 * k BY <1>9
    <2>2. E[i] = Commit \/ E[i] = Insert(Copy(s[k])) BY <2>1, <1>8
    <2> QED BY <2>2, <1>5, <1>6, CommitIsTyped
  <1>11. E \in Seq(Statements) BY <1>4, <1>7, <1>10
  <1>12. Copying(rows, E) BY <1>5, <1>7, <1>10, <1>11, CommitIsTyped DEF Copying
  <1>13. ASSUME NEW f \in rows, f.table = table PROVE Copied(f, E)
    <2>1. PICK k \in 1..n : s[k] = f BY <1>2, <1>13
    <2>2. /\ 2 * k - 1 \in DOMAIN E /\ 2 * k \in DOMAIN E /\ 2 * k - 1 <= 2 * k
          /\ E[2 * k - 1] = Insert(Copy(f)) /\ E[2 * k] = Commit
      BY <1>7, <1>8, <2>1, <1>2
    <2> QED BY <2>2, <1>5, CommitIsTyped DEF Copied
  <1> QED BY <1>12, <1>13 DEF E

\* The organization is made first, and its rows are copied one after the other.
Opening(rows, todo) ==
  /\ todo \in Seq(Statements) /\ Len(todo) >= 2
  /\ todo[1].do = "insert" /\ todo[1].row = DoorRow
  /\ \A i \in 2..Len(todo) :
       \/ todo[i].do = "commit" /\ todo[i].row = Bad
       \/ todo[i].do = "insert" /\ \E f \in rows : todo[i].row = Copy(f)

LEMMA OpensAndCopies ==
  ASSUME NEW rows, NEW s, NEW t, Opening(rows, s), Copying(rows, t)
  PROVE  /\ Opening(rows, s \o t)
         /\ \A f : Copied(f, s) \/ Copied(f, t) => Copied(f, s \o t)
  <1> DEFINE H == s \o t
  <1>1. s \in Seq(Statements) /\ t \in Seq(Statements) BY DEF Opening, Copying
  <1>2. /\ H \in Seq(Statements) /\ Len(H) = Len(s) + Len(t) /\ Len(s) \in Nat /\ Len(t) \in Nat
        /\ \A i \in 1..Len(s) : H[i] = s[i]
        /\ \A i \in 1..Len(t) : H[Len(s) + i] = t[i]
    BY <1>1, ConcatAt
  <1>3. DOMAIN H = 1..Len(H) /\ DOMAIN s = 1..Len(s) /\ DOMAIN t = 1..Len(t) BY <1>1, <1>2
  <1> HIDE DEF H
  <1>4. ASSUME NEW i \in 2..Len(H)
        PROVE  \/ H[i].do = "commit" /\ H[i].row = Bad
               \/ H[i].do = "insert" /\ \E f \in rows : H[i].row = Copy(f)
    <2>1. CASE i \in 2..Len(s) BY <2>1, <1>2 DEF Opening
    <2>2. CASE i \notin 2..Len(s)
      <3>1. i - Len(s) \in 1..Len(t) /\ H[i] = H[Len(s) + (i - Len(s))] BY <2>2, <1>2 DEF Opening
      <3>2. i - Len(s) \in DOMAIN t /\ H[i] = t[i - Len(s)] BY <3>1, <1>2, <1>3
      <3> QED BY <3>2 DEF Copying
    <2> QED BY <2>1, <2>2
  <1>5. Opening(rows, H) BY <1>2, <1>4 DEF Opening
  <1>6. ASSUME NEW f, Copied(f, s) PROVE Copied(f, H)
    BY <1>6, <1>2, <1>3 DEF Copied
  <1>7. ASSUME NEW f, Copied(f, t) PROVE Copied(f, H)
    <2>1. PICK i \in DOMAIN t, c \in DOMAIN t :
            i <= c /\ t[i].do = "insert" /\ t[i].row = Copy(f) /\ t[c].do = "commit"
      BY <1>7 DEF Copied
    <2>2. /\ Len(s) + i \in DOMAIN H /\ Len(s) + c \in DOMAIN H /\ Len(s) + i <= Len(s) + c
          /\ H[Len(s) + i] = t[i] /\ H[Len(s) + c] = t[c]
      BY <2>1, <1>2, <1>3
    <2> QED BY <2>1, <2>2 DEF Copied
  <1> QED BY <1>5, <1>6, <1>7 DEF H

LEMMA ImportIsPlanned ==
  ASSUME FileOK, file # None, NEW H, H = ImportOrg(file, Restored), NEW seen
  PROVE  /\ ImportPlan(H) /\ H # <<>> /\ H[1].row = DoorRow /\ H[1].do = "insert"
         /\ \A f \in file : Owed(Copy(f), H, seen, {"commit"})
  <1> DEFINE D == <<Insert(DoorRow), Commit>>
             U == Each("users", file, Restored)
             C == Each("contracts", file, Restored)
             E == Each("environments", file, Restored)
             P == Each("policies", file, Restored)
             A == <<Append_(Restored, "org.imported", Restored)>>
  <1>1. file \in SUBSET RowSet /\ IsFiniteSet(file) BY DEF FileOK
  <1>2. H = ((((D \o U) \o C) \o E) \o P) \o A BY DEF ImportOrg, DoorRow
  <1>3. /\ Insert(DoorRow) \in Statements /\ Insert(DoorRow).do = "insert" /\ Insert(DoorRow).row = DoorRow
    BY SpecialRows, StatementIsTyped
  <1>4. /\ A[1] \in Statements /\ A[1].do = "append" /\ A[1].row = ImportRow
    BY HomeIsNamed, AppendIsTyped DEF ImportRow, Words
  <1>5. A \in Seq(Statements) /\ Len(A) = 1 BY <1>4
  <1>6. Opening(file, D) BY <1>3, CommitIsTyped DEF Opening
  <1>7. /\ Copying(file, U) /\ Copying(file, C) /\ Copying(file, E) /\ Copying(file, P)
        /\ \A f \in file : /\ f.table = "users" => Copied(f, U)
                           /\ f.table = "contracts" => Copied(f, C)
                           /\ f.table = "environments" => Copied(f, E)
                           /\ f.table = "policies" => Copied(f, P)
    BY <1>1, EachCopies
  <1> HIDE DEF D, U, C, E, P, A
  <1> DEFINE DU == D \o U
             DC == DU \o C
             DE == DC \o E
             DP == DE \o P
  <1>8. Opening(file, DU) /\ \A f : Copied(f, U) => Copied(f, DU) BY <1>6, <1>7, OpensAndCopies
  <1> HIDE DEF DU
  <1>9. Opening(file, DC) /\ \A f : Copied(f, DU) \/ Copied(f, C) => Copied(f, DC)
    BY <1>7, <1>8, OpensAndCopies
  <1> HIDE DEF DC
  <1>10. Opening(file, DE) /\ \A f : Copied(f, DC) \/ Copied(f, E) => Copied(f, DE)
    BY <1>7, <1>9, OpensAndCopies
  <1> HIDE DEF DE
  <1>11. Opening(file, DP) /\ \A f : Copied(f, DE) \/ Copied(f, P) => Copied(f, DP)
    BY <1>7, <1>10, OpensAndCopies
  <1>12. H = DP \o A BY <1>2 DEF DU, DC, DE
  <1> HIDE DEF DP
  <1>13. DP \in Seq(Statements) /\ Len(DP) \in Nat /\ Len(DP) >= 2 BY <1>11 DEF Opening
  <1>14. /\ H \in Seq(Statements) /\ Len(H) = Len(DP) + 1
         /\ \A i \in 1..Len(DP) : H[i] = DP[i]
         /\ H[Len(DP) + 1] = A[1]
    <2>1. /\ DP \o A \in Seq(Statements) /\ Len(DP \o A) = Len(DP) + Len(A)
          /\ \A i \in 1..Len(DP) : (DP \o A)[i] = DP[i]
          /\ \A i \in 1..Len(A) : (DP \o A)[Len(DP) + i] = A[i]
      BY <1>5, <1>13, ConcatAt
    <2> QED BY <2>1, <1>5, <1>12
  <1>15. H[1].row = DoorRow /\ H[1].do = "insert" BY <1>11, <1>13, <1>14 DEF Opening
  <1>16. \A f \in file : Copied(f, DP)
    <2>1. \A f \in file : f.table \in {"users", "contracts", "environments", "policies"}
      <3>1. DOMAIN Carried = 1..4 /\ \A i \in 1..4 : Carried[i] \in {"users", "contracts", "environments", "policies"}
        BY DEF Carried
      <3> QED BY <3>1 DEF FileOK
    <2> QED BY <2>1, <1>7, <1>8, <1>9, <1>10, <1>11
  <1>17. ASSUME NEW f \in file PROVE Inner(Copy(f)) /\ Original(Copy(f)) \in file
    <2>1. f \in RowSet /\ f.org = FirstOrg /\ f.table \notin {"orgs", "audit"}
      <3>1. DOMAIN Carried = 1..4 /\ \A i \in 1..4 : Carried[i] \notin {"orgs", "audit"}
        BY DEF Carried
      <3> QED BY <3>1 DEF FileOK
    <2> QED BY <2>1, CopyAndBack DEF Inner
  <1>18. ImportPlan(H)
    <2>1. ASSUME NEW i \in DOMAIN H
          PROVE  /\ H[i].do \in {"insert", "commit", "append"}
                 /\ H[i].do = "insert" => \/ (i = 1 /\ H[i].row = DoorRow)
                                          \/ (Inner(H[i].row) /\ Original(H[i].row) \in file)
                 /\ H[i].do = "commit" => H[i].row = Bad
                 /\ H[i].do = "append" => i = Len(H) /\ H[i].row = ImportRow
      <3>1. i \in 1..(Len(DP) + 1) BY <1>14
      <3>2. CASE i = Len(DP) + 1 BY <3>2, <1>4, <1>14
      <3>3. CASE i = 1 BY <3>3, <1>15
      <3>4. CASE i \in 2..Len(DP)
        <4>1. H[i] = DP[i] BY <3>4, <1>14
        <4> QED BY <4>1, <3>4, <1>11, <1>17 DEF Opening
      <3> QED BY <3>1, <3>2, <3>3, <3>4, <1>13
    <2>2. H[Len(H)].do = "append" BY <1>4, <1>14
    <2> QED BY <2>1, <2>2, <1>14 DEF ImportPlan
  <1>19. ASSUME NEW f \in file PROVE Owed(Copy(f), H, seen, {"commit"})
    <2>1. PICK i \in DOMAIN DP, c \in DOMAIN DP :
            i <= c /\ DP[i].do = "insert" /\ DP[i].row = Copy(f) /\ DP[c].do = "commit"
      BY <1>16 DEF Copied
    <2>2. c \in DOMAIN H /\ i \in 1..c /\ H[i] = DP[i] /\ H[c] = DP[c] BY <2>1, <1>13, <1>14
    <2> QED BY <2>1, <2>2 DEF Owed, Writes
  <1>20. H # <<>> BY <1>13, <1>14
  <1> QED BY <1>15, <1>18, <1>19, <1>20
-------------------------------------------------------------------------------
(* The store: whatever a connection does, nobody loses what it saw, except a   *)
(* process whose connection goes.                                              *)

LEMMA ConnectionsDiffer ==
  /\ None # Server /\ None # Cli /\ Server # Cli
  /\ \A p \in Processes : Connection(p) \in {Server, Cli}
  /\ \A t \in Threads : t # Cli /\ t \in Processes /\ Connection(t) = Server
  /\ Cli \in Processes /\ Connection(Cli) = Cli
  BY PlatformAssumption DEF PlatformAssumption, Connection, Processes, Server, Cli

LEMMA GrowsIsOrder ==
  ASSUME NEW a, NEW b, NEW c
  PROVE  Grows(a, a) /\ (Grows(a, b) /\ Grows(b, c) => Grows(a, c))
  BY DEF Grows

LEMMA SeenIsStored ==
  ASSUME StoreOK, NEW p \in Processes
  PROVE  /\ Visible(p) \in SUBSET RowSet /\ IsFiniteSet(Visible(p))
         /\ Grows(db, Visible(p)) /\ HomeRow \in Visible(p)
  <1>1. HomeRow \in work
    <2>1. HomeRow \in RowSet /\ HomeRow.table = "orgs" BY SpecialRows
    <2>2. Kept(HomeRow, db) BY <2>1, KeptExactly DEF StoreOK
    <2>3. Kept(HomeRow, work) BY <2>1, <2>2 DEF StoreOK, Grows
    <2> QED BY <2>1, <2>3, KeptExactly
  <1> QED BY <1>1, GrowsIsOrder DEF StoreOK, Visible

LEMMA WriteStep ==
  ASSUME StoreOK, NEW p \in Processes, NEW rows \in SUBSET RowSet, IsFiniteSet(rows),
         Grows(Visible(p), rows), Write(p, rows), db' = db, job' \in [Processes -> Jobs]
  PROVE  /\ StoreOK' /\ Grows(db, db') /\ Visible(p)' = rows
         /\ \A o \in Processes : Grows(Visible(o), Visible(o)')
  <1>1. writer \in {None, Connection(p)} /\ writer' = Connection(p) /\ work' = rows
    BY DEF Write, MayWrite
  <1>2. Grows(db, rows) BY SeenIsStored, GrowsIsOrder
  <1>3. Visible(p)' = rows BY <1>1 DEF Visible
  <1>4. StoreOK' BY <1>1, <1>2, ConnectionsDiffer DEF StoreOK
  <1>5. ASSUME NEW o \in Processes PROVE Grows(Visible(o), Visible(o)')
    <2>1. CASE Connection(o) = Connection(p) BY <1>1, <2>1 DEF Visible
    <2>2. CASE Connection(o) # Connection(p)
      <3>1. writer # Connection(o) /\ writer' # Connection(o) BY <1>1, <2>2, ConnectionsDiffer
      <3> QED BY <3>1, GrowsIsOrder DEF Visible
    <2> QED BY <2>1, <2>2
  <1> QED BY <1>3, <1>4, <1>5, GrowsIsOrder

LEMMA CommitStep ==
  ASSUME StoreOK, NEW p \in Processes, db' = Visible(p), job' \in [Processes -> Jobs],
         IF writer = Connection(p) THEN writer' = None /\ UNCHANGED work
                                   ELSE UNCHANGED <<work, writer>>
  PROVE  /\ StoreOK' /\ Grows(db, db') /\ Grows(Visible(p), db') /\ db' \in {db, work} /\ work' = work
         /\ \A o \in Processes : Grows(Visible(o), Visible(o)')
  <1>1. /\ Visible(p) \in SUBSET RowSet /\ IsFiniteSet(Visible(p))
        /\ Grows(db, Visible(p)) /\ HomeRow \in Visible(p)
    BY SeenIsStored
  <1>2. work' = work /\ db' \in {db, work} BY DEF Visible
  <1>3. StoreOK'
    <2>1. Grows(db', work')
      <3>1. CASE writer = Connection(p) BY <3>1, GrowsIsOrder DEF Visible
      <3>2. CASE writer # Connection(p) BY <3>2 DEF Visible, StoreOK
      <3> QED BY <3>1, <3>2
    <2>2. writer' \in {None, Server, Cli} BY DEF StoreOK
    <2> QED BY <1>1, <1>2, <2>1, <2>2 DEF StoreOK
  <1>4. ASSUME NEW o \in Processes PROVE Grows(Visible(o), Visible(o)')
    <2>1. CASE writer = Connection(p)
      <3>1. db' = work /\ writer' = None /\ Visible(o)' = db' BY <2>1, ConnectionsDiffer DEF Visible
      <3>2. Visible(o) \in {db, work} BY DEF Visible
      <3> QED BY <3>1, <3>2, GrowsIsOrder DEF StoreOK
    <2>2. CASE writer # Connection(p)
      <3>1. db' = db /\ Visible(o)' = Visible(o) BY <2>2 DEF Visible
      <3> QED BY <3>1, GrowsIsOrder
    <2> QED BY <2>1, <2>2
  <1> QED BY <1>1, <1>2, <1>3, <1>4, GrowsIsOrder

LEMMA AppendStep ==
  ASSUME StoreOK, NEW p \in Processes, NEW r \in RowSet, MayWrite(p),
         db' = Visible(p) \cup {r}, work' = db', writer' = None, job' \in [Processes -> Jobs]
  PROVE  /\ StoreOK' /\ Grows(db, db') /\ Grows(Visible(p), db')
         /\ \A o \in Processes : Visible(o)' = db' /\ Grows(Visible(o), Visible(o)')
  <1>1. /\ Visible(p) \in SUBSET RowSet /\ IsFiniteSet(Visible(p))
        /\ Grows(db, Visible(p)) /\ HomeRow \in Visible(p)
    BY SeenIsStored
  <1>2. Grows(Visible(p), db') BY <1>1, InsertKeeps
  <1>3. IsFiniteSet(db') BY <1>1, FS_AddElement
  <1>4. StoreOK' BY <1>1, <1>3, GrowsIsOrder DEF StoreOK
  <1>5. ASSUME NEW o \in Processes PROVE Visible(o)' = db' /\ Grows(Visible(o), Visible(o)')
    <2>1. Visible(o)' = db' BY DEF Visible
    <2>2. Visible(o) = Visible(p) \/ Visible(o) = db
      BY ConnectionsDiffer DEF Visible, MayWrite
    <2> QED BY <1>1, <1>2, <2>1, <2>2, GrowsIsOrder
  <1> QED BY <1>1, <1>2, <1>4, <1>5, GrowsIsOrder

LEMMA LoseStep ==
  ASSUME StoreOK, NEW c \in {Server, Cli}, db' = db, job' \in [Processes -> Jobs],
         IF writer = c THEN work' = db /\ writer' = None ELSE UNCHANGED <<work, writer>>
  PROVE  /\ StoreOK' /\ Grows(db, db') /\ work' \in {db, work}
         /\ \A o \in Processes : Connection(o) # c => Visible(o)' = Visible(o)
  <1>1. StoreOK' BY GrowsIsOrder DEF StoreOK
  <1>2. ASSUME NEW o \in Processes, Connection(o) # c PROVE Visible(o)' = Visible(o)
    BY <1>2, ConnectionsDiffer DEF Visible
  <1> QED BY <1>1, <1>2, GrowsIsOrder

(* The jobs. *)

LEMMA DoneStep ==
  ASSUME job \in [Processes -> Jobs], NEW p \in Processes, Done(p), job[p].todo # <<>>
  PROVE  /\ job' \in [Processes -> Jobs]
         /\ job'[p].request = job[p].request /\ job'[p].todo = Tail(job[p].todo)
         /\ \A o \in Processes \ {p} : job'[o] = job[o]
  <1>1. job[p] \in Jobs BY DEF Done
  <1>2. Tail(job[p].todo) \in Seq(Statements) BY <1>1 DEF Jobs
  <1>3. job' = [job EXCEPT ![p] = [job[p] EXCEPT !.todo = Tail(job[p].todo)]] BY DEF Done
  <1>4. [job[p] EXCEPT !.todo = Tail(job[p].todo)] \in Jobs BY <1>1, <1>2 DEF Jobs
  <1> HIDE DEF Jobs
  <1>5. job'[p] = [job[p] EXCEPT !.todo = Tail(job[p].todo)] BY <1>3
  <1>6. job'[p].request = job[p].request /\ job'[p].todo = Tail(job[p].todo) BY <1>1, <1>5 DEF Jobs
  <1> QED BY <1>3, <1>4, <1>6

LEMMA NoJobIsJob == NoJob \in Jobs /\ NoJob.todo = <<>>
  <1>1. <<>> \in Seq(Statements) OBVIOUS
  <1> QED BY <1>1 DEF NoJob, Jobs

LEMMA EndStep ==
  ASSUME job \in [Processes -> Jobs], NEW p \in Processes, Ends(p)
  PROVE  /\ job' \in [Processes -> Jobs] /\ job'[p] = NoJob
         /\ \A o \in Processes \ {p} : job'[o] = job[o]
  BY NoJobIsJob DEF Ends

LEMMA TailAt ==
  ASSUME NEW todo \in Seq(Statements), todo # <<>>
  PROVE  /\ Tail(todo) \in Seq(Statements) /\ Head(todo) = todo[1] /\ 1 \in DOMAIN todo
         /\ Len(todo) \in Nat /\ Len(todo) >= 1 /\ Len(Tail(todo)) = Len(todo) - 1
         /\ DOMAIN todo = 1..Len(todo) /\ DOMAIN Tail(todo) = 1..(Len(todo) - 1)
         /\ \A i \in DOMAIN Tail(todo) : i + 1 \in DOMAIN todo /\ Tail(todo)[i] = todo[i + 1]
  OBVIOUS

LEMMA PlanTail ==
  ASSUME NEW q, NEW todo, ThreadPlan(q, todo), todo # <<>>
  PROVE  ThreadPlan(q, Tail(todo))
  <1>1. todo \in Seq(Statements) BY DEF ThreadPlan
  <1>2. /\ Tail(todo) \in Seq(Statements) /\ Len(todo) \in Nat
        /\ DOMAIN todo = 1..Len(todo) /\ DOMAIN Tail(todo) = 1..(Len(todo) - 1)
        /\ \A i \in DOMAIN Tail(todo) : i + 1 \in DOMAIN todo /\ Tail(todo)[i] = todo[i + 1]
    BY <1>1, TailAt
  <1>3. ASSUME NEW key, PublishPlan(key, todo) PROVE PublishPlan(key, Tail(todo))
    <2>1. \A a, c \in DOMAIN Tail(todo) : a \in Int /\ c \in Int /\ (c + 1 < a + 1 <=> c < a) BY <1>2
    <2> QED BY <1>2, <1>3, <2>1 DEF PublishPlan
  <1>4. q.op = "publish" => PublishPlan(q.key, Tail(todo)) BY <1>3 DEF ThreadPlan
  <1> QED BY <1>2, <1>4 DEF ThreadPlan

LEMMA ImportTail ==
  ASSUME NEW todo, ImportPlan(todo), todo # <<>>
  PROVE  ImportPlan(Tail(todo)) /\ \A i \in DOMAIN Tail(todo) : Tail(todo)[i].row # DoorRow
  <1>1. todo \in Seq(Statements) BY DEF ImportPlan
  <1>2. /\ Tail(todo) \in Seq(Statements) /\ Len(todo) \in Nat /\ Len(Tail(todo)) = Len(todo) - 1
        /\ DOMAIN todo = 1..Len(todo) /\ DOMAIN Tail(todo) = 1..(Len(todo) - 1)
        /\ \A i \in DOMAIN Tail(todo) : i + 1 \in DOMAIN todo /\ Tail(todo)[i] = todo[i + 1]
    BY <1>1, TailAt
  <1>3. ASSUME NEW i \in DOMAIN Tail(todo)
        PROVE  /\ Tail(todo)[i].do \in {"insert", "commit", "append"}
               /\ Tail(todo)[i].do = "insert" => Inner(Tail(todo)[i].row) /\ Original(Tail(todo)[i].row) \in file
               /\ Tail(todo)[i].do = "commit" => Tail(todo)[i].row = Bad
               /\ Tail(todo)[i].do = "append" => i = Len(Tail(todo)) /\ Tail(todo)[i].row = ImportRow
    BY <1>2 DEF ImportPlan
  <1>4. Tail(todo) # <<>> => Tail(todo)[Len(Tail(todo))].do = "append"
    <2> SUFFICES ASSUME Tail(todo) # <<>> PROVE Tail(todo)[Len(Tail(todo))].do = "append" OBVIOUS
    <2>1. Len(Tail(todo)) \in DOMAIN Tail(todo) BY <1>2
    <2>2. Tail(todo)[Len(Tail(todo))] = todo[Len(todo)] BY <1>2, <2>1
    <2> QED BY <2>2 DEF ImportPlan
  <1>5. \A i \in DOMAIN Tail(todo) : Tail(todo)[i].row # DoorRow BY <1>3, SpecialRows DEF Inner
  <1> QED BY <1>2, <1>3, <1>4, <1>5 DEF ImportPlan
-------------------------------------------------------------------------------
(* What a step that is not theirs leaves to the parts of the invariant. *)

LEMMA JobStays ==
  ASSUME JobsOK, NEW t \in Threads, job'[t] = job[t],
         Grows(db, db'), Grows(Visible(t), Visible(t)')
  PROVE  Busy(t)' => ThreadOK(t)'
  <1> SUFFICES ASSUME Busy(t)' PROVE ThreadOK(t)' OBVIOUS
  <1>1. ThreadOK(t) BY DEF JobsOK, Busy
  <1> DEFINE q == job[t].request
             todo == job[t].todo
  <1>2. q \in Requests /\ ThreadPlan(q, todo) BY <1>1 DEF ThreadOK
  <1>3. ASSUME NEW r \in Rows(q) PROVE Safe(r, todo, db', Visible(t)', Committing)
    <2>1. r \in RowSet /\ Safe(r, todo, db, Visible(t), Committing)
      BY <1>1, <1>2, RequestOwes DEF ThreadOK
    <2> QED BY <2>1, StaysSafe
  <1>4. ASSUME q.op = "publish", NEW r \in Rows(q) \ {AuditRow(q.key)}
        PROVE  Safe(r, todo, db', Visible(t)', {"commit"})
    <2>1. r \in RowSet /\ Safe(r, todo, db, Visible(t), {"commit"})
      BY <1>1, <1>2, <1>4, RequestOwes DEF ThreadOK
    <2> QED BY <2>1, StaysSafe
  <1>5. job'[t].request = q /\ job'[t].todo = todo OBVIOUS
  <1> HIDE DEF q, todo
  <1> QED BY <1>2, <1>3, <1>4, <1>5 DEF ThreadOK

\* A thread executes a statement.
LEMMA JobGoesOn ==
  ASSUME NEW t \in Threads, ThreadOK(t), job[t].todo # <<>>,
         job'[t].request = job[t].request, job'[t].todo = Tail(job[t].todo),
         Grows(db, db'), Grows(Visible(t), Visible(t)'),
         Head(job[t].todo).do \in Writes => Kept(Head(job[t].todo).row, Visible(t)'),
         Head(job[t].todo).do \in Committing => Grows(Visible(t), db'),
         Head(job[t].todo).do = "append" => Kept(Head(job[t].todo).row, db')
  PROVE  ThreadOK(t)'
  <1> DEFINE q == job[t].request
             todo == job[t].todo
  <1>1. q \in Requests /\ ThreadPlan(q, todo) BY DEF ThreadOK
  <1>2. todo \in Seq(Statements) BY <1>1 DEF ThreadPlan
  <1>3. ASSUME NEW r \in Rows(q) PROVE Safe(r, Tail(todo), db', Visible(t)', Committing)
    <2>1. r \in RowSet /\ Safe(r, todo, db, Visible(t), Committing) BY <1>1, RequestOwes DEF ThreadOK
    <2>2. Head(todo).do \in Committing => \/ Grows(Visible(t), db') /\ Head(todo).do \notin Writes
                                          \/ Grows(Visible(t), db') /\ Kept(Head(todo).row, db')
      BY DEF Committing, Writes
    <2> HIDE DEF todo, q
    <2> QED BY <1>2, <2>1, <2>2, ExecutedSafe DEF todo
  <1>4. ASSUME q.op = "publish", NEW r \in Rows(q) \ {AuditRow(q.key)}
        PROVE  Safe(r, Tail(todo), db', Visible(t)', {"commit"})
    <2>1. r \in RowSet /\ Safe(r, todo, db, Visible(t), {"commit"})
      BY <1>1, <1>4, RequestOwes DEF ThreadOK
    <2>2. Head(todo).do \in {"commit"} => \/ Grows(Visible(t), db') /\ Head(todo).do \notin Writes
                                          \/ Grows(Visible(t), db') /\ Kept(Head(todo).row, db')
      BY DEF Committing, Writes
    <2> HIDE DEF todo, q
    <2> QED BY <1>2, <2>1, <2>2, ExecutedSafe DEF todo
  <1>5. ThreadPlan(q, Tail(todo)) BY <1>1, PlanTail
  <1>6. job'[t].request = q /\ job'[t].todo = Tail(todo) OBVIOUS
  <1> HIDE DEF q, todo
  <1> QED BY <1>1, <1>3, <1>4, <1>5, <1>6 DEF ThreadOK

LEMMA RowsAreTyped ==
  ASSUME NEW q \in Requests
  PROVE  \A r \in Rows(q) : r \in RowSet
  BY RequestOwes

LEMMA PublishedStays ==
  ASSUME PublishedOK, told' = told, Grows(db, db'),
         \A key : AuditRow(key) \in db' \cup work' => AuditRow(key) \in db \cup work
  PROVE  PublishedOK'
  BY RowsAreTyped DEF PublishedOK, Grows

LEMMA AnsweredStays ==
  ASSUME AnsweredOK, answered' = answered, Grows(db, db')
  PROVE  AnsweredOK'
  BY RowsAreTyped DEF AnsweredOK, Grows

LEMMA CopiesAreTyped ==
  ASSUME FileOK, file # None
  PROVE  \A f \in file : Copy(f) \in RowSet
  BY CopyAndBack DEF FileOK

LEMMA DoorIsKept ==
  ASSUME NEW rows, NEW later, Grows(rows, later), DoorRow \in rows
  PROVE  DoorRow \in later
  BY SpecialRows, KeptExactly DEF Grows

LEMMA ImportedStays ==
  ASSUME ImportedOK, FileOK, file' = file, Grows(db, db'),
         ImportRow \in db' \cup work' => ImportRow \in db \cup work
  PROVE  ImportedOK'
  BY CopiesAreTyped, DoorIsKept DEF ImportedOK, Grows

LEMMA CliStays ==
  ASSUME CliOK, FileOK, job'[Cli] = job[Cli], file' = file,
         Grows(db, db'), Grows(Visible(Cli), Visible(Cli)')
  PROVE  CliOK'
  <1> SUFFICES ASSUME Busy(Cli)' PROVE CliOK' BY DEF CliOK
  <1> DEFINE todo == job[Cli].todo
  <1>1. Busy(Cli) /\ job'[Cli].todo = todo BY DEF Busy
  <1>2. CASE Reading(todo) BY <1>1, <1>2 DEF CliOK, ExportOK, Reading
  <1>3. CASE ~Reading(todo)
    <2>1. ImportOK(todo) BY <1>1, <1>3 DEF CliOK
    <2>2. \A f \in file : Safe(Copy(f), todo, db', Visible(Cli)', {"commit"})
      <3> SUFFICES ASSUME NEW f \in file PROVE Safe(Copy(f), todo, db', Visible(Cli)', {"commit"}) OBVIOUS
      <3>1. Copy(f) \in RowSet /\ Safe(Copy(f), todo, db, Visible(Cli), {"commit"})
        BY <2>1, CopiesAreTyped DEF ImportOK
      <3> HIDE DEF todo
      <3> QED BY <3>1, StaysSafe
    <2>3. ImportPlan(todo)' <=> ImportPlan(todo) BY DEF ImportPlan
    <2>4. ImportOK(job[Cli].todo)' BY <1>1, <2>1, <2>2, <2>3 DEF ImportOK, ImportPlan
    <2> QED BY <1>1, <1>3, <2>4 DEF CliOK, Reading
  <1> QED BY <1>2, <1>3

\* An import executes a statement.
LEMMA ImportGoesOn ==
  ASSUME FileOK, file' = file, ImportOK(job[Cli].todo), job[Cli].todo # <<>>,
         job'[Cli].todo = Tail(job[Cli].todo),
         Grows(db, db'), Grows(Visible(Cli), Visible(Cli)'),
         Head(job[Cli].todo).do \in Writes => Kept(Head(job[Cli].todo).row, Visible(Cli)'),
         Head(job[Cli].todo).do = "commit" => Grows(Visible(Cli), db')
  PROVE  CliOK'
  <1> DEFINE todo == job[Cli].todo
  <1>1. ImportPlan(todo) /\ file # None /\ FirstOrg # Restored BY DEF ImportOK
  <1>2. todo \in Seq(Statements) BY <1>1 DEF ImportPlan
  <1>3. ImportPlan(Tail(todo)) BY <1>1, ImportTail
  <1>4. ASSUME NEW f \in file PROVE Safe(Copy(f), Tail(todo), db', Visible(Cli)', {"commit"})
    <2>1. Copy(f) \in RowSet /\ Safe(Copy(f), todo, db, Visible(Cli), {"commit"})
      BY <1>1, CopiesAreTyped DEF ImportOK
    <2>2. Head(todo).do \in {"commit"} => \/ Grows(Visible(Cli), db') /\ Head(todo).do \notin Writes
                                          \/ Grows(Visible(Cli), db') /\ Kept(Head(todo).row, db')
      BY DEF Writes
    <2> HIDE DEF todo
    <2> QED BY <1>2, <2>1, <2>2, ExecutedSafe DEF todo
  <1>5. ~Reading(Tail(todo))
    <2>1. Tail(todo) # <<>> => 1 \in DOMAIN Tail(todo) BY <1>2, TailAt
    <2> QED BY <1>3, <2>1 DEF Reading, ImportPlan
  <1>6. PICK rest : rest = Tail(todo) OBVIOUS
  <1>7. ImportPlan(rest)' BY <1>3, <1>6 DEF ImportPlan
  <1>8. ImportOK(rest)' BY <1>1, <1>4, <1>6, <1>7 DEF ImportOK
  <1>9. ImportOK(job[Cli].todo)' BY <1>6, <1>8 DEF ImportOK, ImportPlan
  <1> QED BY <1>5, <1>9 DEF CliOK, Reading

LEMMA DoorStays ==
  ASSUME DoorOK, file' = file,
         \A S \in {db', work'} : \E T \in {db, work} : T \subseteq S /\ \A s \in S \ T : ~Inner(s),
         \A t \in Threads : Inside(t)' => Inside(t) /\ Grows(Visible(t), Visible(t)'),
         Owned' => /\ Owned
                   /\ Grows(Visible(Cli), Visible(Cli)') \/ DoorRow \in Visible(Cli)'
  PROVE  DoorOK'
  <1> SUFFICES ASSUME FirstOrg # Restored PROVE DoorOK' BY DEF DoorOK
  <1>1. \A t \in Threads : Inside(t)' => DoorRow \in Visible(t)' BY DoorIsKept DEF DoorOK
  <1>2. ASSUME NEW S \in {db', work'}, NEW s \in S, Inner(s)
        PROVE  DoorRow \in S /\ s \in db \cup work
    <2>1. PICK T \in {db, work} : T \subseteq S /\ \A x \in S \ T : ~Inner(x) OBVIOUS
    <2>2. s \in T BY <1>2, <2>1
    <2>3. DoorRow \in T BY <1>2, <2>2 DEF DoorOK
    <2> QED BY <2>1, <2>2, <2>3
  <1>3. Owned' => /\ DoorRow \in Visible(Cli)'
                  /\ \A t \in Threads : ~Inside(t)'
                  /\ \A s \in db' \cup work' : Inner(s) => Original(s) \in file
    <2> SUFFICES ASSUME Owned' PROVE /\ DoorRow \in Visible(Cli)'
                                     /\ \A t \in Threads : ~Inside(t)'
                                     /\ \A s \in db' \cup work' : Inner(s) => Original(s) \in file
      OBVIOUS
    <2>1. DoorRow \in Visible(Cli)' BY DoorIsKept DEF DoorOK
    <2>2. \A t \in Threads : ~Inside(t)' BY DEF DoorOK
    <2>3. \A s \in db' \cup work' : Inner(s) => Original(s) \in file BY <1>2 DEF DoorOK
    <2> QED BY <2>1, <2>2, <2>3
  <1> QED BY <1>1, <1>2, <1>3 DEF DoorOK

\* The organization a process is inside: only its own steps lead into it.
LEMMA InsideStays ==
  ASSUME NEW t \in Threads, job'[t] = job[t] \/ job'[t] = NoJob
  PROVE  Inside(t)' => Inside(t) /\ job'[t] = job[t]
  BY DEF Inside, Busy

LEMMA InsideGoesOn ==
  ASSUME NEW t \in Threads, Busy(t), job[t].todo \in Seq(Statements), job[t].todo # <<>>,
         job'[t].todo = Tail(job[t].todo), Inside(t)'
  PROVE  Inside(t) \/ job[t].todo[1].row = DoorRow
  <1> DEFINE todo == job[t].todo
  <1>1. PICK i \in DOMAIN Tail(todo) :
          /\ Tail(todo)[i].do = "insert" /\ Inner(Tail(todo)[i].row)
          /\ \A j \in 1..(i - 1) : Tail(todo)[j].row # DoorRow
    BY DEF Inside
  <1>2. /\ Len(todo) \in Nat /\ DOMAIN Tail(todo) = 1..(Len(todo) - 1)
        /\ \A k \in DOMAIN Tail(todo) : k + 1 \in DOMAIN todo /\ Tail(todo)[k] = todo[k + 1]
    BY TailAt
  <1> HIDE DEF todo
  <1>3. i \in Nat /\ i + 1 \in DOMAIN todo /\ todo[i + 1] = Tail(todo)[i] BY <1>1, <1>2
  <1>4. ASSUME todo[1].row # DoorRow, NEW j \in 1..((i + 1) - 1) PROVE todo[j].row # DoorRow
    <2>1. CASE j = 1 BY <2>1, <1>4
    <2>2. CASE j # 1
      <3>1. j - 1 \in 1..(i - 1) /\ j - 1 \in DOMAIN Tail(todo) BY <2>2, <1>1, <1>2, <1>3
      <3>2. Tail(todo)[j - 1] = todo[j] BY <3>1, <1>2
      <3> QED BY <3>1, <3>2, <1>1
    <2> QED BY <2>1, <2>2
  <1> QED BY <1>1, <1>3, <1>4 DEF Inside, todo

LEMMA AtTheDoor ==
  ASSUME NEW t \in Threads, Busy(t), job[t].todo \in Seq(Statements), job[t].todo # <<>>,
         job[t].todo[1].do = "insert", Inner(job[t].todo[1].row)
  PROVE  Inside(t)
  <1>1. 1 \in DOMAIN job[t].todo /\ 1..(1 - 1) = {} BY TailAt
  <1> QED BY <1>1 DEF Inside
-------------------------------------------------------------------------------
(* The steps. *)

\* Processes end, or see no less than before; the rows are what one saw.
LEMMA QuietStep ==
  ASSUME IInv, StoreOK', Grows(db, db'), db' \in {db, work}, work' \in {db, work},
         file' = file, told' = told, AnsweredOK',
         \A p \in Processes : \/ job'[p] = NoJob
                              \/ job'[p] = job[p] /\ Grows(Visible(p), Visible(p)')
  PROVE  IInv'
  <1>1. FileOK' BY DEF IInv, FileOK
  <1>2. JobsOK'
    <2> SUFFICES ASSUME NEW t \in Threads, Busy(t)' PROVE ThreadOK(t)' BY DEF JobsOK
    <2>1. job'[t] = job[t] /\ Grows(Visible(t), Visible(t)') BY ConnectionsDiffer DEF Busy
    <2> QED BY <2>1, JobStays DEF IInv
  <1>3. PublishedOK' BY PublishedStays DEF IInv
  <1>4. CliOK'
    <2>1. CASE job'[Cli] = NoJob BY <2>1 DEF CliOK, Busy
    <2>2. CASE job'[Cli] # NoJob BY <2>2, CliStays, ConnectionsDiffer DEF IInv
    <2> QED BY <2>1, <2>2
  <1>5. DoorOK'
    <2>1. \A t \in Threads : Inside(t)' => Inside(t) /\ Grows(Visible(t), Visible(t)')
      <3> SUFFICES ASSUME NEW t \in Threads, Inside(t)' PROVE Inside(t) /\ Grows(Visible(t), Visible(t)')
        OBVIOUS
      <3>1. job'[t] # NoJob BY DEF Inside, Busy
      <3>2. job'[t] = job[t] /\ Grows(Visible(t), Visible(t)') BY <3>1, ConnectionsDiffer
      <3> QED BY <3>2, InsideStays
    <2>2. ImportRow \in db' \cup work' => ImportRow \in db \cup work OBVIOUS
    <2>3. ASSUME Owned' PROVE /\ Owned
                              /\ Grows(Visible(Cli), Visible(Cli)') \/ DoorRow \in Visible(Cli)'
      <3>1. Owned
        <4>1. CASE Importing'
          <5>1. job'[Cli] # NoJob BY <4>1 DEF Importing, Busy
          <5>2. job'[Cli] = job[Cli] BY <5>1, ConnectionsDiffer
          <5> QED BY <4>1, <5>2 DEF Importing, Busy, Owned
        <4>2. CASE ~Importing' BY <2>2, <2>3, <4>2 DEF Owned
        <4> QED BY <4>1, <4>2
      <3>2. Grows(Visible(Cli), Visible(Cli)') \/ DoorRow \in Visible(Cli)'
        <4>1. CASE job'[Cli] # NoJob BY <4>1, ConnectionsDiffer
        <4>2. CASE job'[Cli] = NoJob
          <5>1. ~Importing' BY <4>2 DEF Importing, Busy
          <5>2. DoorRow \in db BY <2>2, <2>3, <5>1 DEF Owned, IInv, ImportedOK
          <5>3. DoorRow \in db' /\ DoorRow \in work' BY <5>2, DoorIsKept DEF StoreOK
          <5> QED BY <5>3 DEF Visible
        <4> QED BY <4>1, <4>2
      <3> QED BY <3>1, <3>2
    <2>4. \A S \in {db', work'} : \E T \in {db, work} : T \subseteq S /\ \A s \in S \ T : ~Inner(s)
      OBVIOUS
    <2>5. DoorOK BY DEF IInv
    <2> QED BY <2>1, <2>3, <2>4, <2>5, DoorStays
  <1>6. ImportedOK' BY ImportedStays DEF IInv
  <1> QED BY <1>1, <1>2, <1>3, <1>4, <1>5, <1>6 DEF IInv
\* What is known of a process that has a statement to execute.
LEMMA HeadIs ==
  ASSUME IInv, NEW p \in Processes, Busy(p), job[p].todo # <<>>
  PROVE  /\ job \in [Processes -> Jobs] /\ job[p].todo \in Seq(Statements)
         /\ Head(job[p].todo) = job[p].todo[1] /\ 1 \in DOMAIN job[p].todo
         /\ Head(job[p].todo) \in Statements
         /\ Head(job[p].todo).row \in RowSet /\ Head(job[p].todo).do \in Kinds
         /\ p \in Threads => ThreadOK(p) /\ job[p].request \in Requests
                             /\ ThreadPlan(job[p].request, job[p].todo)
         /\ p = Cli /\ Head(job[p].todo).do # "read"
            => /\ ImportOK(job[Cli].todo) /\ ImportPlan(job[Cli].todo)
               /\ Head(job[p].todo).do \in {"insert", "commit", "append"}
         /\ p \in Threads \/ p = Cli
  <1>1. job \in [Processes -> Jobs] BY DEF IInv, StoreOK
  <1>2. job[p].todo \in Seq(Statements) BY <1>1 DEF Jobs
  <1>3. /\ Head(job[p].todo) = job[p].todo[1] /\ 1 \in DOMAIN job[p].todo
        /\ Head(job[p].todo) \in Statements
    BY <1>2, TailAt
  <1>4. Head(job[p].todo).row \in RowSet /\ Head(job[p].todo).do \in Kinds BY <1>3 DEF Statements
  <1>5. p \in Threads \/ p = Cli BY DEF Processes
  <1>6. p \in Threads => ThreadOK(p) BY DEF IInv, JobsOK
  <1>7. ASSUME p = Cli, Head(job[p].todo).do # "read"
        PROVE  /\ ImportOK(job[Cli].todo) /\ ImportPlan(job[Cli].todo)
               /\ Head(job[p].todo).do \in {"insert", "commit", "append"}
    <2>1. ImportOK(job[Cli].todo) BY <1>3, <1>7 DEF IInv, CliOK, Reading
    <2>2. ImportPlan(job[Cli].todo) BY <2>1 DEF ImportOK
    <2> QED BY <2>1, <2>2, <1>3, <1>7 DEF ImportPlan
  <1> QED BY <1>1, <1>2, <1>3, <1>4, <1>5, <1>6, <1>7 DEF ThreadOK

LEMMA ExecuteStep ==
  ASSUME IInv, NEW p \in Processes, Execute(p), NEW s, s = Head(job[p].todo)
  PROVE  /\ Busy(p) /\ job[p].todo # <<>> /\ s.row \in RowSet
         /\ s.do \in {"insert", "upsert"} /\ (s.do = "insert" => ~Violates(p, s.row))
         /\ s.do = "upsert" => p \in Threads /\ s.row.org = FirstOrg
         /\ StoreOK' /\ db' = db /\ Grows(db, db') /\ MayWrite(p)
         /\ Visible(p)' = work' /\ work' \subseteq Visible(p) \cup {s.row} /\ Kept(s.row, work')
         /\ \A o \in Processes : Grows(Visible(o), Visible(o)')
         /\ job'[p].request = job[p].request /\ job'[p].todo = Tail(job[p].todo)
         /\ \A o \in Processes \ {p} : job'[o] = job[o]
         /\ UNCHANGED <<file, answered, told>>
  <1> DEFINE r == s.row
  <1>1. Busy(p) /\ job[p].todo # <<>> /\ s.do \in {"insert", "upsert"} BY DEF Execute, At, Next_
  <1>2. /\ job \in [Processes -> Jobs] /\ s \in Statements /\ r \in RowSet
        /\ p \in Threads => ThreadPlan(job[p].request, job[p].todo)
        /\ s = job[p].todo[1] /\ 1 \in DOMAIN job[p].todo
        /\ p = Cli => s.do = "insert" /\ ImportPlan(job[Cli].todo)
        /\ p \in Threads \/ p = Cli
    BY <1>1, HeadIs
  <1>3. s.do = "upsert" => /\ p \in Threads /\ r.org = FirstOrg
                           /\ r.table \in {"environments", "policies", "workers"}
    BY <1>2 DEF ThreadPlan
  <1>4. Visible(p) \in SUBSET RowSet /\ IsFiniteSet(Visible(p)) BY SeenIsStored DEF IInv
  <1>5. PICK rows : /\ Write(p, rows) /\ rows \subseteq Visible(p) \cup {r}
                    /\ Grows(Visible(p), rows) /\ Kept(r, rows)
                    /\ s.do = "insert" => ~Violates(p, r)
    <2>1. CASE s.do = "insert"
      <3>1. ~Violates(p, r) /\ Write(p, Visible(p) \cup {r}) BY <2>1 DEF Execute, At, Next_
      <3> QED BY <3>1, <1>4, InsertKeeps
    <2>2. CASE s.do = "upsert"
      <3>1. Write(p, {other \in Visible(p) : Id(other) # Id(r)} \cup {r}) BY <2>2 DEF Execute, At, Next_
      <3>2. /\ Grows(Visible(p), {other \in Visible(p) : Id(other) # Id(r)} \cup {r})
            /\ Kept(r, {other \in Visible(p) : Id(other) # Id(r)} \cup {r})
        BY <1>2, <1>3, <1>4, <2>2, UpsertKeeps
      <3> QED BY <2>2, <3>1, <3>2
    <2> QED BY <1>1, <2>1, <2>2
  <1>6. rows \in SUBSET RowSet /\ IsFiniteSet(rows)
    <2>1. IsFiniteSet(Visible(p) \cup {r}) BY <1>4, FS_AddElement
    <2> QED BY <1>2, <1>4, <1>5, <2>1, FS_Subset
  <1>7. Done(p) /\ db' = db /\ UNCHANGED <<file, answered, told>> BY DEF Execute
  <1>8. /\ job' \in [Processes -> Jobs]
        /\ job'[p].request = job[p].request /\ job'[p].todo = Tail(job[p].todo)
        /\ \A o \in Processes \ {p} : job'[o] = job[o]
    BY <1>1, <1>2, <1>7, DoneStep
  <1>9. /\ StoreOK' /\ Grows(db, db') /\ Visible(p)' = rows
        /\ \A o \in Processes : Grows(Visible(o), Visible(o)')
    BY <1>5, <1>6, <1>7, <1>8, WriteStep DEF IInv
  <1>10. work' = rows /\ MayWrite(p) BY <1>5 DEF Write
  <1> QED BY <1>1, <1>2, <1>3, <1>5, <1>7, <1>8, <1>9, <1>10

\* A thread inserts or replaces a row.
LEMMA ThreadExecutes ==
  ASSUME IInv, NEW t \in Threads, Execute(t)
  PROVE  IInv'
  <1> DEFINE todo == job[t].todo
  <1>1. PICK s : s = Head(todo) OBVIOUS
  <1> DEFINE r == s.row
  <1>2. t \in Processes /\ t # Cli /\ Cli \in Processes /\ Connection(t) = Server /\ Connection(Cli) = Cli
        /\ Server # Cli /\ None # Server /\ None # Cli
    BY ConnectionsDiffer
  <1>3. /\ Busy(t) /\ todo # <<>> /\ r \in RowSet
        /\ s.do \in {"insert", "upsert"} /\ (s.do = "insert" => ~Violates(t, r))
        /\ s.do = "upsert" => r.org = FirstOrg
        /\ StoreOK' /\ db' = db /\ Grows(db, db') /\ MayWrite(t)
        /\ Visible(t)' = work' /\ work' \subseteq Visible(t) \cup {r} /\ Kept(r, work')
        /\ \A o \in Processes : Grows(Visible(o), Visible(o)')
        /\ job'[t].request = job[t].request /\ job'[t].todo = Tail(todo)
        /\ \A o \in Processes \ {t} : job'[o] = job[o]
        /\ file' = file /\ answered' = answered /\ told' = told
    BY <1>1, <1>2, ExecuteStep
  <1>4. /\ todo \in Seq(Statements) /\ s = todo[1] /\ 1 \in DOMAIN todo
        /\ ThreadOK(t) /\ ThreadPlan(job[t].request, todo)
    BY <1>1, <1>2, <1>3, HeadIs
  <1> HIDE DEF todo
  <1>5. r.table # "audit" /\ (r = DoorRow => s.do = "insert") BY <1>3, <1>4 DEF ThreadPlan
  <1>6. Visible(t) \in {db, work} BY DEF Visible
  <1>7. FileOK' BY <1>3 DEF IInv, FileOK
  <1>8. JobsOK'
    <2> SUFFICES ASSUME NEW o \in Threads, Busy(o)' PROVE ThreadOK(o)' BY DEF JobsOK
    <2>1. CASE o # t
      <3>1. o \in Processes \ {t} BY <2>1, ConnectionsDiffer
      <3> QED BY <3>1, <1>3, JobStays DEF IInv
    <2>2. CASE o = t
      <3>1. s.do \notin Committing BY <1>3 DEF Committing
      <3>2. s.do # "append" BY <1>3
      <3>3. Kept(r, Visible(t)') BY <1>3
      <3>4. s = Head(job[t].todo) BY <1>1 DEF todo
      <3> QED BY <2>2, <1>2, <1>3, <1>4, <3>1, <3>2, <3>3, <3>4, JobGoesOn DEF todo
    <2> QED BY <2>1, <2>2
  <1>9. \A x : x \in db' \cup work' /\ x.table = "audit" => x \in db \cup work BY <1>3, <1>5, <1>6
  <1>10. PublishedOK' BY <1>3, <1>9, SpecialRows, PublishedStays DEF IInv
  <1>11. AnsweredOK' BY <1>3, AnsweredStays DEF IInv
  <1>12. CliOK'
    <2>1. Cli \in Processes \ {t} BY <1>2
    <2> QED BY <2>1, <1>3, CliStays DEF IInv
  <1>13. ImportedOK' BY <1>3, <1>9, SpecialRows, ImportedStays DEF IInv
  <1>14. DoorOK'
    <2> SUFFICES ASSUME FirstOrg # Restored PROVE DoorOK' BY DEF DoorOK
    <2> USE DEF IInv
    <2>1. Inner(r) => Inside(t) /\ s.do = "insert"
      <3> SUFFICES ASSUME Inner(r) PROVE Inside(t) /\ s.do = "insert" OBVIOUS
      <3>1. s.do = "insert" BY <1>3 DEF Inner
      <3> QED BY <3>1, <1>3, <1>4, AtTheDoor DEF todo
    <2>2. Inside(t)' => Inside(t) \/ r = DoorRow BY <1>3, <1>4, InsideGoesOn DEF todo
    <2>3. \A o \in Threads : o # t /\ Inside(o)' => Inside(o) BY <1>3, InsideStays, ConnectionsDiffer
    <2>4. DoorRow \in Visible(t) => DoorRow \in work' BY <1>2, <1>3, DoorIsKept
    <2>5. \A o \in Threads : Inside(o)' => DoorRow \in Visible(o)'
      <3> SUFFICES ASSUME NEW o \in Threads, Inside(o)' PROVE DoorRow \in Visible(o)' OBVIOUS
      <3>1. CASE Inside(o)
        <4>1. DoorRow \in Visible(o) BY <3>1 DEF DoorOK
        <4>2. Grows(Visible(o), Visible(o)') BY <1>3, ConnectionsDiffer
        <4> QED BY <4>1, <4>2, DoorIsKept
      <3>2. CASE ~Inside(o)
        <4>1. o = t /\ r = DoorRow BY <3>2, <2>2, <2>3
        <4>2. DoorRow \in work' BY <4>1, <1>3, SpecialRows, KeptExactly
        <4> QED BY <4>1, <4>2, <1>3
      <3> QED BY <3>1, <3>2
    <2>6. ASSUME NEW x \in work', Inner(x) PROVE DoorRow \in work' /\ (x \in db \cup work \/ Inside(t))
      <3>1. CASE x \in Visible(t)
        <4>1. DoorRow \in Visible(t) BY <3>1, <2>6, <1>6 DEF DoorOK
        <4> QED BY <4>1, <3>1, <2>4, <1>6
      <3>2. CASE x = r
        <4>1. Inside(t) BY <2>1, <2>6, <3>2
        <4> QED BY <4>1, <2>4 DEF DoorOK
      <3> QED BY <3>1, <3>2, <1>3
    <2>7. (\E x \in db' : Inner(x)) => DoorRow \in db' BY <1>3 DEF DoorOK
    <2>8. ASSUME Owned' PROVE Owned
      <3>1. job'[Cli] = job[Cli] BY <1>2, <1>3
      <3>2. ImportRow \in db' \cup work' => ImportRow \in db \cup work BY <1>9, SpecialRows
      <3> QED BY <3>1, <3>2, <2>8 DEF Owned, Importing, Busy
    <2>9. ASSUME Owned'
          PROVE  /\ DoorRow \in Visible(Cli)'
                 /\ \A o \in Threads : ~Inside(o)'
                 /\ \A x \in db' \cup work' : Inner(x) => Original(x) \in file'
      <3>1. /\ DoorRow \in Visible(Cli) /\ \A o \in Threads : ~Inside(o)
            /\ \A x \in db \cup work : Inner(x) => Original(x) \in file
        BY <2>8, <2>9 DEF DoorOK
      <3>2. DoorRow \in Visible(Cli)' BY <3>1, <1>2, <1>3, DoorIsKept
      <3>3. DoorRow \in Visible(t)
        <4>1. writer \in {None, Server} BY <1>2, <1>3 DEF MayWrite
        <4>2. DoorRow \in db BY <4>1, <3>1, <1>2 DEF Visible
        <4> QED BY <4>2, DoorIsKept, SeenIsStored, <1>2
      <3>4. r # DoorRow
        <4> SUFFICES ASSUME r = DoorRow PROVE FALSE OBVIOUS
        <4>1. s.do = "insert" /\ ~Violates(t, r) BY <1>3, <1>5
        <4>2. DoorRow.table \in Unique BY SpecialRows DEF Unique
        <4> QED BY <4>1, <4>2, <3>3 DEF Violates
      <3>5. \A o \in Threads : ~Inside(o)' BY <3>1, <3>4, <2>2, <2>3
      <3>6. \A x \in db' \cup work' : Inner(x) => Original(x) \in file' BY <3>1, <2>6, <1>3
      <3> QED BY <3>2, <3>5, <3>6
    <2>10. \A x \in work' : Inner(x) => DoorRow \in work' BY <2>6
    <2> QED BY <2>5, <2>7, <2>9, <2>10 DEF DoorOK
  <1> QED BY <1>3, <1>7, <1>8, <1>10, <1>11, <1>12, <1>13, <1>14 DEF IInv
\* The command line inserts a row: the organization's, which keeps the requests
\* out from then on, or a copy.
LEMMA CliExecutes ==
  ASSUME IInv, Execute(Cli)
  PROVE  IInv'
  <1> DEFINE todo == job[Cli].todo
  <1>1. PICK s : s = Head(todo) OBVIOUS
  <1> DEFINE r == s.row
  <1>2. /\ Cli \in Processes /\ Connection(Cli) = Cli /\ Server # Cli /\ None # Server /\ None # Cli
        /\ \A o \in Threads : o # Cli /\ o \in Processes \ {Cli} /\ Connection(o) = Server
    BY ConnectionsDiffer
  <1>3. /\ Busy(Cli) /\ todo # <<>> /\ r \in RowSet
        /\ s.do \in {"insert", "upsert"} /\ (s.do = "insert" => ~Violates(Cli, r))
        /\ StoreOK' /\ db' = db /\ Grows(db, db') /\ MayWrite(Cli)
        /\ Visible(Cli)' = work' /\ work' \subseteq Visible(Cli) \cup {r} /\ Kept(r, work')
        /\ \A o \in Processes : Grows(Visible(o), Visible(o)')
        /\ job'[Cli].todo = Tail(todo)
        /\ \A o \in Processes \ {Cli} : job'[o] = job[o]
        /\ file' = file /\ answered' = answered /\ told' = told
    BY <1>1, <1>2, ExecuteStep
  <1>4. /\ todo \in Seq(Statements) /\ s = todo[1] /\ 1 \in DOMAIN todo /\ s.do = "insert"
        /\ ImportOK(todo) /\ ImportPlan(todo)
    BY <1>1, <1>2, <1>3, HeadIs
  <1>5. r = DoorRow \/ (Inner(r) /\ Original(r) \in file) BY <1>4 DEF ImportPlan
  <1>6. file # None /\ FirstOrg # Restored BY <1>4 DEF ImportOK
  <1>7. FileOK' BY <1>3 DEF IInv, FileOK
  <1>8. CliOK'
    <2>1. s = Head(job[Cli].todo) /\ s.do # "commit" BY <1>1, <1>4
    <2>2. Kept(s.row, Visible(Cli)') BY <1>3
    <2> QED BY <1>2, <1>3, <1>4, <2>1, <2>2, ImportGoesOn DEF IInv
  <1> HIDE DEF todo
  <1>9. r.table # "audit" BY <1>5, SpecialRows DEF Inner
  <1>10. Visible(Cli) \in {db, work} BY DEF Visible
  <1>11. JobsOK'
    <2> SUFFICES ASSUME NEW o \in Threads, Busy(o)' PROVE ThreadOK(o)' BY DEF JobsOK
    <2>1. job'[o] = job[o] /\ Grows(Visible(o), Visible(o)') BY <1>2, <1>3
    <2> QED BY <2>1, <1>3, JobStays DEF IInv
  <1>12. \A x : x \in db' \cup work' /\ x.table = "audit" => x \in db \cup work BY <1>3, <1>9, <1>10
  <1>13. PublishedOK' BY <1>3, <1>12, SpecialRows, PublishedStays DEF IInv
  <1>14. AnsweredOK' BY <1>3, AnsweredStays DEF IInv
  <1>15. ImportedOK' BY <1>3, <1>12, SpecialRows, ImportedStays DEF IInv
  <1>16. DoorOK'
    <2> USE DEF IInv
    <2>1. \A o \in Threads : Inside(o)' => Inside(o) /\ DoorRow \in Visible(o)
      BY <1>2, <1>3, <1>6, InsideStays DEF DoorOK
    <2>2. \A o \in Threads : DoorRow \in Visible(o) => DoorRow \in Visible(o)'
      BY <1>2, <1>3, DoorIsKept
    <2>3. CASE r = DoorRow
      <3>1. DoorRow \notin Visible(Cli)
        <4>1. ~Violates(Cli, DoorRow) BY <1>3, <1>4, <2>3
        <4>2. DoorRow.table \in Unique BY SpecialRows DEF Unique
        <4> QED BY <4>1, <4>2 DEF Violates
      <3>2. DoorRow \notin db BY <3>1, <1>2, DoorIsKept, SeenIsStored
      <3>3. \A x \in db \cup Visible(Cli) : ~Inner(x) BY <3>1, <3>2, <1>6, <1>10 DEF DoorOK
      <3>4. ~Inner(DoorRow) BY SpecialRows DEF Inner
      <3>5. \A x \in db' \cup work' : ~Inner(x) BY <1>3, <3>3, <3>4, <2>3
      <3>6. \A o \in Threads : ~Inside(o)'
        <4> SUFFICES ASSUME NEW o \in Threads, Inside(o)' PROVE FALSE OBVIOUS
        <4>1. DoorRow \in Visible(o) BY <2>1
        <4>2. writer # Server BY <1>2, <1>3 DEF MayWrite
        <4>3. Visible(o) = db BY <1>2, <4>2 DEF Visible
        <4> QED BY <4>1, <4>3, <3>2
      <3>7. DoorRow \in Visible(Cli)' BY <1>3, <2>3, SpecialRows, KeptExactly
      <3> QED BY <3>5, <3>6, <3>7 DEF DoorOK
    <2>4. CASE r # DoorRow
      <3>1. Owned BY <2>4, <1>3, <1>4 DEF Owned, Importing, Reading, todo
      <3>2. /\ DoorRow \in Visible(Cli) /\ \A o \in Threads : ~Inside(o)
            /\ \A x \in db \cup work : Inner(x) => Original(x) \in file
        BY <3>1, <1>6 DEF DoorOK
      <3>3. DoorRow \in work' /\ DoorRow \in Visible(Cli)' BY <3>2, <1>2, <1>3, DoorIsKept
      <3>4. \A x \in db' \cup work' : Inner(x) => Original(x) \in file'
        BY <3>2, <1>3, <1>5, <1>10, <2>4
      <3>5. \A o \in Threads : ~Inside(o)' BY <3>2, <2>1
      <3>6. (\E x \in db' : Inner(x)) => DoorRow \in db' BY <1>3, <1>6 DEF DoorOK
      <3> QED BY <3>3, <3>4, <3>5, <3>6 DEF DoorOK
    <2> QED BY <2>3, <2>4
  <1> QED BY <1>3, <1>7, <1>8, <1>11, <1>13, <1>14, <1>15, <1>16 DEF IInv

\* A step that executes the next statement of a process, other than a write.
LEMMA Committed ==
  ASSUME IInv, NEW p \in Processes, CommitRows(p)
  PROVE  IInv'
  <1>1. PICK s : s = Head(job[p].todo) OBVIOUS
  <1>2. Busy(p) /\ job[p].todo # <<>> /\ s.do = "commit" /\ Done(p)
    BY <1>1 DEF CommitRows, At, Next_
  <1>3. /\ job \in [Processes -> Jobs] /\ job[p].todo \in Seq(Statements)
        /\ s = job[p].todo[1] /\ 1 \in DOMAIN job[p].todo
        /\ p \in Threads => ThreadOK(p) /\ ThreadPlan(job[p].request, job[p].todo)
        /\ p = Cli => ImportOK(job[Cli].todo) /\ ImportPlan(job[Cli].todo)
        /\ p \in Threads \/ p = Cli
    BY <1>1, <1>2, HeadIs
  <1>4. /\ job' \in [Processes -> Jobs]
        /\ job'[p].request = job[p].request /\ job'[p].todo = Tail(job[p].todo)
        /\ \A o \in Processes \ {p} : job'[o] = job[o]
    BY <1>2, <1>3, DoneStep
  <1>5. /\ StoreOK' /\ Grows(db, db') /\ Grows(Visible(p), db') /\ db' \in {db, work} /\ work' = work
        /\ \A o \in Processes : Grows(Visible(o), Visible(o)')
    BY <1>4, CommitStep DEF IInv, CommitRows
  <1>6. file' = file /\ answered' = answered /\ told' = told BY DEF CommitRows
  <1>7. s.row # DoorRow BY <1>2, <1>3, SpecialRows DEF ThreadPlan, ImportPlan
  <1>8. s.do \notin Writes /\ s.do # "append" BY <1>2 DEF Writes
  <1>9. FileOK' BY <1>6 DEF IInv, FileOK
  <1>10. JobsOK'
    <2> SUFFICES ASSUME NEW o \in Threads, Busy(o)' PROVE ThreadOK(o)' BY DEF JobsOK
    <2>1. CASE o # p
      <3>1. job'[o] = job[o] /\ Grows(Visible(o), Visible(o)') BY <2>1, <1>4, <1>5, ConnectionsDiffer
      <3> QED BY <3>1, <1>5, JobStays DEF IInv
    <2>2. CASE o = p
      <3>1. ThreadOK(o) BY <2>2, <1>3
      <3> QED BY <2>2, <3>1, <1>1, <1>2, <1>4, <1>5, <1>8, JobGoesOn
    <2> QED BY <2>1, <2>2
  <1>11. PublishedOK' BY <1>5, <1>6, PublishedStays DEF IInv
  <1>12. AnsweredOK' BY <1>5, <1>6, AnsweredStays DEF IInv
  <1>13. ImportedOK' BY <1>5, <1>6, ImportedStays DEF IInv
  <1>14. CliOK'
    <2>1. CASE p = Cli
      <3>1. Head(job[Cli].todo) = s BY <1>1, <2>1
      <3> QED BY <2>1, <3>1, <1>2, <1>3, <1>4, <1>5, <1>6, <1>8, ImportGoesOn DEF IInv
    <2>2. CASE p # Cli
      <3>1. job'[Cli] = job[Cli] BY <2>2, <1>4, ConnectionsDiffer
      <3> QED BY <3>1, <1>5, <1>6, CliStays, ConnectionsDiffer DEF IInv
    <2> QED BY <2>1, <2>2
  <1>15. DoorOK'
    <2>1. ASSUME NEW o \in Threads, Inside(o)' PROVE Inside(o) /\ Grows(Visible(o), Visible(o)')
      <3>1. CASE o # p
        <4>1. job'[o] = job[o] BY <3>1, <1>4, ConnectionsDiffer
        <4> QED BY <4>1, <2>1, <1>5, InsideStays, ConnectionsDiffer
      <3>2. CASE o = p
        BY <3>2, <2>1, <1>2, <1>3, <1>4, <1>5, <1>7, InsideGoesOn
      <3> QED BY <3>1, <3>2
    <2>2. ASSUME Owned' PROVE Owned
      <3>1. CASE p = Cli
        BY <3>1, <2>2, <1>2, <1>3, <1>5, <1>7 DEF Owned, Importing, Reading
      <3>2. CASE p # Cli
        <4>1. job'[Cli] = job[Cli] BY <3>2, <1>4, ConnectionsDiffer
        <4> QED BY <4>1, <2>2, <1>5 DEF Owned, Importing, Busy
      <3> QED BY <3>1, <3>2
    <2>3. \A S \in {db', work'} : \E T \in {db, work} : T \subseteq S /\ \A x \in S \ T : ~Inner(x)
      BY <1>5
    <2>4. Owned' => /\ Owned
                    /\ Grows(Visible(Cli), Visible(Cli)') \/ DoorRow \in Visible(Cli)'
      BY <2>2, <1>5, ConnectionsDiffer
    <2>5. DoorOK BY DEF IInv
    <2> QED BY <2>1, <2>3, <2>4, <2>5, <1>6, DoorStays
  <1> QED BY <1>5, <1>9, <1>10, <1>11, <1>12, <1>13, <1>14, <1>15 DEF IInv
\* An audit entry is written: whatever has to be there before it is.
LEMMA Logged ==
  ASSUME IInv, NEW p \in Processes, Audit(p)
  PROVE  IInv'
  <1>1. PICK s : s = Head(job[p].todo) OBVIOUS
  <1> DEFINE r == s.row
  <1>2. Busy(p) /\ job[p].todo # <<>> /\ s.do = "append" /\ Done(p) /\ MayWrite(p)
    BY <1>1 DEF Audit, At, Next_
  <1>3. /\ job \in [Processes -> Jobs] /\ job[p].todo \in Seq(Statements)
        /\ s = job[p].todo[1] /\ 1 \in DOMAIN job[p].todo /\ r \in RowSet
        /\ p \in Threads => /\ ThreadOK(p) /\ job[p].request \in Requests
                            /\ ThreadPlan(job[p].request, job[p].todo)
        /\ p = Cli => ImportOK(job[Cli].todo) /\ ImportPlan(job[Cli].todo)
        /\ p \in Threads \/ p = Cli
    BY <1>1, <1>2, HeadIs
  <1>4. /\ job' \in [Processes -> Jobs]
        /\ job'[p].request = job[p].request /\ job'[p].todo = Tail(job[p].todo)
        /\ \A o \in Processes \ {p} : job'[o] = job[o]
    BY <1>2, <1>3, DoneStep
  <1>5. db' = Visible(p) \cup {r} /\ work' = db' /\ writer' = None BY <1>1 DEF Audit, Next_
  <1>6. file' = file /\ answered' = answered /\ told' = told BY DEF Audit
  <1>7. /\ StoreOK' /\ Grows(db, db') /\ Grows(Visible(p), db')
        /\ \A o \in Processes : Visible(o)' = db' /\ Grows(Visible(o), Visible(o)')
    BY <1>2, <1>3, <1>4, <1>5, AppendStep DEF IInv
  <1>8. Visible(p) \in {db, work} BY DEF Visible
  <1>9. r.table = "audit" /\ s.do # "insert" BY <1>2, <1>3, SpecialRows DEF ThreadPlan, ImportPlan
  <1>10. r # DoorRow /\ ~Inner(r) BY <1>9, SpecialRows DEF Inner
  <1>11. Kept(r, db')
    BY <1>5, <1>9, KeptExactly
  <1>12. FileOK' BY <1>6 DEF IInv, FileOK
  <1>13. JobsOK'
    <2> SUFFICES ASSUME NEW o \in Threads, Busy(o)' PROVE ThreadOK(o)' BY DEF JobsOK
    <2>1. CASE o # p
      <3>1. job'[o] = job[o] /\ Grows(Visible(o), Visible(o)') BY <2>1, <1>4, <1>7, ConnectionsDiffer
      <3> QED BY <3>1, <1>7, JobStays DEF IInv
    <2>2. CASE o = p
      <3>1. ThreadOK(o) BY <2>2, <1>3
      <3>2. Kept(s.row, Visible(o)') BY <2>2, <1>7, <1>11
      <3> QED BY <2>2, <3>1, <3>2, <1>1, <1>2, <1>4, <1>7, <1>11, JobGoesOn
    <2> QED BY <2>1, <2>2
  <1>14. PublishedOK'
    <2> SUFFICES ASSUME NEW key \in {q.key : q \in Requests},
                        AuditRow(key) \in db' \cup work' \/ \E d \in told : d.target = key
                 PROVE  \E q \in Requests : q.op = "publish" /\ q.key = key /\ \A x \in Rows(q) : Kept(x, db')
      BY <1>6 DEF PublishedOK
    <2>1. CASE AuditRow(key) \in db \cup work \/ \E d \in told : d.target = key
      BY <2>1, <1>7, RowsAreTyped DEF IInv, PublishedOK, Grows
    <2>2. CASE ~(AuditRow(key) \in db \cup work \/ \E d \in told : d.target = key)
      <3>1. r = AuditRow(key) BY <2>2, <1>5, <1>8
      <3>2. r.key = "contract.published" /\ r.value = key BY <3>1, SpecialRows
      <3>3. p \in Threads
        <4> SUFFICES ASSUME p = Cli PROVE FALSE BY <1>3
        <4>1. r = ImportRow BY <1>2, <1>3 DEF ImportPlan
        <4> QED BY <4>1, <3>2, SpecialRows
      <3> DEFINE q == job[p].request
                 todo == job[p].todo
      <3>4. q \in Requests /\ q.op = "publish" /\ PublishPlan(q.key, todo)
        BY <3>2, <3>3, <1>2, <1>3 DEF ThreadPlan
      <3>5. r = AuditRow(q.key) BY <3>4, <1>2, <1>3 DEF PublishPlan
      <3>6. q.key = key BY <3>2, <3>5, SpecialRows
      <3>7. \A c \in DOMAIN todo : todo[c].do \notin {"commit"}
        <4> SUFFICES ASSUME NEW c \in DOMAIN todo, todo[c].do = "commit" PROVE FALSE OBVIOUS
        <4>1. c < 1 BY <3>4, <1>2, <1>3 DEF PublishPlan
        <4>2. c \in Nat /\ c >= 1 BY <1>3
        <4> QED BY <4>1, <4>2
      <3>8. ASSUME NEW x \in Rows(q) PROVE Kept(x, db')
        <4>1. CASE x = AuditRow(q.key) BY <4>1, <3>5, <1>11
        <4>2. CASE x # AuditRow(q.key)
          <5>1. Safe(x, todo, db, Visible(p), {"commit"}) BY <4>2, <3>3, <3>4, <1>3 DEF ThreadOK
          <5>2. Kept(x, db) BY <5>1, <3>7, SafeIsDurable
          <5> QED BY <5>2, <3>4, <1>7, RowsAreTyped DEF Grows
        <4> QED BY <4>1, <4>2
      <3> QED BY <3>4, <3>6, <3>8
    <2> QED BY <2>1, <2>2
  <1>15. AnsweredOK' BY <1>6, <1>7, AnsweredStays DEF IInv
  <1>16. ImportRow \in db' \cup work' => ImportRow \in db \cup work \/ (p = Cli /\ r = ImportRow)
    BY <1>2, <1>3, <1>5, <1>8, SpecialRows DEF ThreadPlan
  <1>17. p = Cli => Importing BY <1>2, <1>3, <1>10 DEF Importing, Reading
  <1>18. ImportedOK'
    <2>1. CASE p = Cli /\ r = ImportRow
      <3>1. ImportOK(job[Cli].todo) /\ ImportPlan(job[Cli].todo) BY <2>1, <1>3
      <3>2. \A c \in DOMAIN job[Cli].todo : job[Cli].todo[c].do \notin {"commit"}
        <4> SUFFICES ASSUME NEW c \in DOMAIN job[Cli].todo, job[Cli].todo[c].do = "commit" PROVE FALSE
          OBVIOUS
        <4>1. 1 = Len(job[Cli].todo) BY <2>1, <3>1, <1>2, <1>3 DEF ImportPlan
        <4>2. c = 1 BY <4>1, <2>1, <1>3
        <4> QED BY <4>2, <2>1, <1>2, <1>3
      <3>3. ASSUME NEW f \in file PROVE Kept(Copy(f), db')
        <4>1. Safe(Copy(f), job[Cli].todo, db, Visible(Cli), {"commit"}) BY <3>1 DEF ImportOK
        <4>2. Kept(Copy(f), db) BY <4>1, <3>2, SafeIsDurable
        <4>3. Copy(f) \in RowSet BY <3>1, CopiesAreTyped DEF IInv, ImportOK
        <4> QED BY <4>2, <4>3, <1>7 DEF Grows
      <3>4. DoorRow \in Visible(Cli) BY <2>1, <3>1, <1>17 DEF IInv, DoorOK, Owned, ImportOK
      <3>5. DoorRow \in db' BY <3>4, <2>1, <1>5
      <3> QED BY <3>1, <3>3, <3>5, <1>6 DEF ImportedOK, ImportOK
    <2>2. CASE ~(p = Cli /\ r = ImportRow)
      BY <2>2, <1>6, <1>7, <1>16, ImportedStays DEF IInv
    <2> QED BY <2>1, <2>2
  <1>19. CliOK'
    <2>1. CASE p = Cli
      <3>1. Head(job[Cli].todo) = s /\ s.do # "commit" BY <1>1, <1>2, <2>1
      <3>2. Kept(s.row, Visible(Cli)') BY <2>1, <1>7, <1>11
      <3> QED BY <2>1, <3>1, <3>2, <1>2, <1>3, <1>4, <1>6, <1>7, ImportGoesOn DEF IInv
    <2>2. CASE p # Cli
      <3>1. job'[Cli] = job[Cli] BY <2>2, <1>4, ConnectionsDiffer
      <3> QED BY <3>1, <1>6, <1>7, CliStays, ConnectionsDiffer DEF IInv
    <2> QED BY <2>1, <2>2
  <1>20. DoorOK'
    <2>1. ASSUME NEW o \in Threads, Inside(o)' PROVE Inside(o) /\ Grows(Visible(o), Visible(o)')
      <3>1. CASE o # p
        <4>1. job'[o] = job[o] BY <3>1, <1>4, ConnectionsDiffer
        <4> QED BY <4>1, <2>1, <1>7, InsideStays, ConnectionsDiffer
      <3>2. CASE o = p
        BY <3>2, <2>1, <1>2, <1>3, <1>4, <1>7, <1>10, InsideGoesOn
      <3> QED BY <3>1, <3>2
    <2>2. ASSUME Owned' PROVE Owned
      <3>1. CASE p = Cli BY <3>1, <1>17 DEF Owned
      <3>2. CASE p # Cli
        <4>1. job'[Cli] = job[Cli] BY <3>2, <1>4, ConnectionsDiffer
        <4> QED BY <4>1, <3>2, <2>2, <1>16 DEF Owned, Importing, Busy
      <3> QED BY <3>1, <3>2
    <2>3. \A S \in {db', work'} : \E T \in {db, work} : T \subseteq S /\ \A x \in S \ T : ~Inner(x)
      BY <1>5, <1>8, <1>10
    <2>4. Owned' => /\ Owned
                    /\ Grows(Visible(Cli), Visible(Cli)') \/ DoorRow \in Visible(Cli)'
      BY <2>2, <1>7, ConnectionsDiffer
    <2>5. DoorOK BY DEF IInv
    <2> QED BY <2>1, <2>3, <2>4, <2>5, <1>6, DoorStays
  <1> QED BY <1>7, <1>12, <1>13, <1>14, <1>15, <1>18, <1>19, <1>20 DEF IInv

\* The hooks of an event are called: it is the publication's last statement.
LEMMA Delivered ==
  ASSUME IInv, NEW p \in Processes, Deliver(p)
  PROVE  IInv'
  <1>1. PICK s : s = Head(job[p].todo) OBVIOUS
  <1>2. Busy(p) /\ job[p].todo # <<>> /\ s.do = "notify" /\ Done(p)
    BY <1>1 DEF Deliver, At, Next_
  <1>3. /\ job \in [Processes -> Jobs] /\ job[p].todo \in Seq(Statements)
        /\ s = job[p].todo[1] /\ 1 \in DOMAIN job[p].todo /\ p \in Threads
        /\ ThreadOK(p) /\ job[p].request \in Requests /\ ThreadPlan(job[p].request, job[p].todo)
    BY <1>1, <1>2, HeadIs
  <1>4. /\ job' \in [Processes -> Jobs]
        /\ job'[p].request = job[p].request /\ job'[p].todo = Tail(job[p].todo)
        /\ \A o \in Processes \ {p} : job'[o] = job[o]
    BY <1>2, <1>3, DoneStep
  <1>5. db' = db /\ work' = work /\ writer' = writer /\ file' = file /\ answered' = answered
    BY DEF Deliver
  <1>6. \A d \in told' : d \in told \/ d.target = s.row.value
    BY <1>1 DEF Deliver, Next_
  <1>7. StoreOK' /\ Grows(db, db') /\ \A o \in Processes : Grows(Visible(o), Visible(o)')
    BY <1>4, <1>5, GrowsIsOrder DEF IInv, StoreOK, Visible
  <1>8. s.row # DoorRow BY <1>2, <1>3 DEF ThreadPlan
  <1>9. s.do \notin Writes /\ s.do \notin Committing /\ s.do # "append" BY <1>2 DEF Writes, Committing
  <1>10. FileOK' BY <1>5 DEF IInv, FileOK
  <1>11. JobsOK'
    <2> SUFFICES ASSUME NEW o \in Threads, Busy(o)' PROVE ThreadOK(o)' BY DEF JobsOK
    <2>1. CASE o # p
      <3>1. job'[o] = job[o] /\ Grows(Visible(o), Visible(o)') BY <2>1, <1>4, <1>7, ConnectionsDiffer
      <3> QED BY <3>1, <1>7, JobStays DEF IInv
    <2>2. CASE o = p
      <3>1. Grows(Visible(o), Visible(o)') BY <1>7, ConnectionsDiffer
      <3> QED BY <2>2, <3>1, <1>1, <1>2, <1>3, <1>4, <1>7, <1>9, JobGoesOn
    <2> QED BY <2>1, <2>2
  <1>12. PublishedOK'
    <2> DEFINE q == job[p].request
               todo == job[p].todo
    <2>1. q.op = "publish" /\ PublishPlan(q.key, todo) BY <1>2, <1>3 DEF ThreadPlan
    <2>2. s.row.value = q.key BY <2>1, <1>2, <1>3 DEF PublishPlan
    <2>3. \A c \in DOMAIN todo : todo[c].do \notin Committing
      <3> SUFFICES ASSUME NEW c \in DOMAIN todo, todo[c].do \in Committing PROVE FALSE OBVIOUS
      <3>1. c < 1 BY <2>1, <1>2, <1>3 DEF PublishPlan
      <3>2. c \in Nat /\ c >= 1 BY <1>3
      <3> QED BY <3>1, <3>2
    <2>4. \A x \in Rows(q) : Kept(x, db)
      <3> SUFFICES ASSUME NEW x \in Rows(q) PROVE Kept(x, db) OBVIOUS
      <3>1. Safe(x, todo, db, Visible(p), Committing) BY <1>3 DEF ThreadOK
      <3> QED BY <3>1, <2>3, SafeIsDurable
    <2>5. q \in Requests BY <1>3
    <2> HIDE DEF q, todo
    <2> QED BY <2>1, <2>2, <2>4, <2>5, <1>5, <1>6 DEF IInv, PublishedOK
  <1>13. AnsweredOK' BY <1>5, <1>7, AnsweredStays DEF IInv
  <1>14. ImportedOK' BY <1>5, <1>7, ImportedStays DEF IInv
  <1>15. job'[Cli] = job[Cli] BY <1>3, <1>4, ConnectionsDiffer
  <1>16. CliOK' BY <1>5, <1>7, <1>15, CliStays, ConnectionsDiffer DEF IInv
  <1>17. DoorOK'
    <2>1. ASSUME NEW o \in Threads, Inside(o)' PROVE Inside(o) /\ Grows(Visible(o), Visible(o)')
      <3>1. CASE o # p
        <4>1. job'[o] = job[o] BY <3>1, <1>4, ConnectionsDiffer
        <4> QED BY <4>1, <2>1, <1>7, InsideStays, ConnectionsDiffer
      <3>2. CASE o = p
        <4>1. Grows(Visible(o), Visible(o)') BY <1>7, ConnectionsDiffer
        <4> QED BY <3>2, <4>1, <2>1, <1>2, <1>3, <1>4, <1>8, InsideGoesOn
      <3> QED BY <3>1, <3>2
    <2>2. Owned' => Owned BY <1>5, <1>15 DEF Owned, Importing, Busy
    <2>3. \A S \in {db', work'} : \E T \in {db, work} : T \subseteq S /\ \A x \in S \ T : ~Inner(x)
      BY <1>5
    <2>4. Owned' => /\ Owned
                    /\ Grows(Visible(Cli), Visible(Cli)') \/ DoorRow \in Visible(Cli)'
      BY <2>2, <1>7, ConnectionsDiffer
    <2>5. DoorOK BY DEF IInv
    <2> QED BY <2>1, <2>3, <2>4, <2>5, <1>5, DoorStays
  <1> QED BY <1>7, <1>10, <1>11, <1>12, <1>13, <1>14, <1>16, <1>17 DEF IInv
LEMMA Replied ==
  ASSUME IInv, NEW t \in Processes, Reply(t)
  PROVE  IInv'
  <1>1. t \in Threads /\ Busy(t) /\ job[t].todo = <<>> /\ Ends(t) BY DEF Reply
  <1>2. /\ db' = db /\ work' = work /\ writer' = writer /\ file' = file /\ told' = told
        /\ answered' = answered \cup {job[t].request}
    BY DEF Reply
  <1>3. job \in [Processes -> Jobs] BY DEF IInv, StoreOK
  <1>4. /\ job' \in [Processes -> Jobs] /\ job'[t] = NoJob
        /\ \A o \in Processes \ {t} : job'[o] = job[o]
    BY <1>1, <1>3, EndStep
  <1>5. StoreOK' /\ Grows(db, db') /\ \A o \in Processes : Grows(Visible(o), Visible(o)')
    BY <1>2, <1>4, GrowsIsOrder DEF IInv, StoreOK, Visible
  <1>6. AnsweredOK'
    <2>1. ThreadOK(t) BY <1>1 DEF IInv, JobsOK
    <2>2. \A c \in DOMAIN job[t].todo : job[t].todo[c].do \notin Committing BY <1>1
    <2>3. \A r \in Rows(job[t].request) : Kept(r, db) BY <2>1, <2>2, SafeIsDurable DEF ThreadOK
    <2> QED BY <2>1, <2>3, <1>2 DEF IInv, AnsweredOK, ThreadOK
  <1> QED BY <1>2, <1>4, <1>5, <1>6, QuietStep

LEMMA Failed ==
  ASSUME IInv, NEW p \in Processes, Fail(p)
  PROVE  IInv'
  <1>1. Ends(p) /\ db' = db /\ file' = file /\ answered' = answered /\ told' = told BY DEF Fail
  <1>2. job \in [Processes -> Jobs] BY DEF IInv, StoreOK
  <1>3. /\ job' \in [Processes -> Jobs] /\ job'[p] = NoJob
        /\ \A o \in Processes \ {p} : job'[o] = job[o]
    BY <1>1, <1>2, EndStep
  <1>4. /\ StoreOK' /\ Grows(db, db') /\ work' \in {db, work}
        /\ \A o \in Processes \ {p} : Grows(Visible(o), Visible(o)')
    <2>1. CASE work' = work /\ writer' = writer
      BY <2>1, <1>1, <1>3, GrowsIsOrder DEF IInv, StoreOK, Visible
    <2>2. CASE p = Cli /\ Lose(p)
      <3>1. IF writer = Cli THEN work' = db /\ writer' = None ELSE UNCHANGED <<work, writer>>
        BY <2>2, ConnectionsDiffer DEF Lose
      <3>2. \A o \in Processes : Connection(o) # Cli => Visible(o)' = Visible(o)
        BY <3>1, <1>1, <1>3, ConnectionsDiffer, LoseStep DEF IInv
      <3>3. \A o \in Processes \ {p} : Connection(o) # Cli BY <2>2, ConnectionsDiffer DEF Processes
      <3>4. StoreOK' /\ Grows(db, db') /\ work' \in {db, work}
        BY <3>1, <1>1, <1>3, ConnectionsDiffer, LoseStep DEF IInv
      <3> QED BY <3>2, <3>3, <3>4, GrowsIsOrder
    <2>3. CASE Write(p, Visible(p))
      <3>1. Visible(p) \in SUBSET RowSet /\ IsFiniteSet(Visible(p)) BY SeenIsStored DEF IInv
      <3>2. /\ StoreOK' /\ Grows(db, db') /\ \A o \in Processes : Grows(Visible(o), Visible(o)')
        BY <2>3, <3>1, <1>1, <1>3, GrowsIsOrder, WriteStep DEF IInv
      <3>3. work' = Visible(p) BY <2>3 DEF Write
      <3> QED BY <3>2, <3>3 DEF Visible
    <2> QED BY <2>1, <2>2, <2>3 DEF Fail
  <1>5. AnsweredOK' BY <1>1, <1>4, AnsweredStays DEF IInv
  <1> QED BY <1>1, <1>3, <1>4, <1>5, QuietStep

LEMMA Crashed ==
  ASSUME IInv, NEW c \in {Server, Cli}, Crash(c)
  PROVE  IInv'
  <1>1. /\ job' = [p \in Processes |-> IF Connection(p) = c THEN NoJob ELSE job[p]]
        /\ IF writer = c THEN work' = db /\ writer' = None ELSE UNCHANGED <<work, writer>>
        /\ db' = db /\ file' = file /\ answered' = answered /\ told' = told
    BY DEF Crash
  <1>2. job' \in [Processes -> Jobs] BY <1>1, NoJobIsJob DEF IInv, StoreOK
  <1>3. /\ StoreOK' /\ Grows(db, db') /\ work' \in {db, work}
        /\ \A o \in Processes : Connection(o) # c => Visible(o)' = Visible(o)
    BY <1>1, <1>2, LoseStep DEF IInv
  <1>4. AnsweredOK' BY <1>1, <1>3, AnsweredStays DEF IInv
  <1>5. \A p \in Processes : \/ job'[p] = NoJob
                             \/ job'[p] = job[p] /\ Grows(Visible(p), Visible(p)')
    BY <1>1, <1>3, GrowsIsOrder
  <1> QED BY <1>1, <1>3, <1>4, <1>5, QuietStep

LEMMA Received ==
  ASSUME IInv, NEW t \in Threads, NEW q \in Requests, Receive(t, q)
  PROVE  IInv'
  <1> DEFINE todo == Handler(q)
             new == [request |-> q, todo |-> todo]
  <1>1. /\ job' = [job EXCEPT ![t] = new] /\ db' = db /\ work' = work /\ writer' = writer
        /\ file' = file /\ answered' = answered /\ told' = told
    BY DEF Receive
  <1>2. Handled(q, todo) BY RequestIsHandled
  <1>3. todo \in Seq(Statements) /\ ThreadPlan(q, todo) BY <1>2 DEF Handled, ThreadPlan
  <1> HIDE DEF todo
  <1>4. new \in Jobs /\ new.request = q /\ new.todo = todo BY <1>3 DEF Jobs
  <1> HIDE DEF new
  <1>5. /\ job' \in [Processes -> Jobs] /\ job'[t] = new
        /\ \A o \in Processes \ {t} : job'[o] = job[o]
    BY <1>1, <1>4, ConnectionsDiffer DEF IInv, StoreOK
  <1>6. StoreOK' /\ Grows(db, db') /\ \A o \in Processes : Grows(Visible(o), Visible(o)')
    BY <1>1, <1>5, GrowsIsOrder DEF IInv, StoreOK, Visible
  <1>7. FileOK' BY <1>1 DEF IInv, FileOK
  <1>8. JobsOK'
    <2> SUFFICES ASSUME NEW o \in Threads, Busy(o)' PROVE ThreadOK(o)' BY DEF JobsOK
    <2>1. CASE o # t
      <3>1. job'[o] = job[o] /\ Grows(Visible(o), Visible(o)') BY <2>1, <1>5, <1>6, ConnectionsDiffer
      <3> QED BY <3>1, <1>6, JobStays DEF IInv
    <2>2. CASE o = t
      <3>1. \A r \in Rows(q) : /\ Safe(r, todo, db', Visible(t)', Committing)
                               /\ q.op = "publish" /\ r # AuditRow(q.key)
                                  => Safe(r, todo, db', Visible(t)', {"commit"})
        BY RequestOwes DEF Safe, todo
      <3>2. job'[t].request = q /\ job'[t].todo = todo BY <1>4, <1>5
      <3> QED BY <2>2, <3>1, <3>2, <1>3 DEF ThreadOK
    <2> QED BY <2>1, <2>2
  <1>9. PublishedOK' BY <1>1, <1>6, PublishedStays DEF IInv
  <1>10. AnsweredOK' BY <1>1, <1>6, AnsweredStays DEF IInv
  <1>11. ImportedOK' BY <1>1, <1>6, ImportedStays DEF IInv
  <1>12. job'[Cli] = job[Cli] BY <1>5, ConnectionsDiffer
  <1>13. CliOK' BY <1>1, <1>6, <1>12, CliStays, ConnectionsDiffer DEF IInv
  <1>14. DoorOK'
    <2> SUFFICES ASSUME FirstOrg # Restored PROVE DoorOK' BY DEF DoorOK
    <2>1. ASSUME NEW o \in Threads, Inside(o)' PROVE Inside(o) /\ Grows(Visible(o), Visible(o)')
      <3>1. CASE o # t
        <4>1. job'[o] = job[o] BY <3>1, <1>5, ConnectionsDiffer
        <4> QED BY <4>1, <2>1, <1>6, InsideStays, ConnectionsDiffer
      <3>2. CASE o = t
        <4>1. job'[t].todo = todo BY <1>4, <1>5
        <4>2. ~Inside(t)' BY <4>1, <1>2 DEF Inside, Handled
        <4> QED BY <4>2, <3>2, <2>1
      <3> QED BY <3>1, <3>2
    <2>2. Owned' => Owned BY <1>1, <1>12 DEF Owned, Importing, Busy
    <2>3. \A S \in {db', work'} : \E T \in {db, work} : T \subseteq S /\ \A x \in S \ T : ~Inner(x)
      BY <1>1
    <2>4. Owned' => /\ Owned
                    /\ Grows(Visible(Cli), Visible(Cli)') \/ DoorRow \in Visible(Cli)'
      BY <2>2, <1>6, ConnectionsDiffer
    <2>5. DoorOK BY DEF IInv
    <2> QED BY <2>1, <2>3, <2>4, <2>5, <1>1, DoorStays
  <1> QED BY <1>6, <1>7, <1>8, <1>9, <1>10, <1>11, <1>13, <1>14 DEF IInv

\* The command line begins something, or goes on reading.
LEMMA CliMoves ==
  ASSUME IInv, NEW new \in Jobs, job' = [job EXCEPT ![Cli] = new],
         db' = db, work' = work, writer' = writer, answered' = answered, told' = told,
         CliOK', FileOK', ~Importing', file' = file \/ file = None
  PROVE  IInv'
  <1>1. /\ job' \in [Processes -> Jobs] /\ \A o \in Threads : job'[o] = job[o]
    BY ConnectionsDiffer DEF IInv, StoreOK
  <1>2. StoreOK' /\ Grows(db, db') /\ \A o \in Processes : Visible(o)' = Visible(o)
    BY <1>1, GrowsIsOrder DEF IInv, StoreOK, Visible
  <1>3. JobsOK'
    <2> SUFFICES ASSUME NEW o \in Threads, Busy(o)' PROVE ThreadOK(o)' BY DEF JobsOK
    <2>1. Grows(Visible(o), Visible(o)') BY <1>2, GrowsIsOrder, ConnectionsDiffer
    <2> QED BY <2>1, <1>1, <1>2, JobStays DEF IInv
  <1>4. PublishedOK' BY <1>2, PublishedStays DEF IInv
  <1>5. AnsweredOK' BY <1>2, AnsweredStays DEF IInv
  <1>6. ImportedOK' BY DEF IInv, ImportedOK
  <1>7. DoorOK'
    <2> SUFFICES ASSUME FirstOrg # Restored PROVE DoorOK' BY DEF DoorOK
    <2> USE DEF IInv
    <2>1. \A o \in Threads : Inside(o)' => Inside(o) BY <1>1, InsideStays
    <2>2. \A o \in Threads : Inside(o)' => DoorRow \in Visible(o)'
      BY <2>1, <1>2, ConnectionsDiffer DEF DoorOK
    <2>3. Owned' => Owned /\ file' = file BY DEF Owned, ImportedOK
    <2>4. Visible(Cli)' = Visible(Cli) BY <1>2, ConnectionsDiffer
    <2>5. ASSUME Owned'
          PROVE  /\ DoorRow \in Visible(Cli)' /\ \A o \in Threads : ~Inside(o)'
                 /\ \A x \in db' \cup work' : Inner(x) => Original(x) \in file'
      BY <2>1, <2>3, <2>4, <2>5 DEF DoorOK
    <2> QED BY <2>2, <2>5 DEF DoorOK
  <1> QED BY <1>2, <1>3, <1>4, <1>5, <1>6, <1>7 DEF IInv

LEMMA ReadIsTyped ==
  ASSUME NEW table \in Words
  PROVE  [do |-> "read", row |-> Row(table, FirstOrg, "", "")] \in Statements
  <1>1. Row(table, FirstOrg, "", "") \in RowSet BY HomeIsNamed, RowIsTyped DEF Words
  <1> QED BY <1>1 DEF Statements, Kinds

LEMMA Exported ==
  ASSUME IInv, ExportOrg
  PROVE  IInv'
  <1> DEFINE todo == [i \in DOMAIN Carried |-> [do |-> "read", row |-> Row(Carried[i], FirstOrg, "", "")]]
             new == [request |-> {}, todo |-> todo]
  <1>1. /\ job' = [job EXCEPT ![Cli] = new] /\ db' = db /\ work' = work /\ writer' = writer
        /\ file' = file /\ answered' = answered /\ told' = told /\ file = None
    BY DEF ExportOrg
  <1>2. DOMAIN Carried = 1..4 /\ \A i \in 1..4 : Carried[i] \in Words BY DEF Carried, Words
  <1>3. \A i \in 1..4 : /\ todo[i] \in Statements /\ todo[i].do = "read" /\ todo[i].row.org = FirstOrg
                        /\ todo[i].row.table = Carried[i]
    BY <1>2, ReadIsTyped DEF Row
  <1>4. todo \in Seq(Statements) /\ DOMAIN todo = 1..4 /\ todo # <<>>
    <2>1. DOMAIN todo = 1..4 /\ todo = [i \in 1..4 |-> todo[i]] BY <1>2
    <2> HIDE DEF todo
    <2>2. 4 \in Nat /\ \A i \in 1..4 : todo[i] \in Statements BY <1>3
    <2>3. todo \in Seq(Statements) BY <2>1, <2>2
    <2>4. 1 \in DOMAIN todo BY <2>1
    <2> QED BY <2>1, <2>3, <2>4
  <1> HIDE DEF todo
  <1>5. new \in Jobs /\ new.request = {} /\ new.todo = todo BY <1>4 DEF Jobs
  <1> HIDE DEF new
  <1>6. job'[Cli] = new BY <1>1, ConnectionsDiffer DEF IInv, StoreOK
  <1>7. Reading(job'[Cli].todo) BY <1>3, <1>4, <1>5, <1>6 DEF Reading
  <1>8. ExportOK({}, todo)' BY <1>1, <1>2, <1>3, <1>4, FS_EmptySet DEF ExportOK
  <1>9. CliOK'
    <2>1. ExportOK(job[Cli].request, job[Cli].todo)' BY <1>5, <1>6, <1>8 DEF ExportOK
    <2> QED BY <2>1, <1>7 DEF CliOK, Reading
  <1>10. ~Importing' BY <1>7 DEF Importing, Reading
  <1>11. FileOK' BY <1>1 DEF IInv, FileOK
  <1> QED BY <1>1, <1>5, <1>9, <1>10, <1>11, CliMoves

LEMMA ReadOn ==
  ASSUME IInv, ReadTable
  PROVE  IInv'
  <1> DEFINE todo == job[Cli].todo
             r == Head(todo).row
             rows == job[Cli].request \cup {s \in db : s.table = r.table /\ s.org = r.org}
  <1>1. Busy(Cli) /\ todo # <<>> /\ Head(todo).do = "read" BY DEF ReadTable, At, Next_
  <1>2. /\ job \in [Processes -> Jobs] /\ todo \in Seq(Statements)
        /\ Head(todo) = todo[1] /\ 1 \in DOMAIN todo
    BY <1>1, HeadIs, ConnectionsDiffer
  <1>3. ExportOK(job[Cli].request, todo) BY <1>1, <1>2 DEF IInv, CliOK, Reading
  <1>4. /\ rows \subseteq RowSet /\ IsFiniteSet(rows)
        /\ \A f \in rows : f.org = FirstOrg /\ \E j \in DOMAIN Carried : f.table = Carried[j]
    <2>1. IsFiniteSet({s \in db : s.table = r.table /\ s.org = r.org}) BY FS_Subset DEF IInv, StoreOK
    <2>2. IsFiniteSet(rows) BY <2>1, <1>3, FS_Union DEF ExportOK
    <2> QED BY <2>2, <1>2, <1>3 DEF ExportOK, IInv, StoreOK
  <1>5. file = None /\ db' = db /\ work' = work /\ writer' = writer /\ answered' = answered /\ told' = told
    BY <1>3 DEF ReadTable, ExportOK
  <1>6. CASE Len(todo) = 1
    <2>1. job' = [job EXCEPT ![Cli] = NoJob] /\ file' = rows BY <1>6 DEF ReadTable, Ends, Next_
    <2>2. job'[Cli] = NoJob BY <2>1, <1>2, ConnectionsDiffer
    <2>3. CliOK' /\ ~Importing' BY <2>2 DEF CliOK, Importing, Busy
    <2>4. FileOK' BY <2>1, <1>4 DEF FileOK
    <2> QED BY <2>1, <2>3, <2>4, <1>5, NoJobIsJob, CliMoves
  <1>7. CASE Len(todo) # 1
    <2> DEFINE new == [request |-> rows, todo |-> Tail(todo)]
    <2>1. job' = [job EXCEPT ![Cli] = new] /\ file' = file
      BY <1>7 DEF ReadTable, Next_
    <2>2. /\ Tail(todo) \in Seq(Statements) /\ Len(Tail(todo)) = Len(todo) - 1 /\ Len(todo) \in Nat
          /\ DOMAIN Tail(todo) = 1..(Len(todo) - 1) /\ Len(todo) >= 1
          /\ \A i \in DOMAIN Tail(todo) : i + 1 \in DOMAIN todo /\ Tail(todo)[i] = todo[i + 1]
      BY <1>1, <1>2, TailAt
    <2>3. PICK rest : rest = Tail(todo) OBVIOUS
    <2>4. PICK got : got = rows OBVIOUS
    <2>5. ExportOK(got, rest) BY <2>2, <2>3, <2>4, <1>3, <1>4 DEF ExportOK
    <2>6. 1 \in DOMAIN rest /\ rest # <<>>
      <3>1. PICK n : n = Len(todo) OBVIOUS
      <3>2. n \in Nat /\ n >= 1 /\ n # 1 /\ DOMAIN rest = 1..(n - 1) BY <2>2, <2>3, <3>1, <1>7
      <3>3. 1 \in DOMAIN rest BY <3>2
      <3> QED BY <3>3
    <2>7. new \in Jobs /\ new.request = got /\ new.todo = rest
      BY <2>2, <2>3, <2>4, <1>4 DEF Jobs
    <2> HIDE DEF new
    <2>8. job'[Cli].request = got /\ job'[Cli].todo = rest
      BY <2>1, <2>7, <1>2, ConnectionsDiffer
    <2>9. Reading(rest) BY <2>5, <2>6 DEF ExportOK, Reading
    <2>10. ExportOK(got, rest)' BY <2>1, <2>5 DEF ExportOK
    <2>11. CliOK'
      <3>1. ExportOK(job[Cli].request, job[Cli].todo)' BY <2>8, <2>10 DEF ExportOK
      <3> QED BY <3>1, <2>8, <2>9 DEF CliOK, Reading
    <2>12. ~Importing' BY <2>8, <2>9 DEF Importing, Reading
    <2>13. FileOK' BY <2>1 DEF IInv, FileOK
    <2> HIDE DEF rows, todo
    <2> QED BY <2>1, <2>7, <2>11, <2>12, <2>13, <1>5, CliMoves
  <1> QED BY <1>6, <1>7

LEMMA ImportBegins ==
  ASSUME IInv, Import
  PROVE  IInv'
  <1>1. PICK todo : todo = ImportOrg(file, Restored) OBVIOUS
  <1> DEFINE new == [request |-> {}, todo |-> todo]
  <1>2. /\ job' = [job EXCEPT ![Cli] = new] /\ db' = db /\ work' = work /\ writer' = writer
        /\ file' = file /\ answered' = answered /\ told' = told
        /\ file # None /\ \A r \in db : r.org # Restored
    BY <1>1 DEF Import
  <1>3. FirstOrg # Restored BY <1>2, SpecialRows DEF IInv, StoreOK
  <1>4. /\ ImportPlan(todo) /\ todo # <<>> /\ todo[1].row = DoorRow /\ todo[1].do = "insert"
        /\ \A f \in file : Owed(Copy(f), todo, Visible(Cli)', {"commit"})
    BY <1>1, <1>2, ImportIsPlanned DEF IInv
  <1>5. new \in Jobs /\ new.todo = todo BY <1>4 DEF Jobs, ImportPlan
  <1> HIDE DEF new
  <1>6. job'[Cli].todo = todo BY <1>2, <1>5, ConnectionsDiffer DEF IInv, StoreOK
  <1>7. ImportOK(todo)'
    <2>1. ImportPlan(todo)' BY <1>2, <1>4 DEF ImportPlan
    <2> QED BY <2>1, <1>2, <1>3, <1>4 DEF ImportOK, Safe
  <1>8. CliOK'
    <2>1. ImportOK(job[Cli].todo)' BY <1>6, <1>7 DEF ImportOK, ImportPlan
    <2>2. ~Reading(job'[Cli].todo) BY <1>4, <1>6 DEF Reading
    <2> QED BY <2>1, <2>2 DEF CliOK, Reading
  <1>9. ~Importing' BY <1>4, <1>6 DEF Importing
  <1>10. FileOK' BY <1>2 DEF IInv, FileOK
  <1> QED BY <1>2, <1>5, <1>8, <1>9, <1>10, CliMoves

LEMMA ImportEnds ==
  ASSUME IInv, Imported
  PROVE  IInv'
  <1>1. /\ job' = [job EXCEPT ![Cli] = NoJob] /\ db' = db /\ work' = work /\ writer' = writer
        /\ file' = file /\ answered' = answered /\ told' = told
    BY DEF Imported, Ends
  <1>2. job'[Cli] = NoJob BY <1>1, ConnectionsDiffer DEF IInv, StoreOK
  <1>3. CliOK' /\ ~Importing' BY <1>2 DEF CliOK, Importing, Busy
  <1>4. FileOK' BY <1>1 DEF IInv, FileOK
  <1> QED BY <1>1, <1>3, <1>4, NoJobIsJob, CliMoves

-------------------------------------------------------------------------------
LEMMA Begins == Init => IInv
  <1> SUFFICES ASSUME Init PROVE IInv OBVIOUS
  <1>1. /\ db = {HomeRow, Row("users", FirstOrg, "bootstrap", "owner")} /\ work = db /\ writer = None
        /\ job = [p \in Processes |-> NoJob] /\ file = None /\ answered = {} /\ told = {}
    BY DEF Init, Start0, HomeRow
  <1>2. Row("users", FirstOrg, "bootstrap", "owner") \in RowSet
        /\ Row("users", FirstOrg, "bootstrap", "owner").table = "users"
        /\ Row("users", FirstOrg, "bootstrap", "owner").org = FirstOrg
    <2>1. Row("users", FirstOrg, "bootstrap", "owner") \in RowSet BY HomeIsNamed, RowIsTyped DEF Words
    <2> QED BY <2>1 DEF Row
  <1>3. IsFiniteSet(db)
    <2>1. IsFiniteSet({} \cup {HomeRow}) BY FS_EmptySet, FS_AddElement
    <2>2. IsFiniteSet(({} \cup {HomeRow}) \cup {Row("users", FirstOrg, "bootstrap", "owner")})
      BY <2>1, FS_AddElement
    <2>3. ({} \cup {HomeRow}) \cup {Row("users", FirstOrg, "bootstrap", "owner")} = db BY <1>1
    <2> QED BY <2>2, <2>3
  <1>4. StoreOK BY <1>1, <1>2, <1>3, SpecialRows, NoJobIsJob, GrowsIsOrder DEF StoreOK
  <1>5. \A p \in Processes : ~Busy(p) BY <1>1 DEF Busy
  <1>6. FileOK BY <1>1 DEF FileOK
  <1>7. JobsOK BY <1>5, ConnectionsDiffer DEF JobsOK
  <1>8. \A x \in db : x.table # "audit" BY <1>1, <1>2, SpecialRows
  <1>9. PublishedOK BY <1>1, <1>8, SpecialRows DEF PublishedOK
  <1>10. AnsweredOK BY <1>1 DEF AnsweredOK
  <1>11. CliOK BY <1>5, ConnectionsDiffer DEF CliOK
  <1>12. ImportedOK BY <1>1, <1>8, SpecialRows DEF ImportedOK
  <1>13. DoorOK
    <2>1. FirstOrg # Restored => \A x \in db : ~Inner(x) BY <1>1, <1>2, SpecialRows DEF Inner
    <2>2. \A t \in Threads : ~Inside(t) BY <1>5, ConnectionsDiffer DEF Inside
    <2>3. ~Owned BY <1>1, <1>5, <1>8, ConnectionsDiffer, SpecialRows DEF Owned, Importing
    <2> QED BY <2>1, <2>2, <2>3, <1>1 DEF DoorOK
  <1> QED BY <1>4, <1>6, <1>7, <1>9, <1>10, <1>11, <1>12, <1>13 DEF IInv

LEMMA Continues == IInv /\ [Next]_vars => IInv'
  <1> SUFFICES ASSUME IInv, [Next]_vars PROVE IInv' OBVIOUS
  <1>1. CASE UNCHANGED storeVars
    <2>1. /\ StoreOK' /\ Grows(db, db') /\ file' = file /\ told' = told
          /\ db' = db /\ work' = work /\ job' = job /\ answered' = answered
          /\ \A p \in Processes : Grows(Visible(p), Visible(p)')
      BY <1>1, GrowsIsOrder DEF storeVars, IInv, StoreOK, Visible
    <2>2. AnsweredOK' BY <2>1, AnsweredStays DEF IInv
    <2> QED BY <2>1, <2>2, QuietStep
  <1>2. CASE Writing
    <2>1. CASE \E t \in Threads, q \in Requests : Receive(t, q) BY <2>1, Received
    <2>2. CASE \E p \in Processes : Statement(p)
      <3>1. PICK p \in Processes : Statement(p) BY <2>2
      <3>2. CASE Execute(p)
        <4>1. CASE p \in Threads BY <3>2, <4>1, ThreadExecutes
        <4>2. CASE p = Cli BY <3>2, <4>2, CliExecutes
        <4> QED BY <4>1, <4>2 DEF Processes
      <3>3. CASE CommitRows(p) BY <3>3, Committed
      <3>4. CASE Audit(p) BY <3>4, Logged
      <3>5. CASE Deliver(p) BY <3>5, Delivered
      <3>6. CASE Reply(p) BY <3>6, Replied
      <3>7. CASE Fail(p) BY <3>7, Failed
      <3> QED BY <3>1, <3>2, <3>3, <3>4, <3>5, <3>6, <3>7 DEF Statement
    <2>3. CASE ExportOrg BY <2>3, Exported
    <2>4. CASE ReadTable BY <2>4, ReadOn
    <2>5. CASE Import BY <2>5, ImportBegins
    <2>6. CASE Imported BY <2>6, ImportEnds
    <2>7. CASE \E connection \in {Server, Cli} : Crash(connection) BY <2>7, Crashed
    <2> QED BY <1>2, <2>1, <2>2, <2>3, <2>4, <2>5, <2>6, <2>7 DEF Writing
  <1> QED BY <1>1, <1>2 DEF Next, vars

\* No upsert replaces what a publication leaves.
LEMMA PublicationsStay ==
  ASSUME NEW q \in Requests, q.op = "publish", NEW r \in Rows(q)
  PROVE  r.table \notin {"environments", "policies", "workers"}
  <1> DEFINE n == Len(q.findings)
             H == PublishContract(q)
  <1>1. H = Handler(q) BY DEF Handler
  <1>2. PICK i \in DOMAIN H : H[i].do # "notify" /\ r = H[i].row BY <1>1 DEF Rows
  <1>3. /\ H \in Seq(Statements) /\ n \in Nat /\ DOMAIN H = 1..(n + 5)
        /\ H[1].do = "insert" /\ H[1].row = Contract(q) /\ H[2] = Commit
        /\ \A j \in 1..n : H[2 + j] = Inserts(Findings(q))[j]
        /\ H[n + 3] = Commit
        /\ H[n + 4].do = "append" /\ H[n + 4].row = AuditRow(q.key)
        /\ H[n + 5].do = "notify" /\ H[n + 5].row = Row("event", FirstOrg, "contract.published", q.key)
    BY PublishAt
  <1>4. \A j \in 1..n : Inserts(Findings(q))[j].row.table \in {"bad", "findings"}
    BY FindingsAt, SpecialRows
  <1>5. Contract(q).table = "contracts" /\ Commit.row.table = "bad" /\ AuditRow(q.key).table = "audit"
    BY SpecialRows, CommitIsTyped DEF Contract, Row
  <1> HIDE DEF n, H
  <1>6. CASE i \in 3..(n + 2)
    <2>1. i - 2 \in 1..n /\ i = 2 + (i - 2) BY <1>3, <1>6
    <2> QED BY <2>1, <1>2, <1>3, <1>4
  <1>7. CASE i \notin 3..(n + 2)
    <2>1. i = 1 \/ i = 2 \/ i = n + 3 \/ i = n + 4 \/ i = n + 5 BY <1>2, <1>3, <1>7
    <2> QED BY <2>1, <1>2, <1>3, <1>5
  <1> QED BY <1>6, <1>7

LEMMA HalfIsSafe == IInv => HalfIsNotTold
  <1> SUFFICES ASSUME IInv PROVE HalfIsNotTold OBVIOUS
  <1>1. \A q \in answered : \A r \in Rows(q) : Kept(r, db) BY DEF IInv, AnsweredOK
  <1>2. ASSUME NEW key \in {q.key : q \in Requests},
               AuditRow(key) \in db \/ \E d \in told : d.target = key
        PROVE  \E q \in Requests : q.op = "publish" /\ q.key = key /\ Rows(q) \subseteq db
    <2>1. PICK q \in Requests : q.op = "publish" /\ q.key = key /\ \A r \in Rows(q) : Kept(r, db)
      BY <1>2 DEF IInv, PublishedOK
    <2>2. ASSUME NEW r \in Rows(q) PROVE r \in db
      BY <2>1, <2>2, PublicationsStay, KeptExactly
    <2> QED BY <2>1, <2>2
  <1>3. ASSUME ImportRow \in db
        PROVE  {Original(r) : r \in {s \in db : Inner(s)}} = file
    <2>1. FirstOrg # Restored /\ file # None /\ \A f \in file : Kept(Copy(f), db)
      BY <1>3 DEF IInv, ImportedOK
    <2>2. \A s \in db : Inner(s) => Original(s) \in file
      BY <1>3, <2>1 DEF IInv, DoorOK, Owned
    <2>3. ASSUME NEW f \in file PROVE \E s \in db : Inner(s) /\ Original(s) = f
      <3>1. f \in RowSet /\ f.org = FirstOrg /\ f.table \notin {"orgs", "audit"}
        <4>1. DOMAIN Carried = 1..4 /\ \A i \in 1..4 : Carried[i] \notin {"orgs", "audit"}
          BY DEF Carried
        <4> QED BY <4>1, <2>1 DEF IInv, FileOK
      <3>2. /\ Copy(f).org = Restored /\ Copy(f).table = f.table /\ Original(Copy(f)) = f
        BY <3>1, CopyAndBack
      <3>3. Copy(f) \in db BY <2>1, <3>2, KeptExactly
      <3> QED BY <3>1, <3>2, <3>3 DEF Inner
    <2> QED BY <2>2, <2>3
  <1> QED BY <1>1, <1>2, <1>3 DEF HalfIsNotTold, AuditRow, ImportRow, Inner, Original

(* A request answered with success is durable in every part, a publication     *)
(* that is logged or told of is whole, and an import that is logged holds what *)
(* the export held: for any requests, threads, crashes and failures, and any   *)
(* interleaving of their statements.                                           *)
THEOREM HalfUntold == Spec => []HalfIsNotTold
  <1>1. Spec => []IInv BY Begins, Continues, PTL DEF Spec
  <1> QED BY <1>1, HalfIsSafe, PTL
-------------------------------------------------------------------------------
(* A key that was withdrawn is refused after Lifetime, for any number of       *)
(* threads and keys: the stamp of a cached or fetched set of keys is a moment  *)
(* before the issuer was asked. A key published throughout refuses nobody: a   *)
(* call that misses it asks the issuer itself.                                 *)

Times == Nat \cup {None}

Calls == [pc : {"keys", "fetch", "store", "check", "accepted", "refused"},
          kid : Kids, claims : Tokens, now : Times, keys : SUBSET Kids,
          forced : BOOLEAN, steady : BOOLEAN, late : BOOLEAN]

OidcTypeOK == /\ clock \in Nat
              /\ published \subseteq Kids
              /\ withdrawn \in [Kids -> Times]
              /\ cache \in [keys : SUBSET Kids, at : Times]
              /\ call \in [Threads -> Calls \cup {Idle}]

\* Every key of a set stamped `at` was published at some moment since.
Stamped(keys, at) ==
  at # None /\ at <= clock /\ \A k \in keys : withdrawn[k] = None \/ withdrawn[k] >= at

PastOK == \A k \in Kids : /\ k \in published => withdrawn[k] = None
                          /\ withdrawn[k] # None => withdrawn[k] <= clock

CacheOK == cache.at # None => Stamped(cache.keys, cache.at)

LateOK(c) == c.late => withdrawn[c.kid] # None /\ clock >= withdrawn[c.kid] + Lifetime

CallOK(c) == /\ c.pc # "idle" => LateOK(c)
             /\ c.pc = "fetch" => c.now # None /\ c.now <= clock
             /\ c.pc = "store" => Stamped(c.keys, c.now)
             /\ c.pc \in {"store", "check"} => (c.late => c.kid \notin c.keys)
             /\ c.pc = "accepted" => ~c.late

SignInInv == /\ OidcTypeOK /\ PastOK /\ CacheOK
        /\ \A t \in Threads : CallOK(call[t])

-------------------------------------------------------------------------------
LEMMA IdleIsNoCall == Idle \notin Calls /\ Idle.pc = "idle"
  BY DEF Idle, Calls

LEMMA SignInBegins == OidcInit => SignInInv
  <1> SUFFICES ASSUME OidcInit PROVE SignInInv OBVIOUS
  <1>1. OidcTypeOK
    BY DEF OidcInit, OidcTypeOK, Times
  <1>2. PastOK
    BY DEF OidcInit, PastOK
  <1>3. CacheOK
    BY DEF OidcInit, CacheOK
  <1>4. \A t \in Threads : CallOK(call[t])
    BY DEF OidcInit, CallOK, Idle
  <1> QED BY <1>1, <1>2, <1>3, <1>4 DEF SignInInv

(* A step of thread t that leaves the clock, the issuer and the cache alone.   *)
LEMMA OwnStep ==
  ASSUME SignInInv, NEW t \in Threads, NEW c \in Calls \cup {Idle},
         call' = [call EXCEPT ![t] = c], CallOK(c),
         UNCHANGED <<clock, published, withdrawn, cache>>
  PROVE  SignInInv'
  <1>1. OidcTypeOK'
    BY DEF SignInInv, OidcTypeOK
  <1>2. PastOK' /\ CacheOK'
    BY DEF SignInInv, PastOK, CacheOK, Stamped
  <1>3. ASSUME NEW u \in Threads PROVE CallOK(call[u])'
    <2>1. CallOK(call'[u])
      BY DEF SignInInv, OidcTypeOK
    <2> QED BY <2>1 DEF CallOK, LateOK, Stamped
  <1> QED BY <1>1, <1>2, <1>3 DEF SignInInv

LEMMA BeginKeeps ==
  ASSUME SignInInv, NEW t \in Threads, NEW k \in Kids, NEW cl \in Tokens, Begin(t, k, cl)
  PROVE  SignInInv'
  <1> DEFINE c == Call(k, cl, k \in published,
                       withdrawn[k] # None /\ clock >= withdrawn[k] + Lifetime)
  <1>1. c \in Calls
    BY DEF Call, Calls, Times
  <1>2. CallOK(c)
    BY DEF Call, CallOK, LateOK
  <1>3. call' = [call EXCEPT ![t] = c] /\ UNCHANGED <<clock, published, withdrawn, cache>>
    BY DEF Begin, Set
  <1> QED BY <1>1, <1>2, <1>3, OwnStep

LEMMA LookupKeeps ==
  ASSUME SignInInv, NEW t \in Threads, Lookup(t)
  PROVE  SignInInv'
  <1> USE OidcAssumption, IdleIsNoCall
  <1>1. call[t] \in Calls /\ call[t].pc = "keys" /\ CallOK(call[t])
    BY DEF SignInInv, OidcTypeOK, Lookup
  <1> DEFINE fresh == [call[t] EXCEPT !.pc = "check", !.keys = cache.keys]
             stale == [call[t] EXCEPT !.pc = "fetch", !.now = clock]
  <1>2. CASE ~call[t].forced /\ Fresh(clock)
    <2>1. fresh \in Calls
      BY <1>1 DEF Calls, SignInInv, OidcTypeOK
    <2>2. LateOK(fresh)
      BY <1>1 DEF Calls, CallOK, LateOK
    <2>3. ASSUME call[t].late PROVE call[t].kid \notin cache.keys
      <3>1. cache.at \in Nat /\ clock - cache.at < Lifetime /\ clock \in Nat
        BY <1>2 DEF Fresh, SignInInv, OidcTypeOK, Times
      <3>2. withdrawn[call[t].kid] \in Nat /\ clock >= withdrawn[call[t].kid] + Lifetime
        BY <1>1, <2>3 DEF CallOK, LateOK, SignInInv, OidcTypeOK, Times, Calls
      <3>3. \A k \in cache.keys : withdrawn[k] = None \/ withdrawn[k] >= cache.at
        BY <1>2 DEF Fresh, SignInInv, CacheOK, Stamped
      <3> QED BY <3>1, <3>2, <3>3
    <2>4. CallOK(fresh)
      BY <1>1, <2>2, <2>3 DEF Calls, CallOK
    <2>5. call' = [call EXCEPT ![t] = fresh] /\ UNCHANGED <<clock, published, withdrawn, cache>>
      BY <1>2 DEF Lookup, Set
    <2> QED BY <2>1, <2>4, <2>5, OwnStep
  <1>3. CASE ~(~call[t].forced /\ Fresh(clock))
    <2>1. stale \in Calls
      BY <1>1 DEF Calls, SignInInv, OidcTypeOK, Times
    <2>2. CallOK(stale)
      BY <1>1 DEF Calls, CallOK, LateOK, SignInInv, OidcTypeOK
    <2>3. call' = [call EXCEPT ![t] = stale] /\ UNCHANGED <<clock, published, withdrawn, cache>>
      BY <1>3 DEF Lookup, Set
    <2> QED BY <2>1, <2>2, <2>3, OwnStep
  <1> QED BY <1>2, <1>3

LEMMA FetchKeeps ==
  ASSUME SignInInv, NEW t \in Threads, Fetch(t)
  PROVE  SignInInv'
  <1> USE OidcAssumption, IdleIsNoCall
  <1>1. call[t] \in Calls /\ call[t].pc = "fetch" /\ CallOK(call[t])
    BY DEF SignInInv, OidcTypeOK, Fetch
  <1> DEFINE got == [call[t] EXCEPT !.pc = "store", !.keys = published]
             none == [call[t] EXCEPT !.pc = "refused", !.now = None, !.keys = {}]
             lost == [call[t] EXCEPT !.pc = "refused", !.now = None, !.steady = FALSE]
  <1>2. got \in Calls /\ none \in Calls /\ lost \in Calls
    BY <1>1 DEF Calls, SignInInv, OidcTypeOK, Times
  <1>3. CallOK(none) /\ CallOK(lost)
    BY <1>1 DEF Calls, CallOK, LateOK
  <1>4. CallOK(got)
    <2>1. Stamped(published, call[t].now)
      BY <1>1 DEF CallOK, Stamped, SignInInv, PastOK, OidcTypeOK
    <2>2. LateOK(got)
      BY <1>1 DEF Calls, CallOK, LateOK
    <2>3. call[t].late => call[t].kid \notin published
      BY <1>1 DEF CallOK, LateOK, SignInInv, PastOK, Calls
    <2> QED BY <1>1, <2>1, <2>2, <2>3 DEF Calls, CallOK
  <1>5. UNCHANGED <<clock, published, withdrawn, cache>>
    BY DEF Fetch
  <1>6. \/ call' = [call EXCEPT ![t] = got]
        \/ call' = [call EXCEPT ![t] = none]
        \/ call' = [call EXCEPT ![t] = lost]
    BY DEF Fetch, Set, Answer
  <1> QED BY <1>2, <1>3, <1>4, <1>5, <1>6, OwnStep

LEMMA StoreKeeps ==
  ASSUME SignInInv, NEW t \in Threads, Store(t)
  PROVE  SignInInv'
  <1> USE OidcAssumption, IdleIsNoCall
  <1>1. call[t] \in Calls /\ call[t].pc = "store" /\ CallOK(call[t])
    BY DEF SignInInv, OidcTypeOK, Store
  <1> DEFINE c == [call[t] EXCEPT !.pc = "check", !.now = None]
  <1>2. c \in Calls /\ CallOK(c)
    BY <1>1 DEF Calls, Times, CallOK, LateOK
  <1>3. cache' = [keys |-> call[t].keys, at |-> call[t].now]
    BY DEF Store
  <1>4. UNCHANGED <<clock, published, withdrawn>> /\ call' = [call EXCEPT ![t] = c]
    BY DEF Store, Set
  <1>5. CacheOK'
    BY <1>1, <1>3, <1>4 DEF CallOK, CacheOK, Stamped
  <1>6. PastOK'
    BY <1>4 DEF SignInInv, PastOK
  <1>7. OidcTypeOK'
    BY <1>1, <1>2, <1>3, <1>4 DEF SignInInv, OidcTypeOK, Calls
  <1>8. ASSUME NEW u \in Threads PROVE CallOK(call[u])'
    <2>1. CallOK(call'[u])
      BY <1>2, <1>4 DEF SignInInv, OidcTypeOK
    <2> QED BY <1>4, <2>1 DEF CallOK, LateOK, Stamped
  <1> QED BY <1>5, <1>6, <1>7, <1>8 DEF SignInInv

LEMMA CheckKeeps ==
  ASSUME SignInInv, NEW t \in Threads, Check(t)
  PROVE  SignInInv'
  <1> USE OidcAssumption, IdleIsNoCall
  <1>1. call[t] \in Calls /\ call[t].pc = "check" /\ CallOK(call[t])
    BY DEF SignInInv, OidcTypeOK, Check
  <1> DEFINE yes == [call[t] EXCEPT !.pc = "accepted", !.now = None, !.keys = {}]
             no == [call[t] EXCEPT !.pc = "refused", !.now = None, !.keys = {}]
             again == [call[t] EXCEPT !.pc = "keys", !.forced = TRUE, !.keys = {}]
  <1>2. yes \in Calls /\ no \in Calls /\ again \in Calls
    BY <1>1 DEF Calls, Times
  <1>3. CallOK(no) /\ CallOK(again)
    BY <1>1 DEF Calls, CallOK, LateOK
  <1>4. ASSUME call[t].kid \in call[t].keys PROVE CallOK(yes)
    BY <1>1, <1>4 DEF Calls, CallOK, LateOK
  <1>5. UNCHANGED <<clock, published, withdrawn, cache>>
    BY DEF Check
  <1>6. \/ call[t].kid \in call[t].keys /\ call' = [call EXCEPT ![t] = yes]
        \/ call' = [call EXCEPT ![t] = again]
        \/ call' = [call EXCEPT ![t] = no]
    BY DEF Check, Set, Answer
  <1> QED BY <1>2, <1>3, <1>4, <1>5, <1>6, OwnStep

LEMMA LeaveKeeps ==
  ASSUME SignInInv, NEW t \in Threads, Leave(t)
  PROVE  SignInInv'
  <1>1. CallOK(Idle)
    BY DEF CallOK, Idle
  <1>2. call' = [call EXCEPT ![t] = Idle] /\ UNCHANGED <<clock, published, withdrawn, cache>>
    BY DEF Leave, Set
  <1> QED BY <1>1, <1>2, OwnStep

LEMMA TickKeeps == SignInInv /\ Tick => SignInInv'
  <1> SUFFICES ASSUME SignInInv, Tick PROVE SignInInv' OBVIOUS
  <1> USE OidcAssumption, IdleIsNoCall
  <1>1. clock \in Nat /\ clock' = clock + 1 /\ UNCHANGED <<published, withdrawn, cache, call>>
    BY DEF Tick, SignInInv, OidcTypeOK
  <1>2. OidcTypeOK'
    BY <1>1 DEF SignInInv, OidcTypeOK
  <1>3. PastOK'
    BY <1>1 DEF SignInInv, OidcTypeOK, PastOK, Times
  <1>4. CacheOK'
    BY <1>1 DEF SignInInv, OidcTypeOK, CacheOK, Stamped, Times
  <1>5. ASSUME NEW t \in Threads PROVE CallOK(call[t])'
    <2>1. call[t] \in Calls \cup {Idle} /\ CallOK(call[t])
      BY DEF SignInInv, OidcTypeOK
    <2>2. CASE call[t] = Idle
      BY <1>1, <2>2 DEF CallOK
    <2>3. CASE call[t] \in Calls
      <3>1. LateOK(call[t])'
        BY <1>1, <2>1, <2>3 DEF CallOK, LateOK, Calls, SignInInv, OidcTypeOK, Times
      <3>2. (call[t].pc = "fetch" => call[t].now # None /\ call[t].now <= clock)'
        BY <1>1, <2>1, <2>3 DEF CallOK, Calls, Times
      <3>3. (call[t].pc = "store" => Stamped(call[t].keys, call[t].now))'
        BY <1>1, <2>1, <2>3 DEF CallOK, Stamped, Calls, Times
      <3> QED BY <1>1, <2>1, <3>1, <3>2, <3>3 DEF CallOK
    <2> QED BY <2>1, <2>2, <2>3
  <1> QED BY <1>2, <1>3, <1>4, <1>5 DEF SignInInv

LEMMA PublishKeeps == ASSUME SignInInv, NEW k \in Kids, Publish(k) PROVE SignInInv'
  <1> USE OidcAssumption, IdleIsNoCall
  <1>1. /\ published' = published \cup {k} /\ withdrawn' = [withdrawn EXCEPT ![k] = None]
        /\ UNCHANGED <<clock, cache>>
    BY DEF Publish
  <1>2. \A t \in Threads : call'[t] = IF call[t].pc # "idle" /\ call[t].kid = k
                                      THEN [call[t] EXCEPT !.late = FALSE] ELSE call[t]
    BY DEF Publish
  <1>3. ASSUME NEW t \in Threads PROVE call'[t] \in Calls \cup {Idle} /\ CallOK(call[t])'
    <2>1. call[t] \in Calls \cup {Idle} /\ CallOK(call[t])
      BY DEF SignInInv, OidcTypeOK
    <2>2. CASE call[t] = Idle
      BY <1>2, <2>2 DEF CallOK
    <2>3. CASE call[t] \in Calls /\ call[t].kid = k
      <3>1. call'[t] = [call[t] EXCEPT !.late = FALSE]
        BY <1>2, <2>3 DEF Calls
      <3>2. Stamped(call[t].keys, call[t].now) => Stamped(call[t].keys, call[t].now)'
        BY <1>1, <2>3, <3>1 DEF Stamped, Calls, SignInInv, OidcTypeOK
      <3>3. call'[t] \in Calls
        BY <2>3, <3>1 DEF Calls
      <3> QED BY <1>1, <2>1, <2>3, <3>1, <3>2, <3>3 DEF CallOK, LateOK, Calls
    <2>4. CASE call[t] \in Calls /\ call[t].kid # k
      <3>1. call'[t] = call[t]
        BY <1>2, <2>4
      <3>2. Stamped(call[t].keys, call[t].now) => Stamped(call[t].keys, call[t].now)'
        BY <1>1, <2>4, <3>1 DEF Stamped, Calls, SignInInv, OidcTypeOK
      <3>3. LateOK(call[t]) => LateOK(call[t])'
        BY <1>1, <2>4, <3>1 DEF LateOK, Calls, SignInInv, OidcTypeOK
      <3> QED BY <1>1, <2>1, <2>4, <3>1, <3>2, <3>3 DEF CallOK
    <2> QED BY <2>1, <2>2, <2>3, <2>4
  <1>4. OidcTypeOK'
    <2>1. call' \in [Threads -> Calls \cup {Idle}]
      BY <1>3 DEF Publish
    <2> QED BY <1>1, <2>1 DEF SignInInv, OidcTypeOK, Times
  <1>5. PastOK'
    BY <1>1 DEF SignInInv, OidcTypeOK, PastOK
  <1>6. CacheOK'
    BY <1>1 DEF SignInInv, OidcTypeOK, CacheOK, Stamped
  <1> QED BY <1>3, <1>4, <1>5, <1>6 DEF SignInInv

LEMMA WithdrawKeeps == ASSUME SignInInv, NEW k \in Kids, Withdraw(k) PROVE SignInInv'
  <1> USE OidcAssumption, IdleIsNoCall
  <1>1. /\ k \in published /\ published' = published \ {k}
        /\ withdrawn' = [withdrawn EXCEPT ![k] = clock] /\ UNCHANGED <<clock, cache>>
    BY DEF Withdraw
  <1>2. \A t \in Threads : call'[t] = IF call[t].pc # "idle" /\ call[t].kid = k
                                      THEN [call[t] EXCEPT !.steady = FALSE] ELSE call[t]
    BY DEF Withdraw
  <1>3. ASSUME NEW t \in Threads PROVE call'[t] \in Calls \cup {Idle} /\ CallOK(call[t])'
    <2>1. call[t] \in Calls \cup {Idle} /\ CallOK(call[t])
      BY DEF SignInInv, OidcTypeOK
    <2>2. CASE call[t] = Idle
      BY <1>2, <2>2 DEF CallOK
    <2>3. ASSUME call[t] \in Calls
          PROVE /\ call'[t] \in Calls /\ call'[t].pc = call[t].pc /\ call'[t].kid = call[t].kid
                /\ call'[t].now = call[t].now /\ call'[t].keys = call[t].keys
                /\ call'[t].late = call[t].late
      BY <1>2, <2>3 DEF Calls
    <2>4. CASE call[t] \in Calls
      <3>1. LateOK(call[t])'
        BY <1>1, <2>1, <2>3, <2>4 DEF CallOK, LateOK, Calls, SignInInv, OidcTypeOK, PastOK
      <3>2. (call[t].pc = "store" => Stamped(call[t].keys, call[t].now))'
        BY <1>1, <2>1, <2>3, <2>4 DEF CallOK, Stamped, Calls, SignInInv, OidcTypeOK, Times
      <3> QED BY <1>1, <2>1, <2>3, <2>4, <3>1, <3>2 DEF CallOK
    <2> QED BY <2>1, <2>2, <2>3, <2>4
  <1>4. OidcTypeOK'
    <2>1. call' \in [Threads -> Calls \cup {Idle}]
      BY <1>3 DEF Withdraw
    <2> QED BY <1>1, <2>1 DEF SignInInv, OidcTypeOK, Times
  <1>5. PastOK'
    BY <1>1 DEF SignInInv, OidcTypeOK, PastOK, Times
  <1>6. CacheOK'
    BY <1>1 DEF SignInInv, OidcTypeOK, CacheOK, Stamped, Times
  <1> QED BY <1>3, <1>4, <1>5, <1>6 DEF SignInInv

LEMMA StepKeeps == SignInInv /\ [OidcNext]_oidcVars => SignInInv'
  <1> SUFFICES ASSUME SignInInv, [OidcNext]_oidcVars PROVE SignInInv' OBVIOUS
  <1>1. CASE UNCHANGED oidcVars
    BY <1>1 DEF oidcVars, SignInInv, OidcTypeOK, PastOK, CacheOK, CallOK, LateOK, Stamped
  <1>2. CASE World
    BY <1>2, TickKeeps, PublishKeeps, WithdrawKeeps DEF World
  <1>3. ASSUME NEW t \in Threads, Verify(t) \/ Leave(t) PROVE SignInInv'
    BY <1>3, LookupKeeps, FetchKeeps, StoreKeeps, CheckKeeps, LeaveKeeps DEF Verify
  <1>4. ASSUME NEW t \in Threads, NEW k \in Kids, NEW c \in Tokens, Begin(t, k, c) PROVE SignInInv'
    BY <1>4, BeginKeeps
  <1> QED BY <1>1, <1>2, <1>3, <1>4 DEF OidcNext

(* A token under a key that the issuer withdrew Lifetime or more ago is        *)
(* refused, whatever threads fetch and store at the same time.                 *)
THEOREM RotatedOut == OidcSpec => []RotatedOutIsRefused
  <1>1. SignInInv => RotatedOutIsRefused
    BY DEF SignInInv, CallOK, RotatedOutIsRefused
  <1> QED BY <1>1, SignInBegins, StepKeeps, PTL DEF OidcSpec

-------------------------------------------------------------------------------
(* A rotation refuses nobody: a call that saw its key published from the start *)
(* finds it when it asks the issuer itself, and it asks before it refuses.     *)

SteadyOK(c) ==
  c.pc # "idle" /\ c.steady =>
    /\ c.kid \in published
    /\ c.pc \in {"store", "check"} /\ c.forced => c.kid \in c.keys
    /\ c.pc = "refused" => ~ClaimsOk(c.claims)

SteadyInv == \A t \in Threads : SteadyOK(call[t])

\* A token that is out of order stays so.
LEMMA ClaimsPass ==
  ASSUME SignInInv, NEW cl \in Tokens, ~ClaimsOk(cl), clock' \in {clock, clock + 1}
  PROVE  ~ClaimsOk(cl)'
  <1>1. clock \in Nat /\ cl.ends \in Nat
    BY OidcAssumption DEF SignInInv, OidcTypeOK, Claims
  <1> QED BY <1>1 DEF ClaimsOk, Mapped

\* What thread t does with its own call does not matter to the others.
LEMMA OwnSteady ==
  ASSUME SignInInv, SteadyInv, NEW t \in Threads, NEW c, call' = [call EXCEPT ![t] = c], SteadyOK(c),
         clock' = clock, published' = published
  PROVE  SteadyInv'
  <1>1. ASSUME NEW u \in Threads PROVE SteadyOK(call[u])'
    <2>1. SteadyOK(call'[u])
      BY DEF SteadyInv, SignInInv, OidcTypeOK
    <2> QED BY <2>1 DEF SteadyOK, ClaimsOk, Mapped
  <1> QED BY <1>1 DEF SteadyInv

LEMMA SteadyStep == ASSUME SignInInv, SteadyInv, [OidcNext]_oidcVars PROVE SteadyInv'
  <1> USE IdleIsNoCall
  <1>1. CASE UNCHANGED oidcVars
    BY <1>1 DEF oidcVars, SteadyInv, SteadyOK, ClaimsOk, Mapped
  <1>2. ASSUME Tick PROVE SteadyInv'
    <2> SUFFICES ASSUME NEW t \in Threads PROVE SteadyOK(call[t])'
      BY DEF SteadyInv
    <2>1. call' = call /\ published' = published /\ clock' = clock + 1
      BY <1>2 DEF Tick
    <2>2. CASE call[t] \in Calls
      <3>1. call[t].claims \in Tokens
        BY <2>2 DEF Calls
      <3> QED BY <2>1, <3>1, ClaimsPass DEF SteadyInv, SteadyOK
    <2>3. CASE call[t] = Idle
      BY <2>1, <2>3 DEF SteadyOK
    <2> QED BY <2>2, <2>3 DEF SignInInv, OidcTypeOK
  <1>3. ASSUME NEW k \in Kids, Publish(k) \/ Withdraw(k) PROVE SteadyInv'
    <2> SUFFICES ASSUME NEW t \in Threads PROVE SteadyOK(call[t])'
      BY DEF SteadyInv
    <2>1. clock' = clock /\ (Publish(k) => published' = published \cup {k})
          /\ (Withdraw(k) => published' = published \ {k})
      BY <1>3 DEF Publish, Withdraw
    <2>2. CASE call[t] \in Calls
      <3>1. /\ call'[t].pc = call[t].pc /\ call'[t].kid = call[t].kid /\ call'[t].keys = call[t].keys
            /\ call'[t].forced = call[t].forced /\ call'[t].claims = call[t].claims
            /\ call'[t].steady => call[t].steady /\ ~(Withdraw(k) /\ call[t].kid = k)
        BY <1>3, <2>2 DEF Publish, Withdraw, Calls
      <3>2. call'[t].steady /\ call[t].pc # "idle" => call[t].kid \in published'
        BY <1>3, <2>1, <3>1 DEF SteadyInv, SteadyOK
      <3>3. ClaimsOk(call[t].claims)' <=> ClaimsOk(call[t].claims)
        BY <2>1, <3>1 DEF ClaimsOk, Mapped
      <3> QED BY <3>1, <3>2, <3>3 DEF SteadyInv, SteadyOK
    <2>3. CASE call[t] = Idle
      <3>1. call'[t] = Idle
        BY <1>3, <2>3 DEF Publish, Withdraw
      <3> QED BY <3>1 DEF SteadyOK
    <2> QED BY <2>2, <2>3 DEF SignInInv, OidcTypeOK
  <1>4. ASSUME NEW t \in Threads, NEW k \in Kids, NEW cl \in Tokens, Begin(t, k, cl) PROVE SteadyInv'
    <2> DEFINE c == Call(k, cl, k \in published,
                         withdrawn[k] # None /\ clock >= withdrawn[k] + Lifetime)
    <2>1. SteadyOK(c)
      BY DEF Call, SteadyOK
    <2>2. call' = [call EXCEPT ![t] = c] /\ clock' = clock /\ published' = published
      BY <1>4 DEF Begin, Set
    <2> HIDE DEF c
    <2> QED BY <2>1, <2>2, OwnSteady
  <1>5. ASSUME NEW t \in Threads, Verify(t) PROVE SteadyInv'
    <2>1. call[t] \in Calls /\ SteadyOK(call[t]) /\ clock' = clock /\ published' = published
      BY <1>5 DEF SignInInv, OidcTypeOK, SteadyInv, Verify, Lookup, Fetch, Store, Check
    <2>2. PICK c : call' = [call EXCEPT ![t] = c] /\ SteadyOK(c)
      <3>1. CASE Lookup(t)
        <4> DEFINE c == IF ~call[t].forced /\ Fresh(clock)
                        THEN [call[t] EXCEPT !.pc = "check", !.keys = cache.keys]
                        ELSE [call[t] EXCEPT !.pc = "fetch", !.now = clock]
        <4>1. SteadyOK(c)
          BY <2>1, <3>1 DEF Lookup, Calls, SteadyOK
        <4>2. call' = [call EXCEPT ![t] = c]
          BY <3>1 DEF Lookup, Set
        <4> QED BY <4>1, <4>2
      <3>2. CASE Fetch(t)
        <4> DEFINE got == [call[t] EXCEPT !.pc = "store", !.keys = published]
                   none == [call[t] EXCEPT !.pc = "refused", !.now = None, !.keys = {}]
                   lost == [call[t] EXCEPT !.pc = "refused", !.now = None, !.steady = FALSE]
        <4>1. SteadyOK(got) /\ SteadyOK(lost)
          BY <2>1, <3>2 DEF Fetch, Calls, SteadyOK
        <4>2. published = {} => SteadyOK(none)
          BY <2>1, <3>2 DEF Fetch, Calls, SteadyOK
        <4>3. \/ call' = [call EXCEPT ![t] = got]
              \/ published = {} /\ call' = [call EXCEPT ![t] = none]
              \/ call' = [call EXCEPT ![t] = lost]
          BY <3>2 DEF Fetch, Set, Answer
        <4> HIDE DEF got, none, lost
        <4> QED BY <4>1, <4>2, <4>3
      <3>3. CASE Store(t)
        <4> DEFINE c == [call[t] EXCEPT !.pc = "check", !.now = None]
        <4>1. SteadyOK(c)
          BY <2>1, <3>3 DEF Store, Calls, SteadyOK
        <4>2. call' = [call EXCEPT ![t] = c]
          BY <3>3 DEF Store, Set
        <4> QED BY <4>1, <4>2
      <3>4. CASE Check(t)
        <4> DEFINE yes == [call[t] EXCEPT !.pc = "accepted", !.now = None, !.keys = {}]
                   no == [call[t] EXCEPT !.pc = "refused", !.now = None, !.keys = {}]
                   again == [call[t] EXCEPT !.pc = "keys", !.forced = TRUE, !.keys = {}]
                   known == call[t].kid \in call[t].keys
        <4>1. SteadyOK(yes) /\ SteadyOK(again)
          BY <2>1, <3>4 DEF Check, Calls, SteadyOK
        <4>2. (IF known THEN ~ClaimsOk(call[t].claims) ELSE call[t].forced) => SteadyOK(no)
          BY <2>1, <3>4 DEF Check, Calls, SteadyOK
        <4>3. \/ call' = [call EXCEPT ![t] = yes]
              \/ call' = [call EXCEPT ![t] = again]
              \/ /\ IF known THEN ~ClaimsOk(call[t].claims) ELSE call[t].forced
                 /\ call' = [call EXCEPT ![t] = no]
          BY <3>4 DEF Check, Set, Answer
        <4> HIDE DEF yes, no, again, known
        <4> QED BY <4>1, <4>2, <4>3
      <3> QED BY <1>5, <3>1, <3>2, <3>3, <3>4 DEF Verify
    <2> QED BY <2>1, <2>2, OwnSteady
  <1>6. ASSUME NEW t \in Threads, Leave(t) PROVE SteadyInv'
    <2>1. call' = [call EXCEPT ![t] = Idle] /\ clock' = clock /\ published' = published /\ SteadyOK(Idle)
      BY <1>6 DEF Leave, Set, SteadyOK
    <2> QED BY <2>1, OwnSteady
  <1> QED BY <1>1, <1>2, <1>3, <1>4, <1>5, <1>6 DEF OidcNext, World

(* While the issuer answers, a token in order under a key it publishes all     *)
(* along is never refused, whatever is in the cache.                           *)
THEOREM NoOutage == OidcSpec => []RotationIsNoOutage
  <1>1. OidcInit => SignInInv /\ SteadyInv
    BY SignInBegins, IdleIsNoCall DEF OidcInit, SteadyInv, SteadyOK
  <1>2. SignInInv /\ SteadyInv /\ [OidcNext]_oidcVars => SignInInv' /\ SteadyInv'
    BY StepKeeps, SteadyStep
  <1>3. SteadyInv => RotationIsNoOutage
    BY DEF SteadyInv, SteadyOK, RotationIsNoOutage
  <1> QED BY <1>1, <1>2, <1>3, PTL DEF OidcSpec

-------------------------------------------------------------------------------
(* The server signs its users in with the provider as it stands: what its      *)
(* statements do in between leaves the provider alone.                         *)
THEOREM ServerSignsIn == Spec => OidcSpec /\ []RotatedOutIsRefused /\ []RotationIsNoOutage
  <1>1. Init => OidcInit
    BY DEF Init
  <1>2. [Next]_vars => [OidcNext]_oidcVars
    BY DEF Next, vars
  <1> QED BY <1>1, <1>2, RotatedOut, NoOutage, PTL DEF Spec, OidcSpec
===============================================================================
