------------------------------- MODULE Health -------------------------------
(***************************************************************************)
(* Contract health across a repository: `sweep` reads every contract of a  *)
(* tree and its owners, `digest` tells each team what moved since the      *)
(* sweep before (cli/commands/governance.py, cli/commands/project.py,      *)
(* core/ownership.py, reports/digest.py).                                  *)
(*                                                                         *)
(* The tree and CODEOWNERS change at any time, also while a sweep reads.   *)
(* A contract is what loading it and comparing it to the base tree find.   *)
(***************************************************************************)
EXTENDS Naturals, FiniteSets, Sequences

CONSTANTS Paths,      \* contract files, in the order a walk sorts them
          Teams,
          Unowned,    \* the bucket of contracts no rule matches
          Contents,   \* [there, readable, findings, breaking]
          BaseTree,   \* path -> "absent", "unreadable" or "readable" in the --base tree
          RuleSets,   \* the CODEOWNERS files there may be: [matches, owners] in file order
          Limit,      \* --limit
          None,
          MaxEdits    \* bound: changes of the tree and of CODEOWNERS

VARIABLES tree,      \* path -> content
          rules,     \* CODEOWNERS
          sweep,     \* the sweep being run: [todo, rules, records], or None
          artifact,  \* the sweep that has just ended, or None
          since,     \* the sweep the last digests were made from, or None
          sent,      \* team -> the digest it was last due: [to, failing, ...]
          told,      \* team -> the contracts its last digest called failing
          edits

vars == <<tree, rules, sweep, artifact, since, sent, told, edits>>

Receivers == Teams \cup {Unowned}

-----------------------------------------------------------------------------
(* Ownership and discovery. *)

\* The last matching rule wins.
OwnersOf(file, p) ==
  LET hits == { i \in DOMAIN file : p \in file[i].matches }
  IN IF hits = {} THEN {} ELSE file[CHOOSE i \in hits : \A j \in hits : j <= i].owners

\* The first Limit contract files of the sorted walk.
Discovered ==
  LET found == { p \in Paths : tree[p].there }
  IN { p \in found : Cardinality({ q \in found : q < p }) < Limit }

-----------------------------------------------------------------------------
(* The sweep. *)

Errors(findings) == { f \in findings : f.severity = "ERROR" }

Unreadable(owners) == [owners |-> owners, failing |-> TRUE, status |-> "unreadable", findings |-> {}]

\* A contract that will not load is the loudest finding about it; a contract the base
\* tree has in a readable form is compared with it.
Record(p, file, content) ==
  LET owners == OwnersOf(file, p)
      findings == content.findings \cup (IF BaseTree[p] = "readable" THEN content.breaking ELSE {})
  IN IF ~content.there \/ ~content.readable THEN Unreadable(owners)
     ELSE [owners   |-> owners,
           failing  |-> Errors(findings) # {},
           status   |-> IF Errors(findings) # {} THEN "failing" ELSE "ok",
           findings |-> { f \in findings : f.severity \in {"ERROR", "WARN"} }]

\* Nothing found is a usage error: no artifact is written.
StartSweep ==
  /\ sweep = None /\ artifact = None
  /\ Discovered # {}
  /\ sweep' = [todo |-> Discovered, rules |-> rules, records |-> [p \in {} |-> Unreadable({})]]
  /\ UNCHANGED <<tree, rules, artifact, since, sent, told, edits>>

ReadContract ==
  /\ sweep # None
  /\ \E p \in sweep.todo :
       /\ \A q \in sweep.todo : p <= q
       /\ sweep' = [sweep EXCEPT !.todo = @ \ {p},
                                 !.records = [q \in DOMAIN @ \cup {p} |->
                                                IF q = p THEN Record(p, sweep.rules, tree[p]) ELSE @[q]]]
  /\ UNCHANGED <<tree, rules, artifact, since, sent, told, edits>>

EndSweep ==
  /\ sweep # None /\ sweep.todo = {}
  /\ artifact' = sweep.records
  /\ sweep' = None
  /\ UNCHANGED <<tree, rules, since, sent, told, edits>>

-----------------------------------------------------------------------------
(* The digest. *)

Addressees(record) == IF record.owners = {} THEN {Unowned} ELSE record.owners

Owned(records, t) == { p \in DOMAIN records : t \in Addressees(records[p]) }

Failing(records, t) == { p \in Owned(records, t) : records[p].failing }

\* Without an earlier sweep nothing is new, fixed or gone.
Before == IF since = None THEN [p \in {} |-> Unreadable({})] ELSE since

Compared(t) == { p \in Owned(artifact, t) : since # None /\ p \in DOMAIN Before }

NewlyFailing(t) ==
  { p \in Failing(artifact, t) : since # None /\ (p \in DOMAIN Before => ~Before[p].failing) }

Fixed(t) == { p \in Compared(t) : Before[p].failing /\ ~artifact[p].failing }

\* Mutant: only the contracts this sweep looked at.
NoLongerSwept_Dropped(t) == {}

NoLongerSwept(t) == Owned(Before, t) \ DOMAIN artifact

Appeared(t) == UNION { {p} \X (artifact[p].findings \ Before[p].findings) : p \in Compared(t) }

Resolved(t) == UNION { {p} \X (Before[p].findings \ artifact[p].findings) : p \in Compared(t) }

UnreadableOf(t) == { p \in Owned(artifact, t) : artifact[p].status = "unreadable" }

\* Nothing to say: the digest is not sent.
Quiet(t) ==
  /\ Failing(artifact, t) = {} /\ Appeared(t) = {} /\ Resolved(t) = {}
  /\ NoLongerSwept(t) = {} /\ UnreadableOf(t) = {}

Due(t) == Owned(artifact, t) # {} \/ NoLongerSwept(t) # {}

DigestFor(t) ==
  [to |-> Due(t) /\ ~Quiet(t), failing |-> Failing(artifact, t), newly |-> NewlyFailing(t),
   standing |-> IF since = None THEN {} ELSE Failing(artifact, t) \ NewlyFailing(t),
   fixed |-> Fixed(t), gone |-> NoLongerSwept(t), unreadable |-> UnreadableOf(t),
   resolved |-> Resolved(t)]

Nothing == [to |-> FALSE, failing |-> {}, newly |-> {}, standing |-> {}, fixed |-> {}, gone |-> {},
            unreadable |-> {}, resolved |-> {}]

\* One document per team, then this sweep is the one the next digests compare with.
Digest ==
  /\ artifact # None
  /\ sent' = [t \in Receivers |-> DigestFor(t)]
  /\ told' = [t \in Receivers |-> IF sent'[t].to THEN sent'[t].failing ELSE {}]
  /\ since' = artifact
  /\ artifact' = None
  /\ UNCHANGED <<tree, rules, sweep, edits>>

\* What the command answers: whether a team that was sent a digest has a new failure.
Exit == IF \E t \in Receivers : sent[t].to /\ sent[t].newly # {} THEN "findings" ELSE "ok"

-----------------------------------------------------------------------------
(* The repository. *)

EditContract ==
  /\ edits < MaxEdits
  /\ \E p \in Paths, c \in Contents : c # tree[p] /\ tree' = [tree EXCEPT ![p] = c]
  /\ edits' = edits + 1
  /\ UNCHANGED <<rules, sweep, artifact, since, sent, told>>

EditOwners ==
  /\ edits < MaxEdits
  /\ \E file \in RuleSets \ {rules} : rules' = file
  /\ edits' = edits + 1
  /\ UNCHANGED <<tree, sweep, artifact, since, sent, told>>

Init ==
  /\ tree \in [Paths -> Contents]
  /\ rules \in RuleSets
  /\ sweep = None /\ artifact = None /\ since = None
  /\ sent = [t \in Receivers |-> Nothing]
  /\ told = [t \in Receivers |-> {}]
  /\ edits = 0

Next ==
  \/ StartSweep \/ ReadContract \/ EndSweep \/ Digest
  \/ EditContract \/ EditOwners

Spec == Init /\ [][Next]_vars

-----------------------------------------------------------------------------
(* What the digests promise. *)

\* What one team is told of a contract in its digest.
Mentions(d, p) == d.to /\ p \in d.failing \cup d.fixed \cup d.gone \cup d.unreadable

\* The contract belongs to others by now: the digest of its old owners forgets it.
HandedOver(t, p) == p \in DOMAIN artifact /\ t \notin Addressees(artifact[p])

\* It could not be read and is clean now, and nothing else is worth a digest: `quiet`
\* does not count what was fixed.
FixedInSilence(t, p) == Before[p].status = "unreadable" /\ p \in Fixed(t) /\ Quiet(t)

\* A failure a team was told of is followed up: its next digest says that the contract
\* still fails, is fixed, is unreadable or was not looked at, unless the contract
\* changed hands or was only unreadable and is clean; and a contract that goes bad
\* between two sweeps ends the command with findings (digest.compare, cmd_digest).
FailureIsFollowed ==
  [][ since' # since =>
        /\ \A t \in Receivers : \A p \in told[t] :
             Mentions(sent'[t], p) \/ HandedOver(t, p) \/ FixedInSilence(t, p)
        /\ (\E p \in DOMAIN artifact :
              since # None /\ p \in DOMAIN since /\ artifact[p].failing /\ ~since[p].failing)
             => Exit' = "findings" ]_vars
=============================================================================
