------------------------------ MODULE AuditExport ------------------------------
(***************************************************************************)
(* The audit chain and the checks on an exported one                       *)
(* (server/audit_export.py).  An entry is what it records (timestamp,      *)
(* actor, action, target and payload, as one value) and its two hashes.    *)
(* SHA-256 is idealized: the hash of an entry is the sequence of           *)
(* everything that went into it, so equal hashes mean equal inputs.        *)
(***************************************************************************)
EXTENDS Naturals, Sequences

NoHash == <<>>                       \* first_prev_hash

EntryHash(prev, what) == Append(prev, what)

\* What audit_append inserts after the entry whose hash is `prev`.
NewEntry(prev, what) == [what |-> what, prev |-> prev, hash |-> EntryHash(prev, what)]

\* The hash the next entry links to.
TailHash(entries) == IF entries = <<>> THEN NoHash ELSE entries[Len(entries)].hash

Preceding(entries, i) == IF i = 1 THEN NoHash ELSE entries[i - 1].hash

LinkHolds(entries, i) == entries[i].prev = Preceding(entries, i)
ContentHolds(entries, i) == entries[i].hash = EntryHash(entries[i].prev, entries[i].what)

Broken(entries) ==
  {i \in DOMAIN entries : ~LinkHolds(entries, i) \/ ~ContentHolds(entries, i)}

\* verify_chain: whether the chain holds, and the first entry that does not
\* (0: none), with the check it fails first.
VerifyChain(entries) ==
  LET at == IF Broken(entries) = {} THEN 0
            ELSE CHOOSE i \in Broken(entries) : \A j \in Broken(entries) : i <= j
  IN [valid |-> Broken(entries) = {},
      broken_at |-> at,
      reason |-> IF at = 0 THEN "none" ELSE IF LinkHolds(entries, at) THEN "edited" ELSE "link"]

\* _continuity: does the export `current` still contain the `earlier` one?
Continuity(current, earlier) ==
  IF Len(current) < Len(earlier) THEN "truncated"
  ELSE IF \E i \in DOMAIN earlier : earlier[i].hash # current[i].hash THEN "rewritten"
  ELSE "continuous"

(* ------------------------- the export and its check ---------------------- *)

\* No key: the export is not sealed, or nobody looks at the seal.
NoKey == "no key"

\* The HMAC of a document is everything that goes into it: the key and the
\* document without its seal.
Seal(document, key) ==
  IF key = NoKey THEN <<>> ELSE <<key, [document EXCEPT !.seal = <<>>]>>

FirstHash(entries) == IF entries = <<>> THEN NoHash ELSE entries[1].hash

\* A broken chain is exported, and called broken.
BuildExport(entries, key) ==
  LET document == [entry_count |-> Len(entries), first |-> FirstHash(entries), last |-> TailHash(entries),
                   chain |-> VerifyChain(entries), entries |-> entries, seal |-> <<>>]
  IN [document EXCEPT !.seal = Seal(document, key)]

\* The problems verify_export finds, from the document, the key and an earlier
\* document alone.
VerifyExport(document, key, earlier) ==
  {p \in {"chain", "entry_count", "hashes", "seal", "continuity"} :
     \/ p = "chain" /\ ~VerifyChain(document.entries).valid
     \/ p = "entry_count" /\ document.entry_count # Len(document.entries)
     \/ p = "hashes" /\ (document.first # FirstHash(document.entries) \/ document.last # TailHash(document.entries))
     \/ p = "seal" /\ key # NoKey /\ document.seal # Seal(document, key)
     \/ p = "continuity" /\ Continuity(document.entries, earlier.entries) # "continuous"}

\* `apiverity audit export` and `audit verify --against`.
ExportCommand(entries, key) ==
  LET document == BuildExport(entries, key)
  IN [document |-> document, exit |-> IF document.chain.valid THEN "ok" ELSE "findings"]
VerifyCommand(document, key, earlier) ==
  IF VerifyExport(document, key, earlier) = {} THEN "ok" ELSE "findings"
===============================================================================
