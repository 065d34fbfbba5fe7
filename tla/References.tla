------------------------------ MODULE References ------------------------------
(***************************************************************************)
(* Contracts of several files (specs/bundle.py, specs/graph.py,            *)
(* specs/openapi/parser.py, cmd_graph): the references of a document to    *)
(* other files are followed and folded into it, and a graph of them tells  *)
(* which contracts read a file.                                            *)
(*                                                                         *)
(* A document maps its fragments to the references they hold, in order; a  *)
(* reference is [kind, path, at]: "here" (within the document), "file",    *)
(* "remote" or "absolute", and "hoisted" once it was rewritten.  The empty *)
(* fragment name is the whole document.  How deep a reference lies within  *)
(* a fragment is left out: depth counts the references that led there.     *)
(*                                                                         *)
(* What is folded in is put among the schemas of the contract, where the   *)
(* walk of the contract may meet it again: it is then read as a part of    *)
(* the contract.  Where the table of schemas lies among the references of  *)
(* the contract, if it has one, is left open.  A reference is rewritten    *)
(* here when its fragment is entered, in the code when that is left.       *)
(***************************************************************************)
EXTENDS Integers, Sequences, FiniteSets, SequencesExt

CONSTANTS None, Disks,     \* what the tree may hold: file -> document, None if it cannot be read
          Contracts,       \* the contracts a walk of the tree finds, in its order
          Redone,          \* what an editor may save meanwhile: <<file, document>>
          MaxFiles, MaxRemote, MaxDepth,  \* limits of the code
          MaxSaves         \* a bound

VARIABLES disk, allow,     \* the tree, and --allow-remote-refs (which `graph` does not have)
          waiting,         \* contracts left to load
          run,             \* the one being loaded, None between two
          loaded,          \* contract -> its run, once it is bundled; None if it cannot be read
          graph,           \* None until it is built
          saves

vars == <<disk, allow, waiting, run, loaded, graph, saves>>

-----------------------------------------------------------------------------
(* Names of files: sequences; a remote one begins with the scheme. *)

Whole == ""
Remote(file) == file[1] = "https://"

\* A path without "..", as far as it stays below the root.
Normal(path, rest) ==
  FoldLeft(LAMBDA p, part : IF part = ".." /\ p # <<>> /\ Last(p) # ".." THEN Front(p) ELSE Append(p, part),
           path, rest)

\* Where a reference points, read from the file that holds it.
Join(origin, ref) == IF ref.kind # "file" THEN ref.path ELSE Normal(Front(origin), ref.path)

\* What a file is called in the reports: from the directory of the contract if it
\* is below that, from the root of the disk otherwise, and a URL without scheme.
Label(entry, file) ==
  LET home == Front(entry)
  IN IF Remote(file) THEN Tail(file)
     ELSE IF IsPrefix(home, file) THEN SubSeq(file, Len(home) + 1, Len(file))
     ELSE <<"root">> \o file

-----------------------------------------------------------------------------
(* Bundling (bundle.py). *)

\* Where the references of a fragment are, or all of the whole document: <<fragment, index>>.
Places(document, at) ==
  UNION { {<<g, i>> : i \in DOMAIN document[g]} : g \in IF at = Whole THEN DOMAIN document ELSE {at} }

\* The same, in the order they are met.
Positions(document, at) ==
  LET of(g) == [i \in DOMAIN document[g] |-> <<g, i>>]
      names == SetToSeq(DOMAIN document)
      upTo[k \in 0..Len(names)] == IF k = 0 THEN <<>> ELSE upTo[k - 1] \o of(names[k])
  IN IF at = Whole THEN upTo[Len(names)] ELSE of(at)

\* A fragment being walked: `file` holds it, its references are read from `origin`.  The
\* table of schemas may lie ahead, in the contract; `again` are the fragments met in it.
Frame(file, origin, document, at, depth, ahead) ==
  [file |-> file, origin |-> origin, todo |-> Positions(document, at), depth |-> depth, ahead |-> ahead,
   again |-> {}]

\* The contract as its caller named it, if that is not its place on the disk: a file that
\* refers back to the contract then reads it a second time.
AsGiven == <<".">>

\* `texts` are the documents read, rewritten in place, `original` the same as they
\* were read, `failed` those that could not be; `own` is the contract among them.
Started(entry, own, document) ==
  [entry |-> entry, own |-> own, texts |-> [f \in {own} |-> document], original |-> [f \in {own} |-> document],
   failed |-> {}, hoisted |-> {}, edges |-> <<>>, findings |-> {},
   stack |-> <<Frame(own, entry, document, Whole, 0, TRUE)>>]

Found(r, rule, file, ref) == [r EXCEPT !.findings = @ \cup {[rule |-> rule, file |-> file, ref |-> ref]}]

\* The edge is drawn before anything is refused.
Drawn(r, ref, resolved, refused) ==
  [r EXCEPT !.edges = Append(@, [source |-> Label(r.entry, Last(r.stack).origin), target |-> ref,
                                 resolved |-> resolved, refused |-> refused])]

Advanced(r) == [r EXCEPT !.stack[Len(r.stack)].todo = Tail(@)]

Refused(r, rule, ref) == Found(Advanced(Drawn(r, ref, None, TRUE)), rule, Last(r.stack).origin, ref)

\* What came of reading a file: the run, with it among the texts or the failed.
Loads(r, file, ref, readable) ==
  IF file \in DOMAIN r.texts \cup r.failed THEN r
  ELSE IF Cardinality(DOMAIN r.texts \cup r.failed) >= MaxFiles
       THEN IF \E f \in r.findings : f.rule = "files" THEN r ELSE Found(r, "files", file, ref)
  ELSE IF Remote(file) /\ Cardinality({ f \in DOMAIN r.texts \cup r.failed : Remote(f) }) >= MaxRemote
       THEN [Found(r, "fetches", file, ref) EXCEPT !.failed = @ \cup {file}]
  ELSE IF (Remote(file) /\ ~readable) \/ file \notin DOMAIN disk \/ disk[file] = None
       THEN [Found(r, "unreadable", file, ref) EXCEPT !.failed = @ \cup {file}]
  ELSE LET grown(texts) == [f \in DOMAIN texts \cup {file} |-> IF f = file THEN disk[file] ELSE texts[f]]
       IN [r EXCEPT !.texts = grown(@), !.original = grown(@)]

\* Mutant: a fragment is known by the reference as it is written.
Known_AsWritten(r, target, ref) == { h \in r.hoisted : Last(h[1]) = Last(ref.path) /\ h[2] = ref.at }

\* The fragment, if it was folded in before: by the name of its file.
Known(r, target, ref) == { h \in r.hoisted : Label(r.entry, h[1]) = Label(r.entry, target) /\ h[2] = ref.at }

Rewritten(r, target, ref) ==
  LET frame == Last(r.stack)
      at == Head(frame.todo)
      fragment == IF Known(r, target, ref) = {} THEN <<target, ref.at>>
                  ELSE CHOOSE h \in Known(r, target, ref) : TRUE
  IN [r EXCEPT !.texts[frame.file][at[1]][at[2]] = [kind |-> "hoisted", path |-> fragment[1], at |-> fragment[2]]]

\* One reference of the topmost fragment.
Follow(r, ref, readable) ==
  LET frame == Last(r.stack)
      target == Join(frame.origin, ref)
      read == Loads(r, target, ref, readable)
      resolved == Label(r.entry, target)
      folded == [Rewritten(read, target, ref) EXCEPT !.hoisted = @ \cup {<<target, ref.at>>}]
      next == Advanced(Drawn(folded, ref, resolved, FALSE))
  IN IF ref.kind \in {"here", "hoisted"} THEN Advanced(r)
     ELSE IF ref.kind = "absolute" THEN Refused(r, "absolute", ref)
     ELSE IF Remote(target) /\ ~allow THEN Refused(r, "remote", ref)
     ELSE IF Known(r, target, ref) # {}
          THEN Advanced(Drawn(Rewritten(r, target, ref), ref, resolved, FALSE))
     ELSE IF target \notin DOMAIN read.texts THEN Advanced(Drawn(read, ref, None, TRUE))
     ELSE IF ref.at # Whole /\ ref.at \notin DOMAIN read.texts[target]
          THEN Advanced(Drawn(Found(read, "unresolved", target, ref), ref, resolved, TRUE))
     ELSE IF frame.depth + 1 > MaxDepth THEN Found(next, "deep", target, ref)
     ELSE [next EXCEPT !.stack = Append(@, Frame(target, target, read.texts[target], ref.at, frame.depth + 1,
                                                 target = r.own /\ ref.at = Whole))]

\* The walk of the contract comes to its table of schemas and goes through what is in it
\* by now.  A contract that was folded into itself lies in its own table, and is followed
\* down to the last depth.
Met(r) ==
  LET k == Len(r.stack) IN [r EXCEPT !.stack[k].ahead = FALSE, !.stack[k].again = r.hoisted]
Reached(r) == Met(IF <<r.own, Whole>> \in r.hoisted THEN Found(r, "deep", r.entry, None) ELSE r)

\* One of them: its references are read as the contract's.
WalkedAgain(r) ==
  LET k == Len(r.stack)
      h == CHOOSE x \in r.stack[k].again : TRUE
      frame == Frame(h[1], r.entry, r.texts[h[1]], h[2], r.stack[k].depth, FALSE)
      left == [r.stack EXCEPT ![k].again = @ \ {h}]
  IN [r EXCEPT !.stack = Append(left, frame)]

\* What a reference of the bundled document is read as (resolve_ref): what stayed
\* within a document is looked for in the contract, whatever file it came from.
Resolve(r, ref) ==
  CASE ref.kind = "hoisted" -> <<ref.path, ref.at>>
    [] ref.kind = "here" -> IF ref.at \in DOMAIN r.texts[r.own] THEN <<r.own, ref.at>> ELSE None
    [] OTHER -> None

-----------------------------------------------------------------------------
(* What is assumed of the tree: its documents are finite and hold the four kinds of *)
(* references, a walk finds local files that are there, and in the reports of a     *)
(* contract every file has a name of its own.                                       *)

Documents ==
  { <<s[1], s[2]>> : s \in Redone } \cup UNION { { <<f, d[f]>> : f \in DOMAIN d } : d \in Disks }

\* Read from the file itself or from a contract.
PointedTo(file, document) ==
  LET refs == { document[p[1]][p[2]] : p \in Places(document, Whole) }
  IN UNION { { Join(origin, ref) : ref \in { x \in refs : x.kind \in {"file", "remote"} } } :
               origin \in {file} \cup { Contracts[k] : k \in DOMAIN Contracts } }

Named == UNION { {s[1]} \cup (IF s[2] = None THEN {} ELSE PointedTo(s[1], s[2])) : s \in Documents }

IsDocument(document) ==
  /\ IsFiniteSet(DOMAIN document)
  /\ \A g \in DOMAIN document :
       /\ Len(document[g]) \in Nat /\ DOMAIN document[g] = 1..Len(document[g])
       /\ \A i \in DOMAIN document[g] : document[g][i].kind \in {"here", "file", "remote", "absolute"}

TreeAssumption ==
  /\ Contracts \in Seq(Seq(STRING)) /\ Contracts # <<>>
  /\ \A s \in Documents : s[2] # None => IsDocument(s[2])
  /\ \A k \in DOMAIN Contracts :
       LET c == Contracts[k]
       IN /\ c # <<>> /\ ~Remote(c)
          /\ \A d \in Disks : c \in DOMAIN d
          /\ \A f, h \in Named : Label(c, f) = Label(c, h) => f = h
          /\ \A f \in Named : Label(c, f) # None
  /\ AsGiven \notin Named

-----------------------------------------------------------------------------
(* The graph (graph.py). *)

\* Mutant: only files below the contract's own directory are placed.
Placed_Below(labels, label) == \E l \in labels : l[1] = label /\ (label # <<>> => label[1] # "root")

\* A file is placed when a reference introduced it.
Placed(labels, label) == \E l \in labels : l[1] = label

\* The nodes and edges of one contract, one reference after the other.
WithEdge(g, contract, e) ==
  IF ~Placed(g.labels, e.source) THEN [g EXCEPT !.unplaced = @ \cup {<<contract, e.source>>}]
  ELSE LET source == (CHOOSE l \in g.labels : l[1] = e.source)[2]
           target == Join(source, e.target)
       IN [nodes |-> g.nodes \cup
             (IF \E n \in g.nodes : n[1] = target THEN {}
              ELSE {<<target, IF Remote(target) THEN "remote" ELSE "schema">>}),
           edges |-> g.edges \cup
             (IF \E x \in g.edges : x.source = source /\ x.target = target THEN {}
              ELSE {[source |-> source, target |-> target, refused |-> e.refused]}),
           labels |-> g.labels \cup
             (IF e.resolved = None \/ Placed(g.labels, e.resolved) THEN {} ELSE {<<e.resolved, target>>}),
           unplaced |-> g.unplaced]

\* A contract that an earlier one refers to stays what it was taken for.
WithItself(g, contract) ==
  [g EXCEPT !.nodes = @ \cup (IF \E n \in @ : n[1] = contract THEN {} ELSE {<<contract, "contract">>}),
            !.labels = {<<<<Last(contract)>>, contract>>}]

WithContract(g, contract, edges) ==
  LET after[k \in 0..Len(edges)] ==
        IF k = 0 THEN WithItself(g, contract) ELSE WithEdge(after[k - 1], contract, edges[k])
  IN after[Len(edges)]

NoGraph == [nodes |-> {}, edges |-> {}, labels |-> {}, unplaced |-> {}]
WithLoaded(g, runs, c) == IF c \in DOMAIN runs /\ runs[c] # None THEN WithContract(g, c, runs[c].edges) ELSE g

Build(runs) ==
  LET after[k \in 0..Len(Contracts)] ==
        IF k = 0 THEN NoGraph ELSE WithLoaded(after[k - 1], runs, Contracts[k])
  IN after[Len(Contracts)]

\* A set of nodes and what refers to one of them, and so on: no path is longer than there
\* are edges.
AndAbove(g, nodes) == nodes \cup { e.source : e \in { x \in g.edges : x.target \in nodes } }
Above(g, below) ==
  LET reached[k \in 0..Cardinality(g.edges)] == IF k = 0 THEN below ELSE AndAbove(g, reached[k - 1])
  IN reached[Cardinality(g.edges)]

Parents(g, node) == { e.source : e \in { x \in g.edges : x.target = node } }
DependentsOf(g, node) == { n \in Above(g, Parents(g, node)) : <<n, "contract">> \in g.nodes }
Cyclic(g) == \E e \in g.edges : e.target \in Above(g, {e.source})

Exit(runs, g) == IF Cyclic(g) \/ \E c \in DOMAIN runs : runs[c] = None THEN "findings" ELSE "ok"

-----------------------------------------------------------------------------

Init ==
  /\ disk \in Disks /\ allow \in BOOLEAN /\ saves = 0
  /\ waiting = IF allow THEN <<Contracts[1]>> ELSE Contracts
  /\ run = None /\ graph = None /\ loaded = [c \in {} |-> None]

WithRun(c, r) == [x \in DOMAIN loaded \cup {c} |-> IF x = c THEN r ELSE loaded[x]]

\* A contract that does not load is named and left out; `graph` names them all by their
\* place on the disk.
Load ==
  /\ run = None /\ waiting # <<>> /\ waiting' = Tail(waiting)
  /\ LET c == Head(waiting)
     IN IF disk[c] = None
        THEN loaded' = WithRun(c, None) /\ run' = None
        ELSE /\ \E own \in {c} \cup (IF allow THEN {AsGiven} ELSE {}) : run' = Started(c, own, disk[c])
             /\ UNCHANGED loaded
  /\ UNCHANGED <<disk, allow, graph, saves>>

Walk ==
  /\ run # None /\ run.stack # <<>> /\ Last(run.stack).todo # <<>> /\ Last(run.stack).again = {}
  /\ LET frame == Last(run.stack)
         at == Head(frame.todo)
     IN \E readable \in BOOLEAN : run' = Follow(run, run.texts[frame.file][at[1]][at[2]], readable)
  /\ UNCHANGED <<disk, allow, waiting, loaded, graph, saves>>

Reach ==
  /\ run # None /\ run.stack # <<>> /\ Last(run.stack).ahead
  /\ run' = Reached(run)
  /\ UNCHANGED <<disk, allow, waiting, loaded, graph, saves>>

Again ==
  /\ run # None /\ run.stack # <<>> /\ Last(run.stack).again # {}
  /\ run' = WalkedAgain(run)
  /\ UNCHANGED <<disk, allow, waiting, loaded, graph, saves>>

Return ==
  /\ run # None /\ run.stack # <<>> /\ Last(run.stack).todo = <<>> /\ Last(run.stack).again = {}
  /\ run' = [run EXCEPT !.stack = Front(@)]
  /\ UNCHANGED <<disk, allow, waiting, loaded, graph, saves>>

Bundled ==
  /\ run # None /\ run.stack = <<>>
  /\ loaded' = WithRun(run.entry, run) /\ run' = None
  /\ UNCHANGED <<disk, allow, waiting, graph, saves>>

Report ==
  /\ run = None /\ waiting = <<>> /\ graph = None /\ ~allow
  /\ graph' = LET g == Build(loaded)
              IN [nodes |-> g.nodes, edges |-> g.edges, labels |-> g.labels, unplaced |-> g.unplaced,
                  exit |-> Exit(loaded, g)]
  /\ UNCHANGED <<disk, allow, waiting, run, loaded, saves>>

Save ==
  /\ saves < MaxSaves /\ saves' = saves + 1 /\ graph = None
  /\ \E s \in Redone : s[1] \in DOMAIN disk /\ disk[s[1]] # s[2] /\ disk' = [disk EXCEPT ![s[1]] = s[2]]
  /\ UNCHANGED <<allow, waiting, run, loaded, graph>>

Next == Load \/ Walk \/ Reach \/ Again \/ Return \/ Bundled \/ Report \/ Save

Spec == Init /\ [][Next]_vars

-----------------------------------------------------------------------------

\* Every fragment of a bundled document, with the file it came from.
Parts(r) == {<<r.own, Whole>>} \cup r.hoisted

\* Where a file that was read is on the disk.
PathOf(r, file) == IF file = r.own THEN r.entry ELSE file

\* A finding says why a reference is not followed: it names it or its file, or
\* says that a limit was met.
Told(r, file, ref) ==
  \E f \in r.findings :
    f.ref = ref \/ f.rule \in {"files", "deep"} \/ f.file = Join(file, ref)

\* The references of a bundled document as its files have them: <<file, fragment, place>>.
Origins(r) ==
  UNION { { <<p[1], at[1], at[2]>> : at \in Places(r.original[p[1]], p[2]) } : p \in Parts(r) }

\* Every reference of a bundled document, however it was reached, stands for the
\* fragment its own file means by it (none, if the file has no such fragment).  Else a
\* finding says why it does not, and it stands for nothing, or for what the contract would
\* mean by it: bundle.py:528-530 says that relative references "resolve against whichever
\* document contains them", but the walk of the table does not know where a fragment came
\* from.  What an included file says of itself is read as if the contract said it.
MeaningIsKept(r) ==
  \A o \in Origins(r) :
    LET was == r.original[o[1]][o[2]][o[3]]
        is == r.texts[o[1]][o[2]][o[3]]
        meant == IF was.kind # "here" THEN <<Join(PathOf(r, o[1]), was), was.at>>
                 ELSE IF was.at \in DOMAIN r.original[o[1]] THEN <<o[1], was.at>> ELSE None
    IN \/ Resolve(r, is) = meant
       \/ was.kind = "here" /\ o[1] # r.own
       \/ /\ was.kind # "here" /\ Told(r, PathOf(r, o[1]), was)
          /\ is = was \/ Resolve(r, is) = <<Join(r.entry, was), was.at>>

\* Whoever may be broken by an edit is named: a contract is among the dependents
\* of every file its references lead to, followed or refused, from whatever file
\* and directory; unless another contract, loaded before, refers to the contract
\* itself, or references lead deeper than is followed.
NobodyIsMissed(r) ==
  (<<r.entry, "contract">> \in graph.nodes /\ \A f \in r.findings : f.rule # "deep") =>
    \A o \in Origins(r) :
      LET was == r.original[o[1]][o[2]][o[3]]
      IN was.kind # "here" => r.entry \in DependentsOf(graph, Join(PathOf(r, o[1]), was))

\* Folding the files of a contract into one changes no reference unsaid, and the
\* graph of them leaves out no contract that an edit of a file concerns.
ReferencesAreKept ==
  \A c \in DOMAIN loaded :
    loaded[c] # None => MeaningIsKept(loaded[c]) /\ (graph # None => NobodyIsMissed(loaded[c]))
===============================================================================
