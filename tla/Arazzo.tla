-------------------------------- MODULE Arazzo --------------------------------
(***************************************************************************)
(* A manifest written as an Arazzo description and read back               *)
(* (apiverity/stateful/arazzo.py).  A value is a literal text, or names    *)
(* where a variable came from: the inputs or an earlier step's outputs.    *)
(* A field outside the engine's JSONPath subset (NoPointer) has no form in *)
(* the description, and what is not carried over is reported.              *)
(***************************************************************************)
EXTENDS Workflows

CONSTANTS Contract,         \* the operations the manifest is written against
          NoPointer         \* the fields that have no JSON Pointer form

Literal == "literal"
FromInputs == "$inputs"
Expressible(f) == [v \in {x \in DOMAIN f : f[x] \notin NoPointer} |-> f[v]]
ExpressibleKeys(f) == [k \in DOMAIN f \ NoPointer |-> f[k]]

(* --------------------------------- export -------------------------------- *)

\* Which step produced each variable before step i: the last one that did.
Origin(w, i) ==
  [v \in UNION {DOMAIN w.steps[j].extract : j \in 1..(i - 1)} |->
     LET by == {j \in 1..(i - 1) : v \in DOMAIN w.steps[j].extract}
     IN  w.steps[CHOOSE j \in by : \A k \in by : k <= j].name]

Expression(text, origin) ==
  [from |-> IF text \in DOMAIN origin THEN origin[text]
            ELSE IF text \in Placeholders THEN FromInputs ELSE Literal,
   text |-> text]
DeepExpression(f, origin) == [k \in DOMAIN f |-> Expression(f[k], origin)]

SameShape(mine, theirs) ==
  /\ Len(mine) = Len(theirs)
  /\ \A i \in DOMAIN mine : \/ mine[i] = theirs[i]
                            \/ mine[i] \in Placeholders /\ theirs[i] \in Placeholders
\* The contract's own path for a step, or the step's when none has its shape.
DeclaredAs(step) ==
  {o \in Contract : o.method = step.method /\ SameShape(step.path, o.path)}
DeclaredPath(step) ==
  IF DeclaredAs(step) = {} THEN step.path ELSE (CHOOSE o \in DeclaredAs(step) : TRUE).path

WriteStep(w, i) ==
  LET step == w.steps[i]
      path == DeclaredPath(step)
      origin == Origin(w, i)
      holes == SelectSeq([j \in DOMAIN path |-> j], LAMBDA j : step.path[j] \in Placeholders)
  IN  [id |-> step.name, kind |-> "call", method |-> step.method, path |-> path,
       parameters |-> [j \in DOMAIN holes |->
          [name |-> path[holes[j]], value |-> Expression(step.path[holes[j]], origin)]],
       header |-> DeepExpression(step.header, origin),
       media |-> "json", body |-> DeepExpression(step.body, origin),
       status |-> step.status,
       criteria |-> DeepExpression(ExpressibleKeys(step.asserts), << >>),
       outputs |-> Expressible(step.extract)]

ToArazzo(w) == [id |-> w.name, inputs |-> w.inputs, steps |-> [i \in DOMAIN w.steps |-> WriteStep(w, i)]]

\* What the manifest says and the description does not.
Untranslated(w) ==
  (IF w.cleanup # << >> THEN {<<"workflow", "cleanup">>} ELSE {})
  \cup UNION {LET s == w.steps[i] IN
       (IF DeclaredAs(s) = {} /\ VariablesIn(s.path) # {} THEN {<<s.name, "path">>} ELSE {})
       \cup {<<s.name, k>> : k \in DOMAIN s.asserts \cap NoPointer}
       \cup {<<s.name, v>> : v \in {x \in DOMAIN s.extract : s.extract[x] \in NoPointer}}
     : i \in DOMAIN w.steps}

(* --------------------------------- import -------------------------------- *)

\* Either kind of expression becomes the variable it names.
Render(value) == value.text

\* Each parameter replaces its placeholder in the path as it stands by then.
PathOf(step) ==
  FoldLeft(LAMBDA path, p : [j \in DOMAIN path |-> IF path[j] = p.name THEN Render(p.value) ELSE path[j]],
           step.path, step.parameters)

\* A body that is not sent as JSON is left out.
ReadBody(s) == IF s.media = "json" THEN [k \in DOMAIN s.body |-> Render(s.body[k])] ELSE << >>

ReadOutputs(s) == Expressible(s.outputs)

ReadStatus(s) == s.status

\* An expected value is compared as it is written: one that names a variable is not read.
Readable(s) == {k \in DOMAIN s.criteria \ NoPointer : s.criteria[k].from = Literal}
ReadCriteria(s) == [k \in Readable(s) |-> s.criteria[k].text]

ReadStep(s) ==
  [name |-> s.id, method |-> s.method, path |-> PathOf(s), body |-> ReadBody(s),
   header |-> [k \in DOMAIN s.header |-> Render(s.header[k])],
   extract |-> ReadOutputs(s), status |-> ReadStatus(s), asserts |-> ReadCriteria(s)]

\* A step that calls another workflow or waits for a message is dropped.
IsCall(s) == s.kind = "call"

FromArazzo(d) ==
  LET calls == SelectSeq(d.steps, IsCall)
  IN  Manifest(d.id, d.inputs, [i \in DOMAIN calls |-> ReadStep(calls[i])], << >>)

\* What the import says it could not carry.
NotRead(d) ==
  UNION {LET s == d.steps[i] IN
       IF ~IsCall(s) THEN {<<s.id, s.kind>>}
       ELSE (IF s.media = "json" \/ s.body = << >> THEN {} ELSE {<<s.id, "body">>})
            \cup {<<s.id, v>> : v \in {x \in DOMAIN s.outputs : s.outputs[x] \in NoPointer}}
            \cup {<<s.id, k>> : k \in DOMAIN s.criteria \ Readable(s)}
     : i \in DOMAIN d.steps}

(* ------------------------------ the commands ----------------------------- *)

\* workflow --to-arazzo: it takes a contract to name, and no file is written over.
ExportWorkflow(w, contractNamed, present) ==
  IF contractNamed /\ ~present THEN [exit |-> "ok", written |-> <<ToArazzo(w)>>, told |-> Untranslated(w)]
  ELSE [exit |-> "usage", written |-> << >>, told |-> {}]

\* workflow on a description of several: the first of the name asked for (a sequence of
\* at most one), or the first of all, and what was not carried of those of its name.
RunDescribed(ds, wanted) ==
  LET asked == SelectSeq(ds, LAMBDA d : wanted = << >> \/ d.id = Head(wanted))
  IN  IF asked = << >> THEN [exit |-> "usage", run |-> << >>, told |-> {}]
      ELSE [exit |-> "ok", run |-> <<FromArazzo(Head(asked))>>,
            told |-> UNION {NotRead(d) : d \in {x \in Range(ds) : x.id = Head(asked).id}}]

(* ------------------------------- properties ------------------------------ *)

\* Two names of the path cross: what one parameter writes, a later one replaces.
Crossed(step) ==
  LET path == DeclaredPath(step)
  IN  \E j, k \in DOMAIN path : j < k /\ step.path[j] = path[k] /\ step.path[k] # path[k]

\* What another tool may have written where this one writes a step as it does.
Foreign(s) ==
  {[s EXCEPT !.kind = "workflow"], [s EXCEPT !.media = "form"],
   [s EXCEPT !.criteria = [k \in DOMAIN @ |-> [@[k] EXCEPT !.from = FromInputs]]],
   [s EXCEPT !.outputs = [v \in DOMAIN @ |-> CHOOSE f \in NoPointer : TRUE]]}

\* What was exported runs when its name is asked for, whatever stands before it in the
\* file.  Whatever step of it is foreign, what the manifest read from it lacks is told,
\* nothing is told of a workflow that is read in full, and nothing of another one.
LossIsTold(w) ==
  LET d == Head(ExportWorkflow(w, TRUE, FALSE).written)
      other == [d EXCEPT !.id = "other", !.steps = [i \in DOMAIN @ |-> [@[i] EXCEPT !.kind = "workflow"]]]
      Asked(x) == RunDescribed(<<other, x>>, <<w.name>>)
  IN  /\ Asked(d).run = <<FromArazzo(d)>> /\ Asked(d).told = {}
      /\ RunDescribed(<<other>>, <<w.name>>).run = << >>
      /\ \A i \in DOMAIN d.steps : \A s \in Foreign(d.steps[i]) :
           LET odd == Asked([d EXCEPT !.steps[i] = s])
           IN  odd.run = Asked(d).run \/ \E k \in odd.told : k[1] = s.id

\* What a manifest is after the way to Arazzo and back.
ReadsBack(w) ==
  LET back == FromArazzo(ToArazzo(w))
      lost == Untranslated(w)
      kept(i) == [w.steps[i] EXCEPT !.extract = Expressible(@), !.asserts = ExpressibleKeys(@)]
  IN  /\ back.inputs = w.inputs /\ Len(back.steps) = Len(w.steps)
      /\ \A i \in DOMAIN w.steps : Crossed(w.steps[i]) \/ back.steps[i] = kept(i)
      /\ back.cleanup # w.cleanup => <<"workflow", "cleanup">> \in lost
      /\ \A i \in DOMAIN w.steps : kept(i) # w.steps[i] =>
           \E k \in NoPointer \cup Placeholders : <<w.steps[i].name, k>> \in lost
===============================================================================
