-------------------------- MODULE WorkflowRun_proofs --------------------------
(* Workflow runs, the mock's ids and the recorded corpus, for any clients,     *)
(* manifests and operations, any limit and any number of faults.               *)
EXTENDS WorkflowRun, FiniteSetTheorems, SequenceTheorems, WellFoundedInduction, TLAPS

(* ------------------------------- the types ------------------------------- *)

At == AtMock \cup {"record", "append", "answered"}
RunPhases == {"new", "running", "cleanup", "done", "refused", "raised"}

RunFields == {"w", "inputs", "vars", "phase", "pc", "waiting", "status"}
ExchangeFields == {"client", "phase", "method", "path", "body", "at", "status", "answer", "id",
                   "epoch", "beside", "read", "keeps"}

IsRun(r) ==
  /\ DOMAIN r = RunFields
  /\ IsManifest(r.w)
  /\ r.phase \in RunPhases /\ r.pc \in Nat \ {0} /\ r.waiting \in Nat
  /\ HasStep(r) => r.pc <= Len(Current(r))

IsExchange(x) ==
  /\ DOMAIN x = ExchangeFields
  /\ x.client \in Clients /\ x.at \in At /\ x.epoch \in Nat

RunsOK == /\ DOMAIN runs = Clients
          /\ \A c \in Clients : IsRun(runs[c])

ExchangesOK == /\ exchanges \in Seq(Range(exchanges))
               /\ \A e \in DOMAIN exchanges : IsExchange(exchanges[e])

MockOK == /\ DOMAIN mock = {"count", "next", "store", "deleted"}
          /\ mock.next \in Nat

CaptureOK == /\ DOMAIN capture = {"entries", "afterLimit", "upstreamFailed"}
             /\ capture.entries \in Seq(Range(capture.entries))
             /\ capture.afterLimit \in Nat /\ capture.upstreamFailed \in Nat

FaultsOK == faults \in [timeouts : Nat, restarts : Nat]

WaitingOK == \A c \in Clients : runs[c].waiting <= Len(exchanges)

TypeOK == RunsOK /\ ExchangesOK /\ MockOK /\ CaptureOK /\ FaultsOK /\ WaitingOK

-------------------------------------------------------------------------------
(* Sequences. *)

LEMMA AppendIs ==
  ASSUME NEW s, s \in Seq(Range(s)), NEW x
  PROVE  /\ Append(s, x) \in Seq(Range(Append(s, x)))
         /\ Len(Append(s, x)) = Len(s) + 1
         /\ DOMAIN s = 1..Len(s) /\ DOMAIN Append(s, x) = 1..(Len(s) + 1) /\ Len(s) \in Nat
         /\ \A i \in 1..Len(s) : Append(s, x)[i] = s[i]
         /\ Append(s, x)[Len(s) + 1] = x
  <1> DEFINE S == Range(s) \cup {x}
             t == Append(s, x)
  <1>1. s \in Seq(S)
    BY SeqMonotonic
  <1>2. /\ t \in Seq(S) /\ Len(t) = Len(s) + 1 /\ Len(s) \in Nat
        /\ DOMAIN s = 1..Len(s) /\ DOMAIN t = 1..(Len(s) + 1)
        /\ \A i \in 1..Len(s) : t[i] = s[i]
        /\ t[Len(s) + 1] = x
    BY <1>1
  <1>3. t = [i \in 1..Len(t) |-> t[i]]
    <2> HIDE DEF t, S
    <2> QED BY <1>2, LenProperties
  <1>4. \A i \in 1..Len(t) : t[i] \in Range(t)
    BY <1>2 DEF Range
  <1>5. t \in Seq(Range(t))
    <2> HIDE DEF t
    <2> QED BY <1>2, <1>3, <1>4, IsASeq
  <1> QED BY <1>2, <1>5

LEMMA ExceptIs ==
  ASSUME NEW s, s \in Seq(Range(s)), NEW e \in DOMAIN s, NEW x
  PROVE  LET t == [s EXCEPT ![e] = x]
         IN  /\ t \in Seq(Range(t)) /\ Len(t) = Len(s) /\ DOMAIN t = DOMAIN s
             /\ DOMAIN s = 1..Len(s) /\ Len(s) \in Nat
             /\ t[e] = x /\ \A i \in DOMAIN s : i # e => t[i] = s[i]
  <1> DEFINE t == [s EXCEPT ![e] = x]
             S == Range(s) \cup {x}
  <1>1. s \in Seq(S)
    BY SeqMonotonic
  <1>2. /\ t \in Seq(S) /\ Len(t) = Len(s) /\ DOMAIN t = DOMAIN s
        /\ DOMAIN s = 1..Len(s) /\ Len(s) \in Nat
        /\ t[e] = x /\ \A i \in DOMAIN s : i # e => t[i] = s[i]
    BY <1>1
  <1>3. \A i \in 1..Len(t) : t[i] \in Range(t)
    BY <1>2 DEF Range
  <1>4. t = [i \in 1..Len(t) |-> t[i]]
    BY <1>2
  <1>5. t \in Seq(Range(t))
    <2> HIDE DEF t
    <2> QED BY <1>2, <1>3, <1>4, IsASeq
  <1> QED BY <1>2, <1>5

LEMMA MapIs ==
  ASSUME NEW s, s \in Seq(Range(s)), NEW t, DOMAIN t = DOMAIN s, t = [i \in DOMAIN s |-> t[i]]
  PROVE  t \in Seq(Range(t)) /\ Len(t) = Len(s)
  <1>1. DOMAIN s = 1..Len(s) /\ Len(s) \in Nat
    OBVIOUS
  <1>2. \A i \in 1..Len(s) : t[i] \in Range(t)
    BY <1>1 DEF Range
  <1>3. t \in Seq(Range(t))
    BY <1>1, <1>2, IsASeq
  <1> QED BY <1>1, <1>3
-------------------------------------------------------------------------------
(* The runs. *)

\* Settling moves a run on to its cleanup or its end, and changes nothing else of it.
LEMMA SettleIs ==
  ASSUME NEW r, IsManifest(r.w), r.phase \in RunPhases, r.pc \in Nat \ {0}, r.waiting \in Nat,
         DOMAIN r = RunFields
  PROVE  /\ IsRun(Settle(r))
         /\ Settle(r).waiting = r.waiting /\ Settle(r).vars = r.vars
         /\ Settle(r).w = r.w /\ Settle(r).inputs = r.inputs
         /\ Settle(r).phase = "running" => r.phase = "running" /\ Settle(r).pc = r.pc
         /\ Settle(r).phase = "new" => r.phase = "new"
  <1> DEFINE a == [r EXCEPT !.phase = "cleanup", !.pc = 1]
             mid == IF r.phase = "running" /\ r.pc > Len(r.w.steps) THEN a ELSE r
             end == [mid EXCEPT !.phase = "done"]
  <1>1. Settle(r) = IF mid.phase = "cleanup" /\ mid.pc > Len(r.w.cleanup) THEN end ELSE mid
    BY DEF Settle, RunFields
  <1>2. Len(r.w.steps) \in Nat /\ Len(r.w.cleanup) \in Nat
    BY DEF IsManifest
  <1>3. /\ DOMAIN a = RunFields /\ a.w = r.w /\ a.inputs = r.inputs /\ a.vars = r.vars
        /\ a.waiting = r.waiting /\ a.phase = "cleanup" /\ a.pc = 1
    BY DEF RunFields
  <1>4. /\ DOMAIN mid = RunFields /\ mid.w = r.w /\ mid.inputs = r.inputs /\ mid.vars = r.vars
        /\ mid.waiting = r.waiting
        /\ mid.phase \in RunPhases /\ mid.pc \in Nat \ {0}
        /\ mid.phase = "running" => r.phase = "running" /\ mid.pc = r.pc /\ mid.pc <= Len(r.w.steps)
        /\ mid.phase = "new" => r.phase = "new"
    <2> HIDE DEF a
    <2> QED BY <1>2, <1>3 DEF RunPhases
  <1>5. /\ DOMAIN end = RunFields /\ end.w = r.w /\ end.inputs = r.inputs /\ end.vars = r.vars
        /\ end.waiting = r.waiting /\ end.phase = "done" /\ end.pc = mid.pc
    <2> HIDE DEF mid
    <2> QED BY <1>4 DEF RunFields
  <1> HIDE DEF mid, end
  <1>6. CASE mid.phase = "cleanup" /\ mid.pc > Len(r.w.cleanup)
    BY <1>1, <1>4, <1>5, <1>6 DEF IsRun, HasStep, RunPhases
  <1>7. CASE ~(mid.phase = "cleanup" /\ mid.pc > Len(r.w.cleanup))
    <2>1. Settle(r) = mid
      BY <1>1, <1>7
    <2>2. HasStep(mid) => mid.pc <= Len(Current(mid))
      BY <1>2, <1>4, <1>7 DEF HasStep, Current
    <2> QED BY <2>1, <2>2, <1>4 DEF IsRun
  <1> QED BY <1>6, <1>7

LEMMA PassIs ==
  ASSUME NEW r, IsRun(r)
  PROVE  /\ IsRun(Pass(r)) /\ Pass(r).waiting = 0 /\ Pass(r).vars = r.vars
         /\ Pass(r).w = r.w /\ Pass(r).inputs = r.inputs
         /\ Pass(r).phase = "running" => r.phase = "running" /\ Pass(r).pc = r.pc + 1
         /\ Pass(r).phase = "new" => r.phase = "new"
  <1> DEFINE s == [r EXCEPT !.pc = @ + 1, !.waiting = 0]
  <1>1. /\ DOMAIN s = RunFields /\ s.w = r.w /\ s.inputs = r.inputs /\ s.vars = r.vars
        /\ s.phase = r.phase /\ s.pc = r.pc + 1 /\ s.waiting = 0
    BY DEF IsRun, RunFields
  <1>2. Pass(r) = Settle(s)
    BY DEF Pass
  <1>3. r.pc + 1 \in Nat \ {0} /\ r.phase \in RunPhases /\ IsManifest(r.w)
    BY DEF IsRun
  <1> HIDE DEF s
  <1> QED BY <1>1, <1>2, <1>3, SettleIs

LEMMA LeaveIs ==
  ASSUME NEW r, IsRun(r), HasStep(r), NEW status
  PROVE  /\ IsRun(Leave(r, status)) /\ Leave(r, status).waiting = 0
         /\ Leave(r, status).vars = r.vars
         /\ Leave(r, status).w = r.w /\ Leave(r, status).inputs = r.inputs
         /\ Leave(r, status).phase \notin {"running", "new"}
  <1>1. CASE r.phase = "cleanup"
    BY <1>1, PassIs DEF Leave
  <1>2. CASE r.phase = "running"
    <2> DEFINE s == [r EXCEPT !.status = status, !.pc = Len(r.w.steps) + 1, !.waiting = 0]
    <2>1. /\ DOMAIN s = RunFields /\ s.w = r.w /\ s.inputs = r.inputs /\ s.vars = r.vars
          /\ s.phase = r.phase /\ s.pc = Len(r.w.steps) + 1 /\ s.waiting = 0
      BY DEF IsRun, RunFields
    <2>2. Leave(r, status) = Settle(s)
      BY <1>2 DEF Leave
    <2>3. Len(r.w.steps) \in Nat /\ r.phase \in RunPhases /\ IsManifest(r.w)
      BY DEF IsRun, IsManifest
    <2> HIDE DEF s
    <2>4. /\ IsRun(Settle(s)) /\ Settle(s).waiting = 0 /\ Settle(s).vars = r.vars
          /\ Settle(s).w = r.w /\ Settle(s).inputs = r.inputs
          /\ Settle(s).phase = "running" => Settle(s).pc = Len(r.w.steps) + 1
          /\ Settle(s).phase # "new"
      BY <1>2, <2>1, <2>3, SettleIs
    <2>5. Settle(s).phase # "running"
      BY <2>3, <2>4 DEF IsRun, HasStep, Current
    <2> QED BY <2>2, <2>4, <2>5
  <1> QED BY <1>1, <1>2 DEF HasStep

\* One run changes.
LEMMA RunStep ==
  ASSUME RunsOK, NEW c \in Clients, NEW r, IsRun(r), runs' = [runs EXCEPT ![c] = r]
  PROVE  RunsOK' /\ runs'[c] = r /\ \A d \in Clients : d # c => runs'[d] = runs[d]
  <1>1. DOMAIN runs' = Clients /\ runs'[c] = r /\ \A d \in Clients : d # c => runs'[d] = runs[d]
    BY DEF RunsOK
  <1>2. ASSUME NEW d \in Clients PROVE IsRun(runs'[d])
    BY <1>1 DEF RunsOK
  <1>3. RunsOK'
    <2>1. \A d \in Clients : IsRun(runs[d])'
      BY <1>2 DEF IsRun, HasStep, Current, IsManifest
    <2> QED BY <1>1, <2>1 DEF RunsOK
  <1> QED BY <1>1, <1>3

\* One exchange moves on.
LEMMA MovesIs ==
  ASSUME ExchangesOK, NEW e \in DOMAIN exchanges, NEW x, IsExchange(x), Moves(e, x)
  PROVE  /\ ExchangesOK' /\ Len(exchanges') = Len(exchanges)
         /\ DOMAIN exchanges' = DOMAIN exchanges /\ exchanges'[e] = x
         /\ \A i \in DOMAIN exchanges : i # e => exchanges'[i] = exchanges[i]
  <1>1. /\ exchanges' \in Seq(Range(exchanges')) /\ Len(exchanges') = Len(exchanges)
        /\ DOMAIN exchanges' = DOMAIN exchanges /\ exchanges'[e] = x
        /\ \A i \in DOMAIN exchanges : i # e => exchanges'[i] = exchanges[i]
    BY ExceptIs DEF Moves, ExchangesOK
  <1>2. \A i \in DOMAIN exchanges' : IsExchange(exchanges'[i])
    BY <1>1 DEF ExchangesOK
  <1>3. (exchanges \in Seq(Range(exchanges)))'
    BY <1>1
  <1> QED BY <1>1, <1>2, <1>3 DEF ExchangesOK, IsExchange

\* A request is sent.
LEMMA SentIs ==
  ASSUME ExchangesOK, NEW x, IsExchange(x), exchanges' = Append(exchanges, x)
  PROVE  /\ ExchangesOK' /\ Len(exchanges') = Len(exchanges) + 1
         /\ DOMAIN exchanges = 1..Len(exchanges) /\ Len(exchanges) \in Nat
         /\ DOMAIN exchanges' = 1..(Len(exchanges) + 1) /\ exchanges'[Len(exchanges) + 1] = x
         /\ \A i \in DOMAIN exchanges : exchanges'[i] = exchanges[i]
  <1>1. /\ exchanges' \in Seq(Range(exchanges')) /\ Len(exchanges') = Len(exchanges) + 1
        /\ DOMAIN exchanges = 1..Len(exchanges) /\ Len(exchanges) \in Nat
        /\ DOMAIN exchanges' = 1..(Len(exchanges) + 1) /\ exchanges'[Len(exchanges) + 1] = x
        /\ \A i \in DOMAIN exchanges : exchanges'[i] = exchanges[i]
    BY AppendIs DEF ExchangesOK
  <1>2. \A i \in DOMAIN exchanges' : IsExchange(exchanges'[i])
    BY <1>1 DEF ExchangesOK
  <1>3. (exchanges \in Seq(Range(exchanges)))'
    BY <1>1
  <1> QED BY <1>1, <1>2, <1>3 DEF ExchangesOK, IsExchange

-------------------------------------------------------------------------------
(* What each step does. *)

\* Run c goes on as r, and the others stay where they are.
GoesOn(c, r) ==
  /\ IsRun(r) /\ runs' = [runs EXCEPT ![c] = r] /\ runs'[c] = r
  /\ r.w = runs[c].w /\ r.inputs = runs[c].inputs
  /\ \A d \in Clients : d # c => runs'[d] = runs[d]

LEMMA StartIs ==
  ASSUME TypeOK, NEW c \in Clients, Start(c)
  PROVE  /\ TypeOK' /\ GoesOn(c, runs'[c]) /\ UNCHANGED <<exchanges, mock, capture, faults>>
         /\ runs'[c].waiting = runs[c].waiting /\ runs'[c].vars = runs[c].vars
         /\ runs[c].phase = "new" /\ runs'[c].phase # "new"
         /\ HasStep(runs'[c]) \/ runs'[c].phase = "done" =>
              Preflight(runs[c].w, runs[c].inputs) /\ MissingInputs(runs[c].w, runs[c].inputs) = {}
         /\ runs'[c].phase = "running" => runs'[c].pc = runs[c].pc
  <1> DEFINE r == runs[c]
             go == [r EXCEPT !.phase = "running"]
             no == [r EXCEPT !.phase = "refused"]
             ready == Preflight(r.w, r.inputs) /\ MissingInputs(r.w, r.inputs) = {}
             next == IF ready THEN Settle(go) ELSE no
  <1>1. r.phase = "new" /\ runs' = [runs EXCEPT ![c] = next] /\ UNCHANGED <<exchanges, mock, capture, faults>>
    BY DEF Start
  <1>2. IsRun(r) /\ RunsOK /\ r.waiting <= Len(exchanges)
    BY DEF TypeOK, RunsOK, WaitingOK
  <1>3. /\ DOMAIN go = RunFields /\ go.w = r.w /\ go.inputs = r.inputs /\ go.vars = r.vars
        /\ go.phase = "running" /\ go.pc = r.pc /\ go.waiting = r.waiting
    BY <1>2 DEF IsRun, RunFields
  <1>4. /\ DOMAIN no = RunFields /\ no.w = r.w /\ no.inputs = r.inputs /\ no.vars = r.vars
        /\ no.phase = "refused" /\ no.pc = r.pc /\ no.waiting = r.waiting
    BY <1>2 DEF IsRun, RunFields
  <1> HIDE DEF go, no
  <1>5. IsManifest(r.w) /\ r.pc \in Nat \ {0} /\ r.waiting \in Nat
    BY <1>2 DEF IsRun
  <1>6. /\ IsRun(Settle(go)) /\ Settle(go).waiting = r.waiting /\ Settle(go).vars = r.vars
        /\ Settle(go).w = r.w /\ Settle(go).inputs = r.inputs
        /\ Settle(go).phase = "running" => Settle(go).pc = r.pc
        /\ Settle(go).phase # "new"
    BY <1>3, <1>5, SettleIs DEF RunPhases
  <1>7. IsRun(no)
    BY <1>4, <1>5 DEF IsRun, HasStep, RunPhases
  <1>8. /\ IsRun(next) /\ next.waiting = r.waiting /\ next.vars = r.vars
        /\ next.w = r.w /\ next.inputs = r.inputs /\ next.phase # "new"
        /\ next.phase = "running" => next.pc = r.pc
        /\ HasStep(next) \/ next.phase = "done" => ready
    BY <1>4, <1>6, <1>7 DEF HasStep
  <1> HIDE DEF next
  <1>9. RunsOK' /\ runs'[c] = next /\ \A d \in Clients : d # c => runs'[d] = runs[d]
    BY <1>1, <1>2, <1>8, RunStep
  <1>10. WaitingOK'
    BY <1>1, <1>8, <1>9 DEF TypeOK, WaitingOK
  <1>11. TypeOK'
    BY <1>1, <1>9, <1>10 DEF TypeOK, ExchangesOK, IsExchange, MockOK, CaptureOK, FaultsOK
  <1>12. GoesOn(c, runs'[c])
    BY <1>1, <1>8, <1>9 DEF GoesOn
  <1> QED BY <1>1, <1>8, <1>9, <1>11, <1>12

\* The step at hand, and what a request of it carries.
StepOf(r) == Current(r)[r.pc]

Fresh(c, x) ==
  /\ IsExchange(x) /\ x.client = c /\ x.phase = runs[c].phase
  /\ x.path = DeepSubstitute(StepOf(runs[c]).path, runs[c].vars)
  /\ x.body = DeepSubstitute(StepOf(runs[c]).body, runs[c].vars)
  /\ x.at = "admit" /\ x.answer = << >> /\ x.id = "" /\ x.epoch = faults.restarts /\ x.beside = Open

LEMMA SendIs ==
  ASSUME TypeOK, NEW c \in Clients, Send(c)
  PROVE  /\ TypeOK' /\ GoesOn(c, runs'[c]) /\ UNCHANGED <<mock, capture, faults>>
         /\ HasStep(runs[c]) /\ runs[c].waiting = 0 /\ runs'[c].vars = runs[c].vars
         /\ runs'[c].phase # "new"
         /\ \/ /\ UNCHANGED exchanges /\ runs'[c].waiting = 0
               /\ runs'[c].phase # "running"
            \/ /\ \E x : Fresh(c, x) /\ exchanges' = Append(exchanges, x)
               /\ runs'[c].waiting = Len(exchanges) + 1
               /\ runs'[c].phase = runs[c].phase /\ runs'[c].pc = runs[c].pc
  <1> DEFINE r == runs[c]
             step == Current(r)[r.pc]
             body == DeepSubstitute(step.body, r.vars)
             raised == [r EXCEPT !.phase = "raised"]
             sent == [r EXCEPT !.waiting = Len(exchanges) + 1]
             x == [client |-> c, phase |-> r.phase, method |-> step.method,
                   path |-> DeepSubstitute(step.path, r.vars), body |-> body,
                   at |-> "admit", status |-> 0, answer |-> << >>, id |-> "",
                   epoch |-> faults.restarts, beside |-> Open, read |-> FALSE,
                   keeps |-> DOMAIN step.extract \cap Addressed(r.w) # {}]
  <1>1. /\ HasStep(r) /\ r.waiting = 0 /\ UNCHANGED <<mock, capture, faults>>
        /\ \/ runs' = [runs EXCEPT ![c] = Leave(r, "fail")] /\ UNCHANGED exchanges
           \/ runs' = [runs EXCEPT ![c] = raised] /\ UNCHANGED exchanges
           \/ exchanges' = Append(exchanges, x) /\ runs' = [runs EXCEPT ![c] = sent]
    BY DEF Send
  <1>2. IsRun(r) /\ RunsOK /\ ExchangesOK /\ faults.restarts \in Nat /\ Len(exchanges) \in Nat
    BY DEF TypeOK, RunsOK, FaultsOK, ExchangesOK
  <1>3. CASE runs' = [runs EXCEPT ![c] = Leave(r, "fail")] /\ UNCHANGED exchanges
    <2>1. /\ IsRun(Leave(r, "fail")) /\ Leave(r, "fail").waiting = 0 /\ Leave(r, "fail").vars = r.vars
          /\ Leave(r, "fail").w = r.w /\ Leave(r, "fail").inputs = r.inputs
          /\ Leave(r, "fail").phase \notin {"running", "new"}
      BY <1>1, <1>2, LeaveIs
    <2>2. RunsOK' /\ runs'[c] = Leave(r, "fail") /\ \A d \in Clients : d # c => runs'[d] = runs[d]
      BY <1>2, <1>3, <2>1, RunStep
    <2>3. TypeOK'
      BY <1>1, <1>2, <1>3, <2>1, <2>2 DEF TypeOK, ExchangesOK, IsExchange, MockOK, CaptureOK, FaultsOK, WaitingOK
    <2> QED BY <1>1, <1>3, <2>1, <2>2, <2>3 DEF GoesOn
  <1>4. CASE runs' = [runs EXCEPT ![c] = raised] /\ UNCHANGED exchanges
    <2>1. /\ DOMAIN raised = RunFields /\ raised.w = r.w /\ raised.inputs = r.inputs
          /\ raised.vars = r.vars /\ raised.phase = "raised" /\ raised.pc = r.pc /\ raised.waiting = 0
      BY <1>1, <1>2 DEF IsRun, RunFields
    <2> HIDE DEF raised
    <2>2. IsRun(raised)
      BY <1>2, <2>1 DEF IsRun, HasStep, RunPhases
    <2>3. RunsOK' /\ runs'[c] = raised /\ \A d \in Clients : d # c => runs'[d] = runs[d]
      BY <1>2, <1>4, <2>2, RunStep
    <2>4. TypeOK'
      BY <1>1, <1>2, <1>4, <2>1, <2>3 DEF TypeOK, ExchangesOK, IsExchange, MockOK, CaptureOK, FaultsOK, WaitingOK
    <2> QED BY <1>1, <1>4, <2>1, <2>2, <2>3, <2>4 DEF GoesOn
  <1>5. CASE exchanges' = Append(exchanges, x) /\ runs' = [runs EXCEPT ![c] = sent]
    <2>1. /\ DOMAIN sent = RunFields /\ sent.w = r.w /\ sent.inputs = r.inputs
          /\ sent.vars = r.vars /\ sent.phase = r.phase /\ sent.pc = r.pc /\ sent.waiting = Len(exchanges) + 1
      BY <1>2 DEF IsRun, RunFields
    <2> HIDE DEF sent
    <2>2. IsRun(sent)
      BY <1>2, <2>1 DEF IsRun, HasStep, Current
    <2>3. RunsOK' /\ runs'[c] = sent /\ \A d \in Clients : d # c => runs'[d] = runs[d]
      BY <1>2, <1>5, <2>2, RunStep
    <2>4. /\ DOMAIN x = ExchangeFields /\ x.client = c /\ x.phase = r.phase
          /\ x.path = DeepSubstitute(step.path, r.vars) /\ x.body = body
          /\ x.at = "admit" /\ x.answer = << >> /\ x.id = "" /\ x.epoch = faults.restarts /\ x.beside = Open
      BY DEF ExchangeFields
    <2> HIDE DEF x
    <2>5. IsExchange(x)
      BY <1>2, <2>4 DEF IsExchange, At, AtMock
    <2>6. Fresh(c, x)
      BY <2>4, <2>5 DEF Fresh, StepOf
    <2>7. ExchangesOK' /\ Len(exchanges') = Len(exchanges) + 1
      BY <1>2, <1>5, <2>5, SentIs
    <2>8. WaitingOK'
      BY <1>2, <2>1, <2>3, <2>7 DEF TypeOK, WaitingOK, RunsOK, IsRun
    <2>9. TypeOK'
      BY <1>1, <2>3, <2>7, <2>8 DEF TypeOK, MockOK, CaptureOK, FaultsOK
    <2>10. r.phase # "new"
      BY <1>1 DEF HasStep
    <2> QED BY <1>1, <1>5, <2>1, <2>2, <2>3, <2>6, <2>9, <2>10 DEF GoesOn
  <1> QED BY <1>1, <1>3, <1>4, <1>5

\* Exchange e becomes y, of the same request, and the others stay as they are.
Moved(e, y) ==
  /\ ExchangesOK' /\ Len(exchanges') = Len(exchanges) /\ DOMAIN exchanges' = DOMAIN exchanges
  /\ exchanges'[e] = y /\ \A i \in DOMAIN exchanges : i # e => exchanges'[i] = exchanges[i]
  /\ y.client = exchanges[e].client /\ y.phase = exchanges[e].phase /\ y.method = exchanges[e].method
  /\ y.path = exchanges[e].path /\ y.body = exchanges[e].body
  /\ y.epoch = exchanges[e].epoch /\ y.beside = exchanges[e].beside

LEMMA EvaluateIs ==
  ASSUME TypeOK, NEW c \in Clients, Evaluate(c)
  PROVE  LET r == runs[c]
             e == r.waiting
             x == exchanges[e]
         IN  /\ TypeOK' /\ GoesOn(c, runs'[c]) /\ UNCHANGED <<mock, capture, faults>>
             /\ HasStep(r) /\ e \in DOMAIN exchanges /\ x.at = "answered" /\ runs'[c].waiting = 0
             /\ Moved(e, exchanges'[e])
             /\ exchanges'[e].at = x.at /\ exchanges'[e].id = x.id /\ exchanges'[e].answer = x.answer
             /\ runs'[c].vars = IF r.phase = "running" THEN Merge(r.vars, Extracted(StepOf(r), x.answer))
                                ELSE r.vars
             /\ runs'[c].phase # "new"
             /\ runs'[c].phase = "running" => /\ r.phase = "running" /\ runs'[c].pc = r.pc + 1
                                              /\ DOMAIN Extracted(StepOf(r), x.answer) = DOMAIN StepOf(r).extract
  <1> DEFINE r == runs[c]
             e == r.waiting
             x == exchanges[e]
             y == [x EXCEPT !.read = TRUE]
             got == Merge(r.vars, Extracted(StepOf(r), x.answer))
             told == [r EXCEPT !.vars = got]
             known == IF r.phase = "running" THEN told ELSE r
             next == IF r.phase = "running" /\ Violated(StepOf(r), x) THEN Leave(known, "fail")
                     ELSE Pass(known)
  <1>1. /\ HasStep(r) /\ e # 0 /\ x.at = "answered" /\ UNCHANGED <<mock, capture, faults>>
        /\ runs' = [runs EXCEPT ![c] = next] /\ exchanges' = [exchanges EXCEPT ![e].read = TRUE]
    <2>1. told = [r EXCEPT !.vars = Merge(@, Extracted(StepOf(r), x.answer))]
      BY DEF TypeOK, RunsOK, IsRun, RunFields
    <2> QED BY <2>1 DEF Evaluate, StepOf
  <1>2. IsRun(r) /\ RunsOK /\ ExchangesOK /\ Len(exchanges) \in Nat /\ e <= Len(exchanges) /\ e \in Nat
        /\ DOMAIN exchanges = 1..Len(exchanges)
    BY DEF TypeOK, RunsOK, ExchangesOK, WaitingOK, IsRun
  <1>3. e \in DOMAIN exchanges
    BY <1>1, <1>2
  <1>4. /\ DOMAIN y = ExchangeFields /\ y.client = x.client /\ y.phase = x.phase /\ y.method = x.method
        /\ y.path = x.path /\ y.body = x.body /\ y.epoch = x.epoch /\ y.beside = x.beside
        /\ y.at = x.at /\ y.id = x.id /\ y.answer = x.answer
    BY <1>2, <1>3 DEF ExchangesOK, IsExchange, ExchangeFields
  <1>5. exchanges' = [exchanges EXCEPT ![e] = y]
    BY <1>1, <1>3
  <1> HIDE DEF y
  <1>6. IsExchange(y)
    BY <1>2, <1>3, <1>4 DEF ExchangesOK, IsExchange
  <1>7. Moved(e, y)
    BY <1>2, <1>3, <1>4, <1>5, <1>6, MovesIs DEF Moves, Moved
  <1>8. IsRun(known) /\ known.w = r.w /\ known.inputs = r.inputs /\ known.phase = r.phase /\ known.pc = r.pc
        /\ known.vars = IF r.phase = "running" THEN got ELSE r.vars
    <2> HIDE DEF got
    <2>1. /\ DOMAIN told = RunFields /\ told.w = r.w /\ told.inputs = r.inputs /\ told.phase = r.phase
          /\ told.pc = r.pc /\ told.waiting = r.waiting /\ told.vars = got
      BY <1>2 DEF IsRun, RunFields
    <2> HIDE DEF told
    <2>2. IsRun(told)
      BY <1>2, <2>1 DEF IsRun, HasStep, Current
    <2> QED BY <1>2, <2>1, <2>2
  <1> HIDE DEF known
  <1>9. HasStep(known)
    BY <1>1, <1>8 DEF HasStep
  <1>10. /\ IsRun(Pass(known)) /\ Pass(known).waiting = 0 /\ Pass(known).vars = known.vars
         /\ Pass(known).w = r.w /\ Pass(known).inputs = r.inputs /\ Pass(known).phase # "new"
         /\ Pass(known).phase = "running" => r.phase = "running" /\ Pass(known).pc = r.pc + 1
    BY <1>8, <1>9, PassIs DEF HasStep
  <1>11. /\ IsRun(Leave(known, "fail")) /\ Leave(known, "fail").waiting = 0
         /\ Leave(known, "fail").vars = known.vars /\ Leave(known, "fail").w = r.w
         /\ Leave(known, "fail").inputs = r.inputs /\ Leave(known, "fail").phase \notin {"running", "new"}
    BY <1>8, <1>9, LeaveIs
  <1>12. /\ IsRun(next) /\ next.waiting = 0 /\ next.vars = known.vars /\ next.w = r.w
         /\ next.inputs = r.inputs /\ next.phase # "new"
         /\ next.phase = "running" => /\ r.phase = "running" /\ next.pc = r.pc + 1
                                      /\ ~Violated(StepOf(r), x)
    BY <1>10, <1>11
  <1> HIDE DEF next
  <1>13. RunsOK' /\ runs'[c] = next /\ \A d \in Clients : d # c => runs'[d] = runs[d]
    BY <1>1, <1>2, <1>12, RunStep
  <1>14. GoesOn(c, runs'[c])
    BY <1>1, <1>12, <1>13 DEF GoesOn
  <1>15. TypeOK'
    <2>1. WaitingOK'
      BY <1>2, <1>7, <1>12, <1>13 DEF TypeOK, WaitingOK, Moved
    <2> QED BY <1>1, <1>7, <1>13, <2>1 DEF TypeOK, MockOK, CaptureOK, FaultsOK, Moved
  <1>16. ~Violated(StepOf(r), x) => DOMAIN Extracted(StepOf(r), x.answer) = DOMAIN StepOf(r).extract
    BY DEF Violated
  <1>17. exchanges'[e] = y
    BY <1>7 DEF Moved
  <1> QED BY <1>1, <1>3, <1>4, <1>7, <1>8, <1>12, <1>13, <1>14, <1>15, <1>16, <1>17

LEMMA TimeOutIs ==
  ASSUME TypeOK, NEW c \in Clients, TimeOut(c)
  PROVE  /\ TypeOK' /\ GoesOn(c, runs'[c]) /\ UNCHANGED <<exchanges, mock, capture>>
         /\ runs'[c].waiting = 0 /\ runs'[c].vars = runs[c].vars
         /\ runs'[c].phase \notin {"running", "new"}
         /\ HasStep(runs[c])
         /\ faults'.restarts = faults.restarts /\ faults'.timeouts = faults.timeouts + 1
  <1> DEFINE r == runs[c]
             next == Leave(r, "error")
  <1>1. /\ HasStep(r) /\ UNCHANGED <<exchanges, mock, capture>>
        /\ runs' = [runs EXCEPT ![c] = next] /\ faults' = [faults EXCEPT !.timeouts = @ + 1]
    BY DEF TimeOut
  <1>2. IsRun(r) /\ RunsOK /\ Len(exchanges) \in Nat
    BY DEF TypeOK, RunsOK, ExchangesOK
  <1>3. /\ IsRun(next) /\ next.waiting = 0 /\ next.vars = r.vars
        /\ next.w = r.w /\ next.inputs = r.inputs /\ next.phase \notin {"running", "new"}
    BY <1>1, <1>2, LeaveIs
  <1> HIDE DEF next
  <1>4. RunsOK' /\ runs'[c] = next /\ \A d \in Clients : d # c => runs'[d] = runs[d]
    BY <1>1, <1>2, <1>3, RunStep
  <1>5. FaultsOK' /\ faults'.restarts = faults.restarts /\ faults'.timeouts = faults.timeouts + 1
    BY <1>1 DEF TypeOK, FaultsOK
  <1>6. WaitingOK'
    BY <1>1, <1>2, <1>3, <1>4 DEF TypeOK, WaitingOK
  <1>7. TypeOK'
    BY <1>1, <1>4, <1>5, <1>6 DEF TypeOK, ExchangesOK, IsExchange, MockOK, CaptureOK
  <1>8. GoesOn(c, runs'[c])
    BY <1>1, <1>3, <1>4 DEF GoesOn
  <1> QED BY <1>1, <1>3, <1>4, <1>5, <1>7, <1>8

\* What the operations on the mock leave of it.
LEMMA ApplyIs ==
  ASSUME NEW m, DOMAIN m = DOMAIN FreshMock, NEW method, NEW op, NEW path, NEW item
  PROVE  /\ LET n == Deleted(m, method, op, path) IN DOMAIN n = DOMAIN m /\ n.next = m.next
         /\ LET n == WriteBack(m, path, item) IN DOMAIN n = DOMAIN m /\ n.next = m.next
  <1>1. LET n == Deleted(m, method, op, path) IN DOMAIN n = DOMAIN m /\ n.next = m.next
    BY DEF Deleted, FreshMock
  <1>2. LET n == WriteBack(m, path, item) IN DOMAIN n = DOMAIN m /\ n.next = m.next
    BY DEF WriteBack, FreshMock
  <1> QED BY <1>1, <1>2

LEMMA StoreIs ==
  ASSUME NEW m, DOMAIN m = DOMAIN FreshMock, NEW op, NEW path, NEW body, NEW id
  PROVE  LET n == StoreNew(m, op, path, body, id)
         IN  DOMAIN n = DOMAIN m /\ n.next = m.next + 1
  BY DEF StoreNew, FreshMock

LEMMA MockIs == DOMAIN FreshMock = {"count", "next", "store", "deleted"} /\ FreshMock.next = 1
  BY DEF FreshMock

LEMMA AdmitIs ==
  ASSUME TypeOK, NEW e \in DOMAIN exchanges, Admit(e)
  PROVE  LET x == exchanges[e]
             y == exchanges'[e]
             counted == [mock EXCEPT !.count = @ + 1]
         IN  /\ TypeOK' /\ UNCHANGED <<runs, capture, faults>> /\ Moved(e, y)
             /\ x.at = "admit" /\ y.at \in {"record", "update", "build"} /\ y.id = x.id
             /\ y.at # "update" => y.answer = x.answer
             /\ mock'.next = mock.next
             /\ \/ mock' = counted
                \/ mock' = Deleted(counted, x.method, OpOf(x), x.path)
             /\ y.at = "record" <=> Refusal(counted, x.method, x.path) # 0
             /\ y.at # "record" => OperationFor(x.method, x.path) # 0
             /\ y.at = "update" => Updates(mock, x.method, OpOf(x), x.path)
                                    /\ y.answer = Updated(mock, x.method, x.path, x.body)
             /\ y.at = "build" => ~ Updates(mock, x.method, OpOf(x), x.path)
  <1> DEFINE x == exchanges[e]
             counted == [mock EXCEPT !.count = @ + 1]
             refused == Refusal(counted, x.method, x.path)
             updates == refused = 0 /\ Updates(mock, x.method, OpOf(x), x.path)
             item == Updated(mock, x.method, x.path, x.body)
             no == [x EXCEPT !.at = "record", !.status = refused]
             up == [x EXCEPT !.at = "update", !.status = OpOf(x).status, !.answer = item]
             yes == [x EXCEPT !.at = "build", !.status = OpOf(x).status]
             y == IF refused # 0 THEN no ELSE IF updates THEN up ELSE yes
             applied == Deleted(counted, x.method, OpOf(x), x.path)
  <1>1. /\ x.at = "admit" /\ UNCHANGED <<runs, capture, faults>> /\ Moves(e, y)
        /\ mock' = IF refused # 0 THEN counted ELSE applied
    BY DEF Admit
  <1>2. refused = 0 => OperationFor(x.method, x.path) # 0
    BY DEF Refusal
  <1>3. IsExchange(x) /\ ExchangesOK /\ MockOK
    BY DEF TypeOK, ExchangesOK
  <1>4. DOMAIN counted = DOMAIN FreshMock /\ counted.next = mock.next
    BY <1>3, MockIs DEF MockOK
  <1>5. DOMAIN applied = DOMAIN FreshMock /\ applied.next = mock.next
    <2> HIDE DEF counted
    <2> QED BY <1>4, ApplyIs
  <1>14. updates <=> refused = 0 /\ Updates(mock, x.method, OpOf(x), x.path)
    OBVIOUS
  <1> HIDE DEF refused, applied, counted, updates, item
  <1>6. /\ DOMAIN no = ExchangeFields /\ no.client = x.client /\ no.phase = x.phase
        /\ no.method = x.method /\ no.path = x.path /\ no.body = x.body /\ no.epoch = x.epoch
        /\ no.beside = x.beside /\ no.at = "record" /\ no.id = x.id /\ no.answer = x.answer
    BY <1>3 DEF IsExchange, ExchangeFields
  <1>7. /\ DOMAIN yes = ExchangeFields /\ yes.client = x.client /\ yes.phase = x.phase
        /\ yes.method = x.method /\ yes.path = x.path /\ yes.body = x.body /\ yes.epoch = x.epoch
        /\ yes.beside = x.beside /\ yes.at = "build" /\ yes.id = x.id /\ yes.answer = x.answer
    BY <1>3 DEF IsExchange, ExchangeFields
  <1>15. /\ DOMAIN up = ExchangeFields /\ up.client = x.client /\ up.phase = x.phase
         /\ up.method = x.method /\ up.path = x.path /\ up.body = x.body /\ up.epoch = x.epoch
         /\ up.beside = x.beside /\ up.at = "update" /\ up.id = x.id /\ up.answer = item
    BY <1>3 DEF IsExchange, ExchangeFields
  <1> HIDE DEF no, yes, up
  <1>8. /\ DOMAIN y = ExchangeFields /\ y.client = x.client /\ y.phase = x.phase
        /\ y.method = x.method /\ y.path = x.path /\ y.body = x.body /\ y.epoch = x.epoch
        /\ y.beside = x.beside /\ y.at \in {"record", "update", "build"} /\ y.id = x.id
        /\ y.at # "update" => y.answer = x.answer
        /\ y.at = "update" => y.answer = item /\ updates
        /\ y.at = "build" => ~ updates
        /\ y.at = "record" <=> refused # 0
    BY <1>6, <1>7, <1>15
  <1> HIDE DEF y
  <1>9. IsExchange(y)
    BY <1>3, <1>8 DEF IsExchange, At, AtMock
  <1>10. Moved(e, y)
    BY <1>1, <1>3, <1>8, <1>9, MovesIs DEF Moved
  <1>11. MockOK' /\ mock'.next = mock.next
    BY <1>1, <1>3, <1>4, <1>5, MockIs DEF MockOK
  <1>12. TypeOK'
    BY <1>1, <1>10, <1>11 DEF TypeOK, RunsOK, IsRun, HasStep, Current, IsManifest, CaptureOK,
                              FaultsOK, WaitingOK, Moved
  <1>13. exchanges'[e] = y
    BY <1>10 DEF Moved
  <1> QED BY <1>1, <1>2, <1>8, <1>10, <1>11, <1>12, <1>13, <1>14 DEF applied, counted, item, refused

LEMMA UpdateIs ==
  ASSUME TypeOK, NEW e \in DOMAIN exchanges, Update(e)
  PROVE  LET x == exchanges[e]
             y == exchanges'[e]
         IN  /\ TypeOK' /\ UNCHANGED <<runs, capture, faults>> /\ Moved(e, y)
             /\ x.at = "update" /\ y.at = "build" /\ y.id = x.id /\ y.answer = << >>
             /\ mock'.next = mock.next
             /\ mock' = WriteBack(mock, x.path, x.answer)
  <1> DEFINE x == exchanges[e]
             y == [x EXCEPT !.at = "build", !.answer = << >>]
  <1>1. /\ x.at = "update" /\ UNCHANGED <<runs, capture, faults>> /\ Moves(e, y)
        /\ mock' = WriteBack(mock, x.path, x.answer)
    BY DEF Update
  <1>2. IsExchange(x) /\ ExchangesOK /\ MockOK /\ DOMAIN mock = DOMAIN FreshMock
    BY MockIs DEF TypeOK, ExchangesOK, MockOK
  <1>3. DOMAIN mock' = DOMAIN mock /\ mock'.next = mock.next
    BY <1>1, <1>2, ApplyIs
  <1>4. /\ DOMAIN y = ExchangeFields /\ y.client = x.client /\ y.phase = x.phase
        /\ y.method = x.method /\ y.path = x.path /\ y.body = x.body /\ y.epoch = x.epoch
        /\ y.beside = x.beside /\ y.at = "build" /\ y.id = x.id /\ y.answer = << >>
    BY <1>2 DEF IsExchange, ExchangeFields
  <1> HIDE DEF y
  <1>5. IsExchange(y)
    BY <1>2, <1>4 DEF IsExchange, At, AtMock
  <1>6. Moved(e, y)
    BY <1>1, <1>2, <1>4, <1>5, MovesIs DEF Moved
  <1>7. MockOK'
    BY <1>2, <1>3 DEF MockOK
  <1>8. TypeOK'
    BY <1>1, <1>6, <1>7 DEF TypeOK, RunsOK, IsRun, HasStep, Current, IsManifest, CaptureOK,
                            FaultsOK, WaitingOK, Moved
  <1>9. exchanges'[e] = y
    BY <1>6 DEF Moved
  <1> QED BY <1>1, <1>3, <1>4, <1>6, <1>8, <1>9

LEMMA BuildIs ==
  ASSUME TypeOK, NEW e \in DOMAIN exchanges, Build(e)
  PROVE  LET x == exchanges[e]
             y == exchanges'[e]
         IN  /\ TypeOK' /\ UNCHANGED <<runs, mock, capture, faults>> /\ Moved(e, y)
             /\ x.at = "build"
             /\ \/ y.at = "store" /\ y.id = ToString(mock.next) /\ y.answer = x.answer
                \/ /\ y.at = "record" /\ y.id = x.id
                   /\ y.answer = BuildBody(mock, x.method, OpOf(x), x.path)
  <1> DEFINE x == exchanges[e]
             made == [x EXCEPT !.at = "store", !.id = ToString(mock.next)]
             read == [x EXCEPT !.at = "record", !.answer = BuildBody(mock, x.method, OpOf(x), x.path)]
             y == IF Creates(x.method, OpOf(x)) THEN made ELSE read
  <1>1. x.at = "build" /\ UNCHANGED <<runs, mock, capture, faults>> /\ Moves(e, y)
    BY DEF Build
  <1>2. IsExchange(x) /\ ExchangesOK
    BY DEF TypeOK, ExchangesOK
  <1>3. /\ DOMAIN made = ExchangeFields /\ made.client = x.client /\ made.phase = x.phase
        /\ made.method = x.method /\ made.path = x.path /\ made.body = x.body /\ made.epoch = x.epoch
        /\ made.beside = x.beside /\ made.at = "store" /\ made.id = ToString(mock.next)
        /\ made.answer = x.answer
    BY <1>2 DEF IsExchange, ExchangeFields
  <1>4. /\ DOMAIN read = ExchangeFields /\ read.client = x.client /\ read.phase = x.phase
        /\ read.method = x.method /\ read.path = x.path /\ read.body = x.body /\ read.epoch = x.epoch
        /\ read.beside = x.beside /\ read.at = "record" /\ read.id = x.id
        /\ read.answer = BuildBody(mock, x.method, OpOf(x), x.path)
    BY <1>2 DEF IsExchange, ExchangeFields
  <1> HIDE DEF made, read
  <1>5. /\ DOMAIN y = ExchangeFields /\ y.client = x.client /\ y.phase = x.phase
        /\ y.method = x.method /\ y.path = x.path /\ y.body = x.body /\ y.epoch = x.epoch
        /\ y.beside = x.beside
        /\ \/ y.at = "store" /\ y.id = ToString(mock.next) /\ y.answer = x.answer
           \/ y.at = "record" /\ y.id = x.id /\ y.answer = BuildBody(mock, x.method, OpOf(x), x.path)
    BY <1>3, <1>4
  <1> HIDE DEF y
  <1>6. IsExchange(y)
    BY <1>2, <1>5 DEF IsExchange, At, AtMock
  <1>7. Moved(e, y)
    BY <1>1, <1>2, <1>5, <1>6, MovesIs DEF Moved
  <1>8. TypeOK'
    BY <1>1, <1>7 DEF TypeOK, RunsOK, IsRun, HasStep, Current, IsManifest, MockOK, CaptureOK,
                      FaultsOK, WaitingOK, Moved
  <1>9. exchanges'[e] = y
    BY <1>7 DEF Moved
  <1> QED BY <1>1, <1>5, <1>7, <1>8, <1>9

LEMMA StoredIs ==
  ASSUME TypeOK, NEW e \in DOMAIN exchanges, Store(e)
  PROVE  LET x == exchanges[e]
             y == exchanges'[e]
         IN  /\ TypeOK' /\ UNCHANGED <<runs, capture, faults>> /\ Moved(e, y)
             /\ x.at = "store" /\ y.at = "record" /\ y.id = x.id
             /\ y.answer = NewItem(OpOf(x), x.body, x.id)
             /\ mock' = StoreNew(mock, OpOf(x), x.path, x.body, x.id) /\ mock'.next = mock.next + 1
  <1> DEFINE x == exchanges[e]
             y == [x EXCEPT !.at = "record", !.answer = NewItem(OpOf(x), x.body, x.id)]
  <1>1. /\ x.at = "store" /\ UNCHANGED <<runs, capture, faults>> /\ Moves(e, y)
        /\ mock' = StoreNew(mock, OpOf(x), x.path, x.body, x.id)
    BY DEF Store
  <1>2. IsExchange(x) /\ ExchangesOK /\ MockOK
    BY DEF TypeOK, ExchangesOK
  <1>3. /\ DOMAIN y = ExchangeFields /\ y.client = x.client /\ y.phase = x.phase
        /\ y.method = x.method /\ y.path = x.path /\ y.body = x.body /\ y.epoch = x.epoch
        /\ y.beside = x.beside /\ y.at = "record" /\ y.id = x.id
        /\ y.answer = NewItem(OpOf(x), x.body, x.id)
    BY <1>2 DEF IsExchange, ExchangeFields
  <1> HIDE DEF y
  <1>4. IsExchange(y)
    BY <1>2, <1>3 DEF IsExchange, At
  <1>5. Moved(e, y)
    BY <1>1, <1>2, <1>3, <1>4, MovesIs DEF Moved
  <1>6. MockOK' /\ mock'.next = mock.next + 1
    BY <1>1, <1>2, StoreIs, MockIs DEF MockOK
  <1>7. TypeOK'
    BY <1>1, <1>5, <1>6 DEF TypeOK, RunsOK, IsRun, HasStep, Current, IsManifest, CaptureOK,
                            FaultsOK, WaitingOK, Moved
  <1>8. exchanges'[e] = y
    BY <1>5 DEF Moved
  <1> QED BY <1>1, <1>3, <1>5, <1>6, <1>7, <1>8

LEMMA RecordIs ==
  ASSUME TypeOK, NEW e \in DOMAIN exchanges, Record(e)
  PROVE  LET x == exchanges[e]
             y == exchanges'[e]
         IN  /\ TypeOK' /\ UNCHANGED <<runs, mock, faults>> /\ Moved(e, y)
             /\ x.at = "record" /\ y.id = x.id /\ y.answer = x.answer
             /\ capture'.entries = capture.entries /\ capture'.upstreamFailed = capture.upstreamFailed
             /\ \/ /\ y.at = "answered" /\ capture'.afterLimit = capture.afterLimit + 1
                \/ /\ y.at = "append" /\ capture'.afterLimit = capture.afterLimit
                   /\ Len(capture.entries) < MaxEntries
  <1> DEFINE x == exchanges[e]
             full == Len(capture.entries) >= MaxEntries
             y == [x EXCEPT !.at = IF full THEN "answered" ELSE "append"]
             skipped == [capture EXCEPT !.afterLimit = @ + 1]
  <1>1. /\ x.at = "record" /\ UNCHANGED <<runs, mock, faults>> /\ Moves(e, y)
        /\ capture' = IF full THEN skipped ELSE capture
    BY DEF Record
  <1>2. /\ IsExchange(x) /\ ExchangesOK /\ CaptureOK
        /\ Len(capture.entries) \in Nat /\ MaxEntries \in Nat
    BY WorkflowAssumption DEF TypeOK, ExchangesOK, CaptureOK
  <1>3. /\ DOMAIN skipped = {"entries", "afterLimit", "upstreamFailed"}
        /\ skipped.entries = capture.entries /\ skipped.upstreamFailed = capture.upstreamFailed
        /\ skipped.afterLimit = capture.afterLimit + 1
    BY <1>2 DEF CaptureOK
  <1>4. /\ DOMAIN y = ExchangeFields /\ y.client = x.client /\ y.phase = x.phase
        /\ y.method = x.method /\ y.path = x.path /\ y.body = x.body /\ y.epoch = x.epoch
        /\ y.beside = x.beside /\ y.id = x.id /\ y.answer = x.answer
        /\ y.at = IF full THEN "answered" ELSE "append"
    BY <1>2 DEF IsExchange, ExchangeFields
  <1> HIDE DEF y, skipped
  <1>5. IsExchange(y)
    BY <1>2, <1>4 DEF IsExchange, At
  <1>6. Moved(e, y)
    BY <1>1, <1>2, <1>4, <1>5, MovesIs DEF Moved
  <1>7. CaptureOK'
    <2>1. CASE full
      BY <1>1, <1>2, <1>3, <2>1 DEF CaptureOK
    <2>2. CASE ~full
      BY <1>1, <1>2, <2>2 DEF CaptureOK
    <2> QED BY <2>1, <2>2
  <1>8. TypeOK'
    BY <1>1, <1>6, <1>7 DEF TypeOK, RunsOK, IsRun, HasStep, Current, IsManifest, MockOK,
                            FaultsOK, WaitingOK, Moved
  <1>9. exchanges'[e] = y
    BY <1>6 DEF Moved
  <1> QED BY <1>1, <1>2, <1>3, <1>4, <1>6, <1>8, <1>9

LEMMA AppendedIs ==
  ASSUME TypeOK, NEW e \in DOMAIN exchanges, AppendEntry(e)
  PROVE  LET x == exchanges[e]
             y == exchanges'[e]
         IN  /\ TypeOK' /\ UNCHANGED <<runs, mock, faults>> /\ Moved(e, y)
             /\ x.at = "append" /\ y.at = "answered" /\ y.id = x.id /\ y.answer = x.answer
             /\ Len(capture'.entries) = Len(capture.entries) + 1
             /\ capture'.upstreamFailed = capture.upstreamFailed /\ capture'.afterLimit = capture.afterLimit
  <1> DEFINE x == exchanges[e]
             y == [x EXCEPT !.at = "answered"]
             longer == Append(capture.entries, Entry(x))
             kept == [capture EXCEPT !.entries = longer]
  <1>1. /\ x.at = "append" /\ UNCHANGED <<runs, mock, faults>> /\ Moves(e, y) /\ capture' = kept
    BY DEF AppendEntry, TypeOK, CaptureOK
  <1>2. IsExchange(x) /\ ExchangesOK /\ CaptureOK
    BY DEF TypeOK, ExchangesOK
  <1>3. longer \in Seq(Range(longer)) /\ Len(longer) = Len(capture.entries) + 1
    BY <1>2, AppendIs DEF CaptureOK
  <1> HIDE DEF longer
  <1>4. /\ DOMAIN kept = {"entries", "afterLimit", "upstreamFailed"} /\ kept.entries = longer
        /\ kept.upstreamFailed = capture.upstreamFailed /\ kept.afterLimit = capture.afterLimit
    BY <1>2 DEF CaptureOK
  <1>5. /\ DOMAIN y = ExchangeFields /\ y.client = x.client /\ y.phase = x.phase
        /\ y.method = x.method /\ y.path = x.path /\ y.body = x.body /\ y.epoch = x.epoch
        /\ y.beside = x.beside /\ y.id = x.id /\ y.answer = x.answer /\ y.at = "answered"
    BY <1>2 DEF IsExchange, ExchangeFields
  <1> HIDE DEF y, kept
  <1>6. IsExchange(y)
    BY <1>2, <1>5 DEF IsExchange, At
  <1>7. Moved(e, y)
    BY <1>1, <1>2, <1>5, <1>6, MovesIs DEF Moved
  <1>8. CaptureOK'
    BY <1>1, <1>2, <1>3, <1>4 DEF CaptureOK
  <1>9. TypeOK'
    BY <1>1, <1>7, <1>8 DEF TypeOK, RunsOK, IsRun, HasStep, Current, IsManifest, MockOK,
                            FaultsOK, WaitingOK, Moved
  <1>10. exchanges'[e] = y
    BY <1>7 DEF Moved
  <1> QED BY <1>1, <1>3, <1>4, <1>5, <1>7, <1>9, <1>10

LEMMA RestartIs ==
  ASSUME TypeOK, Restart
  PROVE  /\ TypeOK' /\ UNCHANGED runs /\ mock' = FreshMock
         /\ faults'.timeouts = faults.timeouts /\ faults'.restarts = faults.restarts + 1
         /\ DOMAIN exchanges' = DOMAIN exchanges
         /\ \A e \in DOMAIN exchanges :
              LET x == exchanges[e]
                  y == exchanges'[e]
              IN  /\ y.client = x.client /\ y.phase = x.phase /\ y.method = x.method /\ y.path = x.path
                  /\ y.body = x.body /\ y.epoch = x.epoch /\ y.beside = x.beside
                  /\ y.id = x.id /\ y.answer = x.answer
                  /\ y.at = IF e \in InFlight THEN "answered" ELSE x.at
         /\ capture'.entries = capture.entries /\ capture'.afterLimit = capture.afterLimit
         /\ capture'.upstreamFailed = capture.upstreamFailed + Cardinality(InFlight)
  <1>1. /\ UNCHANGED runs /\ mock' = FreshMock
        /\ faults' = [faults EXCEPT !.restarts = @ + 1]
        /\ exchanges' = [e \in DOMAIN exchanges |->
             IF e \in InFlight THEN [exchanges[e] EXCEPT !.at = "answered", !.status = 502] ELSE exchanges[e]]
        /\ capture' = [capture EXCEPT !.upstreamFailed = @ + Cardinality(InFlight)]
    BY DEF Restart
  <1>2. ExchangesOK /\ CaptureOK /\ DOMAIN exchanges = 1..Len(exchanges) /\ Len(exchanges) \in Nat
    BY DEF TypeOK, ExchangesOK
  <1>3. IsFiniteSet(InFlight) /\ Cardinality(InFlight) \in Nat
    <2>1. IsFiniteSet(DOMAIN exchanges)
      BY <1>2, FS_Interval
    <2>2. InFlight \in SUBSET (DOMAIN exchanges)
      BY DEF InFlight
    <2> QED BY <2>1, <2>2, FS_Subset, FS_CardinalityType
  <1>4. ASSUME NEW e \in DOMAIN exchanges
        PROVE  /\ IsExchange(exchanges'[e])
               /\ exchanges'[e].client = exchanges[e].client /\ exchanges'[e].phase = exchanges[e].phase
               /\ exchanges'[e].method = exchanges[e].method /\ exchanges'[e].path = exchanges[e].path
               /\ exchanges'[e].body = exchanges[e].body /\ exchanges'[e].epoch = exchanges[e].epoch
               /\ exchanges'[e].beside = exchanges[e].beside
               /\ exchanges'[e].id = exchanges[e].id /\ exchanges'[e].answer = exchanges[e].answer
               /\ exchanges'[e].at = IF e \in InFlight THEN "answered" ELSE exchanges[e].at
    <2> DEFINE x == exchanges[e]
               y == [x EXCEPT !.at = "answered", !.status = 502]
    <2>1. IsExchange(x)
      BY <1>2 DEF ExchangesOK
    <2>2. /\ DOMAIN y = ExchangeFields /\ y.client = x.client /\ y.phase = x.phase
          /\ y.method = x.method /\ y.path = x.path /\ y.body = x.body /\ y.epoch = x.epoch
          /\ y.beside = x.beside /\ y.id = x.id /\ y.answer = x.answer /\ y.at = "answered"
      BY <2>1 DEF IsExchange, ExchangeFields
    <2>3. exchanges'[e] = IF e \in InFlight THEN y ELSE x
      BY <1>1
    <2> HIDE DEF y
    <2>4. IsExchange(y)
      BY <2>1, <2>2 DEF IsExchange, At
    <2> QED BY <2>1, <2>2, <2>3, <2>4
  <1>5. DOMAIN exchanges' = DOMAIN exchanges /\ exchanges' = [e \in DOMAIN exchanges |-> exchanges'[e]]
    BY <1>1
  <1>6. exchanges' \in Seq(Range(exchanges')) /\ Len(exchanges') = Len(exchanges)
    BY <1>2, <1>5, MapIs DEF ExchangesOK
  <1>7. ExchangesOK'
    <2>1. (exchanges \in Seq(Range(exchanges)))'
      BY <1>6
    <2>2. \A e \in DOMAIN exchanges' : IsExchange(exchanges'[e])
      BY <1>4, <1>5
    <2> QED BY <2>1, <2>2 DEF ExchangesOK, IsExchange
  <1>8. /\ CaptureOK' /\ capture'.entries = capture.entries /\ capture'.afterLimit = capture.afterLimit
        /\ capture'.upstreamFailed = capture.upstreamFailed + Cardinality(InFlight)
    <2> DEFINE n == Cardinality(InFlight)
    <2>1. capture' = [capture EXCEPT !.upstreamFailed = @ + n] /\ n \in Nat
      BY <1>1, <1>3
    <2> HIDE DEF n
    <2>2. /\ DOMAIN capture' = DOMAIN capture
          /\ capture'.entries = capture.entries /\ capture'.afterLimit = capture.afterLimit
          /\ capture'.upstreamFailed = capture.upstreamFailed + n
      BY <1>2, <2>1 DEF CaptureOK
    <2>3. CaptureOK'
      BY <1>2, <2>1, <2>2 DEF CaptureOK
    <2> QED BY <2>2, <2>3 DEF n
  <1>9. FaultsOK' /\ faults'.timeouts = faults.timeouts /\ faults'.restarts = faults.restarts + 1
    <2>1. faults' = [faults EXCEPT !.restarts = @ + 1]
      BY <1>1
    <2> QED BY <2>1 DEF TypeOK, FaultsOK
  <1>10. MockOK'
    <2>1. mock' = FreshMock
      BY <1>1
    <2> QED BY <2>1, MockIs DEF MockOK
  <1>11. TypeOK'
    BY <1>1, <1>6, <1>7, <1>8, <1>9, <1>10 DEF TypeOK, RunsOK, IsRun, HasStep, Current, IsManifest, WaitingOK
  <1> QED BY <1>1, <1>4, <1>5, <1>8, <1>9, <1>11

LEMMA TypeBegins == Init => TypeOK
  <1> SUFFICES ASSUME Init PROVE TypeOK OBVIOUS
  <1>1. PICK job \in Jobs :
          runs = [c \in Clients |->
            [w |-> job[c].w, inputs |-> job[c].inputs, vars |-> job[c].inputs,
             phase |-> "new", pc |-> 1, waiting |-> 0, status |-> "pass"]]
    BY DEF Init
  <1>2. ASSUME NEW c \in Clients PROVE IsRun(runs[c]) /\ runs[c].waiting = 0
    <2>1. IsManifest(job[c].w)
      BY WorkflowAssumption
    <2>2. runs[c] = [w |-> job[c].w, inputs |-> job[c].inputs, vars |-> job[c].inputs,
                     phase |-> "new", pc |-> 1, waiting |-> 0, status |-> "pass"]
      BY <1>1
    <2>3. DOMAIN runs[c] = RunFields
      BY <2>2 DEF RunFields
    <2> QED BY <2>1, <2>2, <2>3 DEF IsRun, HasStep, RunPhases
  <1>3. RunsOK
    BY <1>1, <1>2 DEF RunsOK
  <1>4. exchanges = << >> /\ mock = FreshMock
        /\ capture = [entries |-> << >>, afterLimit |-> 0, upstreamFailed |-> 0]
        /\ faults = [timeouts |-> 0, restarts |-> 0]
    BY DEF Init
  <1>5. ExchangesOK /\ Len(exchanges) = 0
    BY <1>4 DEF ExchangesOK
  <1>6. MockOK
    BY <1>4, MockIs DEF MockOK
  <1>7. CaptureOK
    BY <1>4 DEF CaptureOK
  <1>8. FaultsOK
    BY <1>4 DEF FaultsOK
  <1> QED BY <1>2, <1>3, <1>5, <1>6, <1>7, <1>8 DEF TypeOK, WaitingOK

LEMMA TypeStays == TypeOK /\ UNCHANGED vars => TypeOK'
  BY DEF vars, TypeOK, RunsOK, IsRun, HasStep, Current, IsManifest, ExchangesOK, IsExchange,
         MockOK, CaptureOK, FaultsOK, WaitingOK

LEMMA TypeStep == TypeOK /\ [Next]_vars => TypeOK'
  <1> SUFFICES ASSUME TypeOK, [Next]_vars PROVE TypeOK' OBVIOUS
  <1>1. CASE UNCHANGED vars
    BY <1>1, TypeStays
  <1>2. ASSUME NEW c \in Clients, Start(c) \/ Send(c) \/ Evaluate(c) \/ TimeOut(c) PROVE TypeOK'
    BY <1>2, StartIs, SendIs, EvaluateIs, TimeOutIs
  <1>3. ASSUME NEW e \in DOMAIN exchanges, Admit(e) \/ Update(e) \/ Build(e) \/ Store(e) PROVE TypeOK'
    BY <1>3, AdmitIs, UpdateIs, BuildIs, StoredIs
  <1>4. ASSUME NEW e \in DOMAIN exchanges, Record(e) \/ AppendEntry(e) PROVE TypeOK'
    BY <1>4, RecordIs, AppendedIs
  <1>5. CASE Restart
    BY <1>5, RestartIs
  <1> QED BY <1>1, <1>2, <1>3, <1>4, <1>5 DEF Next

(* Every run, exchange, mock and corpus that the code reaches is well formed:  *)
(* a run that has a step to do has it in its manifest, and waits for an        *)
(* exchange that was sent.                                                     *)
THEOREM TypeCorrect == Spec => []TypeOK
  BY TypeBegins, TypeStep, PTL DEF Spec

-------------------------------------------------------------------------------
(* The mock's ids: read in one step, moved on in a later one.                  *)

\* An id of this epoch is below the counter once its resource is stored.
IdsOK ==
  \A e \in DOMAIN exchanges :
    /\ exchanges[e].epoch <= faults.restarts
    /\ exchanges[e].at \in AtMock => exchanges[e].epoch = faults.restarts
    /\ exchanges[e].at \in {"admit", "update", "build"} => exchanges[e].id = ""
    /\ exchanges[e].id # "" /\ exchanges[e].epoch = faults.restarts =>
         \E n \in Nat : /\ exchanges[e].id = ToString(n) /\ n <= mock.next
                        /\ exchanges[e].at # "store" => n < mock.next

BesideOK ==
  \A f \in DOMAIN exchanges : \A e \in 1..(f - 1) :
    e \in exchanges[f].beside \/ exchanges[e].at = "answered"

IdsInv == TypeOK /\ IdsOK /\ BesideOK /\ SharedIdMeansOverlap

\* Two numbers are written differently.
NumbersDiffer == \A m, n \in Nat : ToString(m) = ToString(n) => m = n

\* A step that hands out no id.
LEMMA IdsStay ==
  ASSUME IdsInv, TypeOK', DOMAIN exchanges' = DOMAIN exchanges,
         faults'.restarts = faults.restarts, mock'.next >= mock.next,
         \A e \in DOMAIN exchanges :
           /\ exchanges'[e].id = exchanges[e].id /\ exchanges'[e].epoch = exchanges[e].epoch
           /\ exchanges'[e].beside = exchanges[e].beside
           /\ exchanges[e].at = "answered" => exchanges'[e].at = "answered"
           /\ exchanges'[e].at \in AtMock => exchanges[e].at \in AtMock
           /\ exchanges'[e].at \in {"admit", "update", "build"} => exchanges[e].at \in {"admit", "update", "build"}
           /\ exchanges[e].at = "store" => exchanges'[e].at = "store" \/ mock'.next > mock.next
  PROVE  IdsInv'
  <1>1. mock.next \in Nat /\ mock'.next \in Nat /\ faults.restarts \in Nat
    BY DEF IdsInv, TypeOK, MockOK, FaultsOK
  <1>2. \A e \in DOMAIN exchanges : exchanges[e].epoch \in Nat
    BY DEF IdsInv, TypeOK, ExchangesOK, IsExchange
  <1>3. DOMAIN exchanges = 1..Len(exchanges) /\ Len(exchanges) \in Nat
    BY DEF IdsInv, TypeOK, ExchangesOK
  <1>4. ASSUME NEW e \in DOMAIN exchanges', exchanges'[e].id # "", exchanges'[e].epoch = faults'.restarts
        PROVE  \E n \in Nat : /\ exchanges'[e].id = ToString(n) /\ n <= mock'.next
                              /\ exchanges'[e].at # "store" => n < mock'.next
    <2>1. PICK n \in Nat : /\ exchanges[e].id = ToString(n) /\ n <= mock.next
                           /\ exchanges[e].at # "store" => n < mock.next
      BY <1>4 DEF IdsInv, IdsOK
    <2> QED BY <1>1, <2>1
  <1>5. IdsOK'
    BY <1>4 DEF IdsInv, IdsOK
  <1>6. BesideOK'
    BY <1>3 DEF IdsInv, BesideOK
  <1>7. SharedIdMeansOverlap'
    <2>1. ASSUME NEW f \in DOMAIN exchanges, NEW e \in 1..(f - 1),
                 exchanges'[e].id # "", exchanges'[e].id = exchanges'[f].id,
                 exchanges'[e].epoch = exchanges'[f].epoch
          PROVE  e \in exchanges'[f].beside
      <3>1. e \in DOMAIN exchanges
        BY <1>3
      <3> QED BY <2>1, <3>1 DEF IdsInv, SharedIdMeansOverlap
    <2> QED BY <2>1 DEF SharedIdMeansOverlap
  <1> QED BY <1>5, <1>6, <1>7 DEF IdsInv

LEMMA IdsSend ==
  ASSUME IdsInv, NEW c \in Clients, Send(c)
  PROVE  IdsInv'
  <1>1. TypeOK' /\ UNCHANGED <<mock, faults>>
    BY SendIs DEF IdsInv
  <1>2. CASE UNCHANGED exchanges
    BY <1>1, <1>2, IdsStay DEF IdsInv, TypeOK, MockOK
  <1>3. CASE \E x : Fresh(c, x) /\ exchanges' = Append(exchanges, x)
    <2>1. PICK x : Fresh(c, x) /\ exchanges' = Append(exchanges, x)
      BY <1>3
    <2> DEFINE n == Len(exchanges)
    <2>2. /\ n \in Nat /\ DOMAIN exchanges = 1..n /\ DOMAIN exchanges' = 1..(n + 1)
          /\ exchanges'[n + 1] = x /\ \A i \in DOMAIN exchanges : exchanges'[i] = exchanges[i]
      BY <2>1, SentIs DEF Fresh, IdsInv, TypeOK
    <2>3. /\ x.at = "admit" /\ x.id = "" /\ x.epoch = faults.restarts /\ x.beside = Open
          /\ faults.restarts \in Nat
      BY <2>1 DEF Fresh, IdsInv, TypeOK, FaultsOK
    <2> HIDE DEF n
    <2>4. ASSUME NEW e \in DOMAIN exchanges' PROVE e = n + 1 \/ e \in DOMAIN exchanges
      BY <2>2
    <2>5. IdsOK'
      <3>1. mock' = mock /\ faults' = faults
        BY <1>1
      <3>2. ASSUME NEW e \in DOMAIN exchanges'
            PROVE  /\ exchanges'[e].epoch <= faults.restarts
                   /\ exchanges'[e].at \in AtMock => exchanges'[e].epoch = faults.restarts
                   /\ exchanges'[e].at \in {"admit", "update", "build"} => exchanges'[e].id = ""
                   /\ exchanges'[e].id # "" /\ exchanges'[e].epoch = faults.restarts =>
                        \E k \in Nat : /\ exchanges'[e].id = ToString(k) /\ k <= mock.next
                                       /\ exchanges'[e].at # "store" => k < mock.next
        <4>1. CASE e = n + 1
          <5>1. exchanges'[e] = x
            BY <2>2, <4>1
          <5>2. x.epoch = faults.restarts /\ x.id = ""
            BY <2>3
          <5>3. faults.restarts \in Nat
            BY <2>3
          <5>4. faults.restarts <= faults.restarts
            BY <5>3
          <5> QED BY <5>1, <5>2, <5>4
        <4>2. CASE e \in DOMAIN exchanges
          BY <2>2, <4>2 DEF IdsInv, IdsOK
        <4> QED BY <2>4, <4>1, <4>2
      <3> QED BY <3>1, <3>2 DEF IdsOK
    <2>6. BesideOK'
      <3>1. ASSUME NEW f \in DOMAIN exchanges', NEW e \in 1..(f - 1)
            PROVE  e \in exchanges'[f].beside \/ exchanges'[e].at = "answered"
        <4>1. e \in DOMAIN exchanges
          BY <2>2
        <4>2. CASE f = n + 1
          BY <2>2, <2>3, <4>1, <4>2 DEF Open
        <4>3. CASE f \in DOMAIN exchanges
          BY <2>2, <4>1, <4>3 DEF IdsInv, BesideOK
        <4> QED BY <2>4, <4>2, <4>3
      <3> QED BY <3>1 DEF BesideOK
    <2>7. SharedIdMeansOverlap'
      <3>1. ASSUME NEW f \in DOMAIN exchanges', NEW e \in 1..(f - 1),
                   exchanges'[e].id # "", exchanges'[e].id = exchanges'[f].id,
                   exchanges'[e].epoch = exchanges'[f].epoch
            PROVE  e \in exchanges'[f].beside
        <4>1. f # n + 1
          BY <2>2, <2>3, <3>1
        <4>2. f \in DOMAIN exchanges /\ e \in DOMAIN exchanges
          BY <2>2, <2>4, <4>1
        <4> QED BY <2>2, <3>1, <4>2 DEF IdsInv, SharedIdMeansOverlap
      <3> QED BY <3>1 DEF SharedIdMeansOverlap
    <2> QED BY <1>1, <2>5, <2>6, <2>7 DEF IdsInv
  <1> QED BY <1>2, <1>3, SendIs DEF IdsInv

LEMMA IdsBuild ==
  ASSUME IdsInv, NumbersDiffer, NEW b \in DOMAIN exchanges, Build(b)
  PROVE  IdsInv'
  <1> DEFINE y == exchanges'[b]
  <1>1. TypeOK' /\ UNCHANGED <<mock, faults>> /\ exchanges[b].at = "build" /\ Moved(b, y)
    BY BuildIs DEF IdsInv
  <1>2. /\ DOMAIN exchanges' = DOMAIN exchanges
        /\ \A i \in DOMAIN exchanges : i # b => exchanges'[i] = exchanges[i]
        /\ y.epoch = exchanges[b].epoch /\ y.beside = exchanges[b].beside
    BY <1>1 DEF Moved
  <1>3. \/ y.at = "store" /\ y.id = ToString(mock.next)
        \/ y.at = "record" /\ y.id = exchanges[b].id
    BY BuildIs DEF IdsInv
  <1>4. mock' = mock /\ faults' = faults /\ mock.next \in Nat /\ faults.restarts \in Nat
    BY <1>1 DEF IdsInv, TypeOK, MockOK, FaultsOK
  <1>5. DOMAIN exchanges = 1..Len(exchanges) /\ Len(exchanges) \in Nat
    BY DEF IdsInv, TypeOK, ExchangesOK
  <1>6. exchanges[b].epoch = faults.restarts /\ exchanges[b].id = ""
    BY <1>1 DEF IdsInv, IdsOK, AtMock
  <1> HIDE DEF y
  <1>7. CASE y.at = "record" /\ y.id = exchanges[b].id
    BY <1>1, <1>2, <1>4, <1>7, IdsStay DEF y, AtMock
  <1>8. CASE y.at = "store" /\ y.id = ToString(mock.next)
    <2>1. IdsOK'
      <3>1. ASSUME NEW e \in DOMAIN exchanges'
            PROVE  /\ exchanges'[e].epoch <= faults.restarts
                   /\ exchanges'[e].at \in AtMock => exchanges'[e].epoch = faults.restarts
                   /\ exchanges'[e].at \in {"admit", "update", "build"} => exchanges'[e].id = ""
                   /\ exchanges'[e].id # "" /\ exchanges'[e].epoch = faults.restarts =>
                        \E k \in Nat : /\ exchanges'[e].id = ToString(k) /\ k <= mock.next
                                       /\ exchanges'[e].at # "store" => k < mock.next
        <4>1. CASE e = b
          <5>1. exchanges'[e] = y
            BY <4>1 DEF y
          <5>2. y.epoch = faults.restarts /\ y.epoch <= faults.restarts
            <6>1. faults.restarts <= faults.restarts
              BY <1>4
            <6> QED BY <1>2, <1>6, <6>1
          <5>3. y.id = ToString(mock.next) /\ mock.next <= mock.next
            BY <1>4, <1>8
          <5> QED BY <1>4, <1>8, <5>1, <5>2, <5>3
        <4>2. CASE e # b
          BY <1>2, <4>2 DEF IdsInv, IdsOK
        <4> QED BY <4>1, <4>2
      <3> QED BY <1>4, <3>1 DEF IdsOK
    <2>2. BesideOK'
      <3>1. ASSUME NEW f \in DOMAIN exchanges', NEW e \in 1..(f - 1)
            PROVE  e \in exchanges'[f].beside \/ exchanges'[e].at = "answered"
        <4>1. e \in DOMAIN exchanges /\ f \in DOMAIN exchanges /\ exchanges'[f].beside = exchanges[f].beside
          BY <1>2, <1>5 DEF y
        <4>2. exchanges[e].at = "answered" => exchanges'[e].at = "answered"
          BY <1>1, <1>2, <4>1
        <4> QED BY <4>1, <4>2 DEF IdsInv, BesideOK
      <3> QED BY <3>1 DEF BesideOK
    <2>3. SharedIdMeansOverlap'
      <3>1. ASSUME NEW f \in DOMAIN exchanges', NEW e \in 1..(f - 1),
                   exchanges'[e].id # "", exchanges'[e].id = exchanges'[f].id,
                   exchanges'[e].epoch = exchanges'[f].epoch
            PROVE  e \in exchanges'[f].beside
        <4>1. e \in DOMAIN exchanges /\ f \in DOMAIN exchanges /\ e # f
          BY <1>2, <1>5
        <4>2. exchanges'[f].beside = exchanges[f].beside
          BY <1>2, <4>1 DEF y
        <4>3. e \in exchanges[f].beside \/ exchanges[e].at = "answered"
          BY <4>1 DEF IdsInv, BesideOK
        <4>4. CASE f = b
          <5>1. exchanges'[e] = exchanges[e] /\ exchanges[e].epoch = faults.restarts
                /\ exchanges[e].id = ToString(mock.next) /\ exchanges[e].id # ""
            BY <1>2, <1>6, <1>8, <3>1, <4>1, <4>4 DEF y
          <5>2. PICK k \in Nat : /\ exchanges[e].id = ToString(k) /\ k <= mock.next
                                 /\ exchanges[e].at # "store" => k < mock.next
            BY <4>1, <5>1 DEF IdsInv, IdsOK
          <5>3. k = mock.next
            BY <1>4, <5>1, <5>2 DEF NumbersDiffer
          <5>4. exchanges[e].at = "store"
            BY <1>4, <5>2, <5>3
          <5> QED BY <4>2, <4>3, <5>4
        <4>5. CASE e = b
          BY <1>1, <4>2, <4>3, <4>5
        <4>6. CASE f # b /\ e # b
          BY <1>2, <3>1, <4>1, <4>6 DEF IdsInv, SharedIdMeansOverlap
        <4> QED BY <4>4, <4>5, <4>6
      <3> QED BY <3>1 DEF SharedIdMeansOverlap
    <2> QED BY <1>1, <2>1, <2>2, <2>3 DEF IdsInv
  <1> QED BY <1>3, <1>7, <1>8

LEMMA IdsRestart == IdsInv /\ Restart => IdsInv'
  <1> SUFFICES ASSUME IdsInv, Restart PROVE IdsInv' OBVIOUS
  <1>1. /\ TypeOK' /\ faults'.restarts = faults.restarts + 1 /\ DOMAIN exchanges' = DOMAIN exchanges
        /\ \A e \in DOMAIN exchanges :
             /\ exchanges'[e].epoch = exchanges[e].epoch /\ exchanges'[e].beside = exchanges[e].beside
             /\ exchanges'[e].id = exchanges[e].id
             /\ exchanges'[e].at = IF e \in InFlight THEN "answered" ELSE exchanges[e].at
    BY RestartIs DEF IdsInv
  <1>2. /\ faults.restarts \in Nat
        /\ \A e \in DOMAIN exchanges : exchanges[e].epoch \in Nat /\ exchanges[e].epoch <= faults.restarts
    BY DEF IdsInv, IdsOK, TypeOK, FaultsOK, ExchangesOK, IsExchange
  <1>3. DOMAIN exchanges = 1..Len(exchanges) /\ Len(exchanges) \in Nat
    BY DEF IdsInv, TypeOK, ExchangesOK
  <1>4. ASSUME NEW e \in DOMAIN exchanges
        PROVE  /\ exchanges'[e].epoch <= faults'.restarts /\ exchanges'[e].epoch # faults'.restarts
               /\ exchanges'[e].at \notin AtMock
    <2>1. exchanges'[e].at \notin AtMock
      BY <1>1 DEF InFlight, AtMock
    <2> QED BY <1>1, <1>2, <2>1
  <1>5. IdsOK'
    BY <1>1, <1>4 DEF IdsOK, AtMock
  <1>6. BesideOK'
    BY <1>1, <1>3 DEF IdsInv, BesideOK
  <1>7. SharedIdMeansOverlap'
    <2>1. ASSUME NEW f \in DOMAIN exchanges, NEW e \in 1..(f - 1),
                 exchanges'[e].id # "", exchanges'[e].id = exchanges'[f].id,
                 exchanges'[e].epoch = exchanges'[f].epoch
          PROVE  e \in exchanges'[f].beside
      <3>1. e \in DOMAIN exchanges
        BY <1>3
      <3> QED BY <1>1, <2>1, <3>1 DEF IdsInv, SharedIdMeansOverlap
    <2> QED BY <1>1, <2>1 DEF SharedIdMeansOverlap
  <1> QED BY <1>1, <1>5, <1>6, <1>7 DEF IdsInv

\* The exchanges but e stay as they are, and e stays with its id.
LEMMA IdsMove ==
  ASSUME IdsInv, TypeOK', NEW e \in DOMAIN exchanges, Moved(e, exchanges'[e]),
         exchanges'[e].id = exchanges[e].id, faults' = faults, mock'.next >= mock.next,
         exchanges[e].at = "answered" => exchanges'[e].at = "answered",
         exchanges'[e].at \in AtMock => exchanges[e].at \in AtMock,
         exchanges'[e].at \in {"admit", "update", "build"} => exchanges[e].at \in {"admit", "update", "build"},
         exchanges[e].at = "store" => mock'.next > mock.next
  PROVE  IdsInv'
  <1>1. /\ DOMAIN exchanges' = DOMAIN exchanges
        /\ \A i \in DOMAIN exchanges : i # e => exchanges'[i] = exchanges[i]
        /\ exchanges'[e].epoch = exchanges[e].epoch /\ exchanges'[e].beside = exchanges[e].beside
    BY DEF Moved
  <1>2. ASSUME NEW i \in DOMAIN exchanges
        PROVE  /\ exchanges'[i].id = exchanges[i].id /\ exchanges'[i].epoch = exchanges[i].epoch
               /\ exchanges'[i].beside = exchanges[i].beside
               /\ exchanges[i].at = "answered" => exchanges'[i].at = "answered"
               /\ exchanges'[i].at \in AtMock => exchanges[i].at \in AtMock
               /\ exchanges'[i].at \in {"admit", "update", "build"} => exchanges[i].at \in {"admit", "update", "build"}
               /\ exchanges[i].at = "store" => exchanges'[i].at = "store" \/ mock'.next > mock.next
    <2>1. CASE i = e
      BY <1>1, <2>1
    <2>2. CASE i # e
      BY <1>1, <2>2
    <2> QED BY <2>1, <2>2
  <1> QED BY <1>1, <1>2, IdsStay

LEMMA IdsStep == ASSUME IdsInv, NumbersDiffer, [Next]_vars PROVE IdsInv'
  <1>1. TypeOK /\ mock.next \in Nat
    BY DEF IdsInv, TypeOK, MockOK
  <1>2. CASE UNCHANGED vars
    <2>1. TypeOK'
      BY <1>1, <1>2, TypeStays
    <2> QED BY <1>1, <1>2, <2>1, IdsStay DEF vars
  <1>3. ASSUME NEW c \in Clients, Start(c) \/ TimeOut(c) PROVE IdsInv'
    <2>1. TypeOK' /\ UNCHANGED <<exchanges, mock>> /\ faults'.restarts = faults.restarts
      BY <1>1, <1>3, StartIs, TimeOutIs
    <2> QED BY <1>1, <2>1, IdsStay
  <1>4. ASSUME NEW c \in Clients, Send(c) PROVE IdsInv'
    BY <1>4, IdsSend
  <1>5. ASSUME NEW c \in Clients, Evaluate(c) PROVE IdsInv'
    <2> DEFINE e == runs[c].waiting
    <2>1. /\ TypeOK' /\ UNCHANGED <<mock, faults>> /\ e \in DOMAIN exchanges /\ exchanges[e].at = "answered"
          /\ Moved(e, exchanges'[e]) /\ exchanges'[e].at = exchanges[e].at /\ exchanges'[e].id = exchanges[e].id
      BY <1>1, <1>5, EvaluateIs
    <2> HIDE DEF e
    <2> QED BY <1>1, <2>1, IdsMove
  <1>6. ASSUME NEW e \in DOMAIN exchanges, Admit(e) PROVE IdsInv'
    <2>1. /\ TypeOK' /\ faults' = faults /\ Moved(e, exchanges'[e]) /\ mock'.next = mock.next
          /\ exchanges[e].at = "admit" /\ exchanges'[e].at \in {"record", "update", "build"}
          /\ exchanges'[e].id = exchanges[e].id
      BY <1>1, <1>6, AdmitIs
    <2> QED BY <1>1, <2>1, IdsMove DEF AtMock
  <1>11. ASSUME NEW e \in DOMAIN exchanges, Update(e) PROVE IdsInv'
    <2>1. /\ TypeOK' /\ faults' = faults /\ Moved(e, exchanges'[e]) /\ mock'.next = mock.next
          /\ exchanges[e].at = "update" /\ exchanges'[e].at = "build"
          /\ exchanges'[e].id = exchanges[e].id
      BY <1>1, <1>11, UpdateIs
    <2> QED BY <1>1, <2>1, IdsMove DEF AtMock
  <1>7. ASSUME NEW e \in DOMAIN exchanges, Build(e) PROVE IdsInv'
    BY <1>7, IdsBuild
  <1>8. ASSUME NEW e \in DOMAIN exchanges, Store(e) PROVE IdsInv'
    <2>1. /\ TypeOK' /\ faults' = faults /\ Moved(e, exchanges'[e]) /\ mock'.next = mock.next + 1
          /\ exchanges[e].at = "store" /\ exchanges'[e].at = "record"
          /\ exchanges'[e].id = exchanges[e].id
      BY <1>1, <1>8, StoredIs
    <2> QED BY <1>1, <2>1, IdsMove DEF AtMock
  <1>9. ASSUME NEW e \in DOMAIN exchanges, Record(e) \/ AppendEntry(e) PROVE IdsInv'
    <2>1. /\ TypeOK' /\ UNCHANGED <<mock, faults>> /\ Moved(e, exchanges'[e])
          /\ exchanges[e].at \in {"record", "append"} /\ exchanges'[e].at \in {"append", "answered"}
          /\ exchanges'[e].id = exchanges[e].id
      BY <1>1, <1>9, RecordIs, AppendedIs
    <2> QED BY <1>1, <2>1, IdsMove DEF AtMock
  <1>10. CASE Restart
    BY <1>10, IdsRestart
  <1> QED BY <1>2, <1>3, <1>4, <1>5, <1>6, <1>7, <1>8, <1>9, <1>10, <1>11 DEF Next

(* Two resources get one id of the mock only when their requests were open at  *)
(* the same time: an id of the running mock is below its counter as soon as    *)
(* its resource is stored, and whoever came later found it answered.           *)
THEOREM SharedIds == ASSUME NumbersDiffer PROVE Spec => []SharedIdMeansOverlap
  <1>1. Init => IdsInv
    <2>1. Init => exchanges = << >>
      BY DEF Init
    <2> QED BY <2>1, TypeBegins DEF IdsInv, IdsOK, BesideOK, SharedIdMeansOverlap
  <1>2. IdsInv /\ [Next]_vars => IdsInv'
    BY IdsStep
  <1>3. IdsInv => SharedIdMeansOverlap
    BY DEF IdsInv
  <1> QED BY <1>1, <1>2, <1>3, PTL DEF Spec

-------------------------------------------------------------------------------
(* The corpus: every exchange is in it or counted as missing.                  *)

Answered == DOMAIN exchanges \ Open
Appending == {e \in DOMAIN exchanges : exchanges[e].at = "append"}

\* Open, and the client that sent it waits for it no longer.
Abandoned == {e \in Open : runs[exchanges[e].client].waiting # e}

CountedOK == Len(capture.entries) + capture.afterLimit + capture.upstreamFailed = Cardinality(Answered)
AbandonedOK == Cardinality(Abandoned) <= faults.timeouts
AppendingOK == Len(capture.entries) + Cardinality(Appending) < MaxEntries + Cardinality(Clients) + faults.timeouts

CorpusInv == TypeOK /\ CountedOK /\ AbandonedOK /\ AppendingOK

LEMMA OneMore ==
  ASSUME NEW S, NEW x, IsFiniteSet(S)
  PROVE  /\ IsFiniteSet(S \cup {x}) /\ Cardinality(S \cup {x}) \in Nat
         /\ Cardinality(S \cup {x}) <= Cardinality(S) + 1
         /\ x \notin S => Cardinality(S \cup {x}) = Cardinality(S) + 1
  <1>1. IsFiniteSet(S \cup {x}) /\ Cardinality(S \cup {x}) = IF x \in S THEN Cardinality(S) ELSE Cardinality(S) + 1
    BY FS_AddElement
  <1>2. Cardinality(S) \in Nat /\ Cardinality(S \cup {x}) \in Nat
    BY <1>1, FS_CardinalityType
  <1>3. CASE x \in S
    BY <1>1, <1>2, <1>3
  <1>4. CASE x \notin S
    BY <1>1, <1>2, <1>4
  <1> QED BY <1>3, <1>4

LEMMA OneLess ==
  ASSUME NEW S, NEW x \in S, IsFiniteSet(S)
  PROVE  Cardinality(S) \in Nat /\ Cardinality(S \ {x}) \in Nat /\ Cardinality(S \ {x}) = Cardinality(S) - 1
  <1>1. IsFiniteSet(S \ {x}) /\ Cardinality(S \ {x}) = Cardinality(S) - 1
    BY FS_RemoveElement
  <1>2. Cardinality(S) \in Nat /\ Cardinality(S \ {x}) \in Nat
    BY <1>1, FS_CardinalityType
  <1> QED BY <1>1, <1>2

LEMMA ApartAddUp ==
  ASSUME NEW S, NEW T, IsFiniteSet(S), IsFiniteSet(T), S \cap T = {}
  PROVE  Cardinality(S \cup T) = Cardinality(S) + Cardinality(T)
  <1>1. Cardinality(S \cup T) = Cardinality(S) + Cardinality(T) - Cardinality(S \cap T)
    BY FS_Union
  <1>2. Cardinality(S \cap T) = 0
    BY FS_EmptySet
  <1>3. Cardinality(S) \in Nat /\ Cardinality(T) \in Nat
    BY FS_CardinalityType
  <1> QED BY <1>1, <1>2, <1>3

LEMMA OneMoreInTheMiddle ==
  ASSUME NEW a \in Nat, NEW b \in Nat, NEW c \in Nat, NEW d \in Nat, a + b + c = d
  PROVE  a + (b + 1) + c = d + 1
  OBVIOUS

LEMMA ExchangeSets ==
  ASSUME TypeOK
  PROVE  /\ DOMAIN exchanges = 1..Len(exchanges) /\ Len(exchanges) \in Nat
         /\ IsFiniteSet(DOMAIN exchanges)
         /\ \A S \in SUBSET (DOMAIN exchanges) : IsFiniteSet(S) /\ Cardinality(S) \in Nat
         /\ IsFiniteSet(Clients) /\ Cardinality(Clients) \in Nat
  <1>1. DOMAIN exchanges = 1..Len(exchanges) /\ Len(exchanges) \in Nat
    BY DEF TypeOK, ExchangesOK
  <1>2. IsFiniteSet(DOMAIN exchanges)
    BY <1>1, FS_Interval
  <1>3. ASSUME NEW S \in SUBSET (DOMAIN exchanges) PROVE IsFiniteSet(S) /\ Cardinality(S) \in Nat
    BY <1>2, FS_Subset, FS_CardinalityType
  <1>4. IsFiniteSet(Clients) /\ Cardinality(Clients) \in Nat
    BY WorkflowAssumption, FS_CardinalityType
  <1> QED BY <1>1, <1>2, <1>3, <1>4

LEMMA CorpusNumbers ==
  ASSUME TypeOK
  PROVE  /\ Len(capture.entries) \in Nat /\ capture.afterLimit \in Nat /\ capture.upstreamFailed \in Nat
         /\ faults.timeouts \in Nat /\ MaxEntries \in Nat \ {0}
         /\ IsFiniteSet(Open) /\ Cardinality(Open) \in Nat
         /\ IsFiniteSet(Answered) /\ Cardinality(Answered) \in Nat
         /\ IsFiniteSet(Appending) /\ Cardinality(Appending) \in Nat
         /\ IsFiniteSet(Abandoned) /\ Cardinality(Abandoned) \in Nat
  <1>1. /\ Len(capture.entries) \in Nat /\ capture.afterLimit \in Nat /\ capture.upstreamFailed \in Nat
        /\ faults.timeouts \in Nat
    BY DEF TypeOK, CaptureOK, FaultsOK
  <1>2. Open \subseteq DOMAIN exchanges /\ Answered \subseteq DOMAIN exchanges
        /\ Appending \subseteq DOMAIN exchanges /\ Abandoned \subseteq DOMAIN exchanges
    BY DEF Open, Answered, Appending, Abandoned
  <1> QED BY <1>1, <1>2, ExchangeSets, WorkflowAssumption

\* Each client waits for one exchange, so the others that are open were given up.
LEMMA OpenIsBounded ==
  ASSUME TypeOK
  PROVE  Cardinality(Open) <= Cardinality(Clients) + Cardinality(Abandoned)
  <1> DEFINE W == Open \ Abandoned
             f == [e \in W |-> exchanges[e].client]
  <1>1. \A e \in W : exchanges[e].client \in Clients /\ runs[exchanges[e].client].waiting = e
    BY DEF Open, Abandoned, TypeOK, ExchangesOK, IsExchange
  <1>2. f \in [W -> Clients] /\ \A a, b \in W : f[a] = f[b] => a = b
    BY <1>1
  <1>3. f \in Injection(W, Clients)
    BY <1>2 DEF Injection, IsInjective
  <1>4. Cardinality(W) <= Cardinality(Clients) /\ IsFiniteSet(W)
    BY <1>3, WorkflowAssumption, FS_Injection
  <1>5. Open = W \cup Abandoned
    BY DEF Abandoned
  <1>6. IsFiniteSet(Abandoned) /\ Cardinality(Abandoned) \in Nat /\ Cardinality(Clients) \in Nat
    BY CorpusNumbers, ExchangeSets
  <1>7. IsFiniteSet(W \cap Abandoned) /\ W \cap Abandoned = {}
    BY FS_EmptySet
  <1>8. Cardinality(W \cap Abandoned) = 0
    BY <1>7, FS_EmptySet
  <1> HIDE DEF W, f
  <1>9. Cardinality(W \cup Abandoned) = Cardinality(W) + Cardinality(Abandoned) - Cardinality(W \cap Abandoned)
    BY <1>4, <1>6, FS_Union
  <1>10. Cardinality(W) \in Nat
    BY <1>4, FS_CardinalityType
  <1> QED BY <1>4, <1>5, <1>6, <1>8, <1>9, <1>10

\* A step that answers nothing, appends nothing and gives nothing up.
LEMMA CorpusStay ==
  ASSUME CorpusInv, TypeOK', capture' = capture, faults'.timeouts = faults.timeouts,
         Answered' = Answered, Appending' = Appending, Abandoned' \subseteq Abandoned
  PROVE  CorpusInv'
  <1>1. Cardinality(Abandoned') <= Cardinality(Abandoned) /\ IsFiniteSet(Abandoned')
    BY CorpusNumbers, FS_Subset DEF CorpusInv
  <1>2. Cardinality(Abandoned) \in Nat /\ Cardinality(Abandoned') \in Nat
        /\ faults.timeouts \in Nat
    BY <1>1, CorpusNumbers, FS_CardinalityType DEF CorpusInv
  <1>3. CountedOK'
    BY DEF CorpusInv, CountedOK
  <1>4. AbandonedOK'
    BY <1>1, <1>2 DEF CorpusInv, AbandonedOK
  <1>5. AppendingOK'
    BY DEF CorpusInv, AppendingOK
  <1> QED BY <1>3, <1>4, <1>5 DEF CorpusInv

\* An exchange that moves on and is neither answered nor appended by it.
LEMMA CorpusMove ==
  ASSUME CorpusInv, TypeOK', NEW e \in DOMAIN exchanges, Moved(e, exchanges'[e]),
         capture' = capture, faults' = faults,
         \A c \in Clients : runs'[c].waiting # runs[c].waiting =>
           runs'[c].waiting = 0 /\ runs[c].waiting \notin Open,
         exchanges'[e].at = exchanges[e].at
           \/ {exchanges[e].at, exchanges'[e].at} \cap {"answered", "append"} = {}
  PROVE  CorpusInv'
  <1>1. /\ DOMAIN exchanges' = DOMAIN exchanges
        /\ \A i \in DOMAIN exchanges : i # e => exchanges'[i] = exchanges[i]
        /\ exchanges'[e].client = exchanges[e].client
    BY DEF Moved
  <1>2. /\ DOMAIN exchanges = 1..Len(exchanges) /\ Len(exchanges) \in Nat
        /\ \A i \in DOMAIN exchanges : exchanges[i].client \in Clients
    BY DEF CorpusInv, TypeOK, ExchangesOK, IsExchange
  <1>3. \A i \in DOMAIN exchanges : /\ exchanges'[i].client = exchanges[i].client
                                    /\ exchanges'[i].at = "answered" <=> exchanges[i].at = "answered"
                                    /\ exchanges'[i].at = "append" <=> exchanges[i].at = "append"
    BY <1>1
  <1>4. Open' = Open /\ Appending' = Appending
    BY <1>1, <1>3 DEF Open, Appending
  <1>5. Answered' = Answered
    BY <1>1, <1>4 DEF Answered
  <1>6. ASSUME NEW i \in Abandoned' PROVE i \in Abandoned
    <2>1. i \in Open /\ i \in DOMAIN exchanges /\ runs'[exchanges'[i].client].waiting # i
      BY <1>6, <1>4 DEF Abandoned, Open
    <2>2. exchanges'[i].client = exchanges[i].client /\ exchanges[i].client \in Clients
      BY <1>2, <1>3, <2>1
    <2> QED BY <2>1, <2>2 DEF Abandoned
  <1> QED BY <1>4, <1>5, <1>6, CorpusStay

LEMMA CorpusSend ==
  ASSUME CorpusInv, NEW c \in Clients, Send(c)
  PROVE  CorpusInv'
  <1>1. /\ TypeOK' /\ capture' = capture /\ faults' = faults /\ runs[c].waiting = 0
        /\ \A d \in Clients : d # c => runs'[d] = runs[d]
    BY SendIs DEF CorpusInv, GoesOn
  <1>2. /\ DOMAIN exchanges = 1..Len(exchanges) /\ Len(exchanges) \in Nat
        /\ \A i \in DOMAIN exchanges : exchanges[i].client \in Clients
    BY DEF CorpusInv, TypeOK, ExchangesOK, IsExchange
  <1>3. CASE UNCHANGED exchanges /\ runs'[c].waiting = 0
    <2>1. Open' = Open /\ Answered' = Answered /\ Appending' = Appending
      BY <1>3 DEF Open, Answered, Appending
    <2>2. \A d \in Clients : runs'[d].waiting = runs[d].waiting
      BY <1>1, <1>3
    <2>3. Abandoned' \subseteq Abandoned
      BY <1>2, <1>3, <2>1, <2>2 DEF Abandoned, Open
    <2> QED BY <1>1, <2>1, <2>3, CorpusStay
  <1>4. CASE (\E x : Fresh(c, x) /\ exchanges' = Append(exchanges, x)) /\ runs'[c].waiting = Len(exchanges) + 1
    <2>1. PICK x : Fresh(c, x) /\ exchanges' = Append(exchanges, x)
      BY <1>4
    <2> DEFINE n == Len(exchanges)
    <2>2. /\ n \in Nat /\ DOMAIN exchanges = 1..n /\ DOMAIN exchanges' = 1..(n + 1)
          /\ exchanges'[n + 1] = x /\ \A i \in DOMAIN exchanges : exchanges'[i] = exchanges[i]
      BY <2>1, SentIs DEF Fresh, CorpusInv, TypeOK
    <2>3. x.at = "admit" /\ x.client = c /\ runs'[c].waiting = n + 1
      BY <1>4, <2>1 DEF Fresh
    <2> HIDE DEF n
    <2>4. n + 1 \notin DOMAIN exchanges /\ DOMAIN exchanges' = DOMAIN exchanges \cup {n + 1}
      BY <2>2
    <2>5. Open' = Open \cup {n + 1}
      BY <2>2, <2>3, <2>4 DEF Open
    <2>6. Answered' = Answered /\ Appending' = Appending
      BY <2>2, <2>3, <2>4, <2>5 DEF Answered, Appending
    <2>7. ASSUME NEW i \in Abandoned' PROVE i \in Abandoned
      <3>1. i \in Open' /\ runs'[exchanges'[i].client].waiting # i
        BY <2>7 DEF Abandoned
      <3>2. i # n + 1
        BY <2>2, <2>3, <3>1
      <3>3. i \in Open /\ exchanges'[i] = exchanges[i] /\ exchanges[i].client \in Clients /\ i # 0
        BY <1>2, <2>2, <2>5, <3>1, <3>2 DEF Open
      <3> QED BY <1>1, <3>1, <3>3 DEF Abandoned
    <2> QED BY <1>1, <2>6, <2>7, CorpusStay
  <1> QED BY <1>3, <1>4, SendIs DEF CorpusInv

LEMMA CorpusTimeOut ==
  ASSUME CorpusInv, NEW c \in Clients, TimeOut(c)
  PROVE  CorpusInv'
  <1>1. /\ TypeOK' /\ exchanges' = exchanges /\ capture' = capture
        /\ faults'.timeouts = faults.timeouts + 1
        /\ \A d \in Clients : d # c => runs'[d] = runs[d]
    BY TimeOutIs DEF CorpusInv, GoesOn
  <1>2. Open' = Open /\ Answered' = Answered /\ Appending' = Appending
    BY <1>1 DEF Open, Answered, Appending
  <1> DEFINE more == Abandoned \cup {runs[c].waiting}
  <1>3. ASSUME NEW i \in Abandoned' PROVE i \in more
    <2>1. i \in Open /\ runs'[exchanges[i].client].waiting # i /\ exchanges[i].client \in Clients
      BY <1>1, <1>2, <1>3 DEF Abandoned, Open, CorpusInv, TypeOK, ExchangesOK, IsExchange
    <2> QED BY <1>1, <2>1 DEF Abandoned
  <1>4. /\ IsFiniteSet(Abandoned) /\ Cardinality(Abandoned) \in Nat /\ faults.timeouts \in Nat
        /\ Len(capture.entries) \in Nat /\ Cardinality(Appending) \in Nat /\ MaxEntries \in Nat
        /\ Cardinality(Clients) \in Nat
    BY CorpusNumbers, ExchangeSets DEF CorpusInv
  <1>5. IsFiniteSet(more) /\ Cardinality(more) <= Cardinality(Abandoned) + 1 /\ Cardinality(more) \in Nat
    BY <1>4, OneMore
  <1> HIDE DEF more
  <1>6. Abandoned' \in SUBSET more
    BY <1>3
  <1>7. Cardinality(Abandoned') <= Cardinality(more) /\ Cardinality(Abandoned') \in Nat
    BY <1>5, <1>6, FS_Subset, FS_CardinalityType
  <1>8. CountedOK'
    BY <1>1, <1>2 DEF CorpusInv, CountedOK
  <1>9. AbandonedOK'
    BY <1>1, <1>4, <1>5, <1>7 DEF CorpusInv, AbandonedOK
  <1>10. AppendingOK'
    BY <1>1, <1>2, <1>4 DEF CorpusInv, AppendingOK
  <1> QED BY <1>1, <1>8, <1>9, <1>10 DEF CorpusInv

LEMMA CorpusRecord ==
  ASSUME CorpusInv, NEW e \in DOMAIN exchanges, Record(e)
  PROVE  CorpusInv'
  <1> DEFINE x == exchanges[e]
             y == exchanges'[e]
  <1>1. /\ TypeOK' /\ UNCHANGED <<runs, faults>> /\ Moved(e, y) /\ x.at = "record"
        /\ capture'.entries = capture.entries /\ capture'.upstreamFailed = capture.upstreamFailed
        /\ \/ y.at = "answered" /\ capture'.afterLimit = capture.afterLimit + 1
           \/ /\ y.at = "append" /\ capture'.afterLimit = capture.afterLimit
              /\ Len(capture.entries) < MaxEntries
    BY RecordIs DEF CorpusInv
  <1>2. /\ DOMAIN exchanges' = DOMAIN exchanges /\ y.client = x.client
        /\ \A i \in DOMAIN exchanges : i # e => exchanges'[i] = exchanges[i]
    BY <1>1 DEF Moved
  <1>3. Abandoned' \subseteq Abandoned
    <2>1. \A i \in DOMAIN exchanges : exchanges'[i].client = exchanges[i].client
      BY <1>2
    <2>2. \A i \in Open' : i \in Open
      BY <1>1, <1>2 DEF Open
    <2>3. Open' \subseteq DOMAIN exchanges
      BY <1>2 DEF Open
    <2> QED BY <1>1, <2>1, <2>2, <2>3 DEF Abandoned
  <1>4. /\ IsFiniteSet(Answered) /\ IsFiniteSet(Appending) /\ IsFiniteSet(Abandoned) /\ IsFiniteSet(Open)
        /\ Cardinality(Answered) \in Nat /\ Cardinality(Appending) \in Nat /\ Cardinality(Abandoned) \in Nat
        /\ Cardinality(Open) \in Nat
        /\ Len(capture.entries) \in Nat /\ capture.afterLimit \in Nat /\ capture.upstreamFailed \in Nat
        /\ faults.timeouts \in Nat /\ MaxEntries \in Nat /\ Cardinality(Clients) \in Nat
    BY CorpusNumbers, ExchangeSets DEF CorpusInv
  <1>5. AbandonedOK'
    <2>1. Cardinality(Abandoned') <= Cardinality(Abandoned) /\ Cardinality(Abandoned') \in Nat
      BY <1>3, <1>4, FS_Subset, FS_CardinalityType
    <2> QED BY <1>1, <1>4, <2>1 DEF CorpusInv, AbandonedOK
  <1>6. CASE y.at = "answered"
    <2>1. Answered' = Answered \cup {e} /\ e \notin Answered
      BY <1>1, <1>2, <1>6 DEF Answered, Open
    <2>2. Appending' = Appending
      BY <1>1, <1>2, <1>6 DEF Appending
    <2>3. Cardinality(Answered') = Cardinality(Answered) + 1
      BY <1>4, <2>1, OneMore
    <2>4. capture'.afterLimit = capture.afterLimit + 1
      BY <1>1, <1>6
    <2>5. CountedOK'
      <3>1. capture'.entries = capture.entries /\ capture'.upstreamFailed = capture.upstreamFailed
        BY <1>1
      <3>2. Len(capture.entries) + capture.afterLimit + capture.upstreamFailed = Cardinality(Answered)
        BY DEF CorpusInv, CountedOK
      <3>3. Len(capture.entries) + (capture.afterLimit + 1) + capture.upstreamFailed = Cardinality(Answered) + 1
        <4>1. /\ Len(capture.entries) \in Nat /\ capture.afterLimit \in Nat /\ capture.upstreamFailed \in Nat
              /\ Cardinality(Answered) \in Nat
          BY <1>4
        <4> HIDE DEF x, y
        <4> QED BY <3>2, <4>1, OneMoreInTheMiddle
      <3> QED BY <2>3, <2>4, <3>1, <3>3 DEF CountedOK
    <2>6. AppendingOK'
      BY <1>1, <2>2 DEF CorpusInv, AppendingOK
    <2> QED BY <1>1, <1>5, <2>5, <2>6 DEF CorpusInv
  <1>7. CASE y.at = "append"
    <2>1. Answered' = Answered /\ Appending' \subseteq Open
      BY <1>1, <1>2, <1>7 DEF Answered, Appending, Open
    <2>2. capture'.afterLimit = capture.afterLimit /\ Len(capture.entries) < MaxEntries
      BY <1>1, <1>7
    <2>3. CountedOK'
      BY <1>1, <2>1, <2>2 DEF CorpusInv, CountedOK
    <2>4. Cardinality(Appending') <= Cardinality(Open) /\ Cardinality(Appending') \in Nat
      BY <1>4, <2>1, FS_Subset, FS_CardinalityType
    <2>5. Cardinality(Open) <= Cardinality(Clients) + Cardinality(Abandoned)
      BY OpenIsBounded DEF CorpusInv
    <2>6. Cardinality(Abandoned) <= faults.timeouts
      BY DEF CorpusInv, AbandonedOK
    <2>7. Len(capture.entries) + Cardinality(Appending') < MaxEntries + Cardinality(Clients) + faults.timeouts
      BY <1>4, <2>2, <2>4, <2>5, <2>6
    <2>8. AppendingOK'
      BY <1>1, <2>7 DEF AppendingOK
    <2> QED BY <1>1, <1>5, <2>3, <2>8 DEF CorpusInv
  <1> QED BY <1>1, <1>6, <1>7

LEMMA CorpusAppend ==
  ASSUME CorpusInv, NEW e \in DOMAIN exchanges, AppendEntry(e)
  PROVE  CorpusInv'
  <1> DEFINE x == exchanges[e]
             y == exchanges'[e]
  <1>1. /\ TypeOK' /\ UNCHANGED <<runs, faults>> /\ Moved(e, y) /\ x.at = "append" /\ y.at = "answered"
        /\ Len(capture'.entries) = Len(capture.entries) + 1
        /\ capture'.upstreamFailed = capture.upstreamFailed /\ capture'.afterLimit = capture.afterLimit
    BY AppendedIs DEF CorpusInv
  <1>2. /\ DOMAIN exchanges' = DOMAIN exchanges /\ y.client = x.client
        /\ \A i \in DOMAIN exchanges : i # e => exchanges'[i] = exchanges[i]
    BY <1>1 DEF Moved
  <1>3. Answered' = Answered \cup {e} /\ e \notin Answered
    BY <1>1, <1>2 DEF Answered, Open
  <1>4. Appending' = Appending \ {e} /\ e \in Appending
    BY <1>1, <1>2 DEF Appending
  <1>5. Abandoned' \subseteq Abandoned
    <2>1. \A i \in Open' : i \in Open /\ exchanges'[i].client = exchanges[i].client
      BY <1>1, <1>2 DEF Open
    <2> QED BY <1>1, <2>1 DEF Abandoned
  <1>6. /\ IsFiniteSet(Answered) /\ IsFiniteSet(Appending) /\ IsFiniteSet(Abandoned)
        /\ Cardinality(Answered) \in Nat /\ Cardinality(Appending) \in Nat /\ Cardinality(Abandoned) \in Nat
        /\ Len(capture.entries) \in Nat /\ capture.afterLimit \in Nat /\ capture.upstreamFailed \in Nat
        /\ faults.timeouts \in Nat
    BY CorpusNumbers DEF CorpusInv
  <1>7. AbandonedOK'
    <2>1. Cardinality(Abandoned') <= Cardinality(Abandoned) /\ Cardinality(Abandoned') \in Nat
      BY <1>5, <1>6, FS_Subset, FS_CardinalityType
    <2> QED BY <1>1, <1>6, <2>1 DEF CorpusInv, AbandonedOK
  <1>8. Cardinality(Answered') = Cardinality(Answered) + 1
    BY <1>3, <1>6, OneMore
  <1>9. CountedOK'
    BY <1>1, <1>6, <1>8 DEF CorpusInv, CountedOK
  <1>10. Cardinality(Appending') = Cardinality(Appending) - 1
    BY <1>4, <1>6, OneLess
  <1>11. Len(capture'.entries) + Cardinality(Appending') = Len(capture.entries) + Cardinality(Appending)
    BY <1>1, <1>6, <1>10
  <1>12. AppendingOK'
    BY <1>1, <1>11 DEF CorpusInv, AppendingOK
  <1> QED BY <1>1, <1>7, <1>9, <1>12 DEF CorpusInv

LEMMA CorpusRestart == ASSUME CorpusInv, Restart PROVE CorpusInv'
  <1>1. /\ TypeOK' /\ runs' = runs /\ faults'.timeouts = faults.timeouts
        /\ DOMAIN exchanges' = DOMAIN exchanges
        /\ \A e \in DOMAIN exchanges :
             /\ exchanges'[e].client = exchanges[e].client
             /\ exchanges'[e].at = IF e \in InFlight THEN "answered" ELSE exchanges[e].at
        /\ capture'.entries = capture.entries /\ capture'.afterLimit = capture.afterLimit
        /\ capture'.upstreamFailed = capture.upstreamFailed + Cardinality(InFlight)
    BY RestartIs DEF CorpusInv
  <1>2. Answered' = Answered \cup InFlight /\ Answered \cap InFlight = {} /\ InFlight \subseteq DOMAIN exchanges
    BY <1>1 DEF Answered, Open, InFlight, AtMock
  <1>3. Appending' = Appending
    BY <1>1 DEF Appending, InFlight, AtMock
  <1>4. Abandoned' \subseteq Abandoned
    <2>1. \A i \in Open' : i \in Open /\ exchanges'[i].client = exchanges[i].client
      BY <1>1 DEF Open
    <2> QED BY <1>1, <2>1 DEF Abandoned
  <1>5. /\ IsFiniteSet(Answered) /\ IsFiniteSet(Abandoned) /\ IsFiniteSet(InFlight)
        /\ Cardinality(Answered) \in Nat /\ Cardinality(Abandoned) \in Nat /\ Cardinality(InFlight) \in Nat
        /\ Len(capture.entries) \in Nat /\ capture.afterLimit \in Nat /\ capture.upstreamFailed \in Nat
        /\ faults.timeouts \in Nat
    BY <1>2, CorpusNumbers, ExchangeSets DEF CorpusInv
  <1>6. AbandonedOK'
    <2>1. Cardinality(Abandoned') <= Cardinality(Abandoned) /\ Cardinality(Abandoned') \in Nat
      BY <1>4, <1>5, FS_Subset, FS_CardinalityType
    <2> QED BY <1>1, <1>5, <2>1 DEF CorpusInv, AbandonedOK
  <1>7. Cardinality(Answered') = Cardinality(Answered) + Cardinality(InFlight)
    BY <1>2, <1>5, ApartAddUp
  <1>8. CountedOK'
    BY <1>1, <1>5, <1>7 DEF CorpusInv, CountedOK
  <1>9. AppendingOK'
    BY <1>1, <1>3 DEF CorpusInv, AppendingOK
  <1> QED BY <1>1, <1>6, <1>8, <1>9 DEF CorpusInv

LEMMA CorpusStep == ASSUME CorpusInv, [Next]_vars PROVE CorpusInv'
  <1>1. TypeOK /\ TypeOK'
    BY TypeStep DEF CorpusInv
  <1>2. CASE UNCHANGED vars
    <2>1. Answered' = Answered /\ Appending' = Appending /\ Abandoned' = Abandoned
      BY <1>2 DEF vars, Answered, Appending, Abandoned, Open
    <2> QED BY <1>1, <1>2, <2>1, CorpusStay DEF vars
  <1>3. ASSUME NEW c \in Clients, Start(c) PROVE CorpusInv'
    <2>1. /\ UNCHANGED <<exchanges, capture, faults>> /\ runs'[c].waiting = runs[c].waiting
          /\ \A d \in Clients : d # c => runs'[d] = runs[d]
      BY <1>1, <1>3, StartIs DEF GoesOn
    <2>2. Open' = Open /\ Answered' = Answered /\ Appending' = Appending
      BY <2>1 DEF Open, Answered, Appending
    <2>3. \A d \in Clients : runs'[d].waiting = runs[d].waiting
      BY <2>1
    <2>4. \A i \in Open : exchanges[i].client \in Clients
      BY <1>1 DEF Open, TypeOK, ExchangesOK, IsExchange
    <2>5. Abandoned' \subseteq Abandoned
      BY <2>1, <2>2, <2>3, <2>4 DEF Abandoned
    <2> QED BY <1>1, <2>1, <2>2, <2>5, CorpusStay
  <1>4. ASSUME NEW c \in Clients, Send(c) PROVE CorpusInv'
    BY <1>4, CorpusSend
  <1>5. ASSUME NEW c \in Clients, Evaluate(c) PROVE CorpusInv'
    <2> DEFINE e == runs[c].waiting
    <2>1. /\ UNCHANGED <<capture, faults>> /\ e \in DOMAIN exchanges /\ exchanges[e].at = "answered"
          /\ runs'[c].waiting = 0 /\ Moved(e, exchanges'[e]) /\ exchanges'[e].at = exchanges[e].at
          /\ \A d \in Clients : d # c => runs'[d] = runs[d]
      BY <1>1, <1>5, EvaluateIs DEF GoesOn
    <2>2. e \notin Open
      BY <2>1 DEF Open
    <2>3. \A d \in Clients : runs'[d].waiting # runs[d].waiting =>
            runs'[d].waiting = 0 /\ runs[d].waiting \notin Open
      BY <2>1, <2>2
    <2> HIDE DEF e
    <2> QED BY <1>1, <2>1, <2>3, CorpusMove
  <1>6. ASSUME NEW c \in Clients, TimeOut(c) PROVE CorpusInv'
    BY <1>6, CorpusTimeOut
  <1>7. ASSUME NEW e \in DOMAIN exchanges, Admit(e) \/ Update(e) \/ Build(e) \/ Store(e) PROVE CorpusInv'
    <2>1. /\ UNCHANGED <<runs, capture, faults>> /\ Moved(e, exchanges'[e])
          /\ exchanges[e].at \in AtMock /\ exchanges'[e].at \in {"record", "update", "build", "store"}
      BY <1>1, <1>7, AdmitIs, UpdateIs, BuildIs, StoredIs DEF AtMock
    <2>2. {exchanges[e].at, exchanges'[e].at} \cap {"answered", "append"} = {}
      BY <2>1 DEF AtMock
    <2>3. \A d \in Clients : runs'[d].waiting = runs[d].waiting
      BY <2>1
    <2> QED BY <1>1, <2>1, <2>2, <2>3, CorpusMove
  <1>8. ASSUME NEW e \in DOMAIN exchanges, Record(e) PROVE CorpusInv'
    BY <1>8, CorpusRecord
  <1>9. ASSUME NEW e \in DOMAIN exchanges, AppendEntry(e) PROVE CorpusInv'
    BY <1>9, CorpusAppend
  <1>10. CASE Restart
    BY <1>10, CorpusRestart
  <1> QED BY <1>2, <1>3, <1>4, <1>5, <1>6, <1>7, <1>8, <1>9, <1>10 DEF Next

(* The corpus accounts for every exchange the proxy answered, and it is longer *)
(* than its limit by no more than the requests that were open beside the one   *)
(* that filled it: at most one for each client and one for each timeout.       *)
THEOREM CorpusAccounts == Spec => []CorpusAccountsForAll
  <1>1. Init => CorpusInv
    <2> SUFFICES ASSUME Init PROVE CorpusInv
      OBVIOUS
    <2>1. /\ exchanges = << >> /\ capture.entries = << >> /\ capture.afterLimit = 0
          /\ capture.upstreamFailed = 0 /\ faults.timeouts = 0
      BY DEF Init
    <2>2. Answered = {} /\ Appending = {} /\ Abandoned = {}
      BY <2>1 DEF Answered, Appending, Abandoned, Open
    <2>3. Cardinality(Answered) = 0 /\ Cardinality(Appending) = 0 /\ Cardinality(Abandoned) = 0
      BY <2>2, FS_EmptySet
    <2>4. TypeOK
      BY TypeBegins
    <2>5. MaxEntries \in Nat \ {0} /\ Cardinality(Clients) \in Nat /\ Len(capture.entries) = 0
      BY <2>1, <2>4, CorpusNumbers, ExchangeSets
    <2>6. CountedOK
      BY <2>1, <2>3, <2>5 DEF CountedOK
    <2>7. AbandonedOK
      BY <2>1, <2>3 DEF AbandonedOK
    <2>8. AppendingOK
      BY <2>1, <2>3, <2>5 DEF AppendingOK
    <2> QED BY <2>4, <2>6, <2>7, <2>8 DEF CorpusInv
  <1>2. CorpusInv /\ [Next]_vars => CorpusInv'
    BY CorpusStep
  <1>3. CorpusInv => CorpusAccountsForAll
    <2> SUFFICES ASSUME CorpusInv PROVE CorpusAccountsForAll
      OBVIOUS
    <2>1. /\ Len(capture.entries) \in Nat /\ Cardinality(Appending) \in Nat /\ MaxEntries \in Nat
          /\ Cardinality(Clients) \in Nat /\ faults.timeouts \in Nat
      BY CorpusNumbers, ExchangeSets DEF CorpusInv
    <2>2. Len(capture.entries) < MaxEntries + Cardinality(Clients) + faults.timeouts
      BY <2>1 DEF CorpusInv, AppendingOK
    <2> QED BY <2>2 DEF CorpusInv, CountedOK, Answered, CorpusAccountsForAll
  <1> QED BY <1>1, <1>2, <1>3, PTL DEF Spec

-------------------------------------------------------------------------------
(* No placeholder is sent. *)

\* No text of a name is a number's.
NumbersArePlain == \A n \in Nat : ToString(n) \notin Placeholders

LEMMA Least == ASSUME NEW S \in SUBSET Nat, S # {} PROVE \E i \in S : \A j \in S : i <= j
  <1> DEFINE R == {ss \in Nat \X Nat : ss[1] < ss[2]}
  <1>1. IsWellFoundedOn(R, Nat)
    BY NatLessThanWellFounded DEF OpToRel
  <1>2. \E x \in S : \A y \in S : ~ (<<y, x>> \in R)
    <2> HIDE DEF R
    <2> QED BY <1>1, WFMin
  <1>3. PICK x \in S : \A y \in S : ~ (<<y, x>> \in R)
    BY <1>2
  <1>4. ASSUME NEW y \in S PROVE x <= y
    <2>1. <<y, x>> \in Nat \X Nat /\ <<y, x>>[1] = y /\ <<y, x>>[2] = x
      OBVIOUS
    <2>2. ~ (y < x)
      BY <1>3, <2>1
    <2> QED BY <2>2
  <1> QED BY <1>4

\* The operation found for a request is one of the document's.
LEMMA OperationIs ==
  ASSUME NEW method, NEW path, OperationFor(method, path) # 0
  PROVE  OperationFor(method, path) \in DOMAIN Operations
  <1> DEFINE fits == {i \in DOMAIN Operations : /\ Operations[i].method = method
                                                /\ MatchesTemplate(Operations[i].path, path)}
             same == {i \in fits : Operations[i].path = path}
             first(s) == CHOOSE i \in s : \A j \in s : i <= j
  <1>1. OperationFor(method, path) = IF same # {} THEN first(same) ELSE IF fits # {} THEN first(fits) ELSE 0
    BY DEF OperationFor
  <1>2. DOMAIN Operations = 1..Len(Operations) /\ Len(Operations) \in Nat
    BY WorkflowAssumption
  <1>3. DOMAIN Operations \subseteq Nat
    BY <1>2
  <1>4. ASSUME NEW s \in SUBSET (DOMAIN Operations), s # {} PROVE first(s) \in s
    <2>1. \E i \in s : \A j \in s : i <= j
      BY <1>3, <1>4, Least
    <2> QED BY <2>1
  <1>5. same \in SUBSET (DOMAIN Operations) /\ fits \in SUBSET (DOMAIN Operations)
    OBVIOUS
  <1> HIDE DEF fits, same, first
  <1> QED BY <1>1, <1>4, <1>5

LEMMA SentPlain ==
  ASSUME NEW f, NEW known, VariablesIn(f) \subseteq DOMAIN known, VariablesIn(known) = {}
  PROVE  VariablesIn(DeepSubstitute(f, known)) = {}
  <1>1. ASSUME NEW i \in DOMAIN f PROVE Substitute(f[i], known) \notin Placeholders
    <2>1. CASE f[i] \in DOMAIN known
      BY <2>1 DEF Substitute, VariablesIn, Range
    <2>2. CASE f[i] \notin DOMAIN known
      BY <2>2 DEF Substitute, VariablesIn, Range
    <2> QED BY <2>1, <2>2
  <1> QED BY <1>1 DEF DeepSubstitute, VariablesIn, Range

LEMMA MergePlain ==
  ASSUME NEW f, NEW g, VariablesIn(f) = {}, VariablesIn(g) = {}
  PROVE  VariablesIn(Merge(f, g)) = {} /\ DOMAIN Merge(f, g) = DOMAIN f \cup DOMAIN g
  <1>1. DOMAIN Merge(f, g) = DOMAIN f \cup DOMAIN g
    BY DEF Merge
  <1>2. ASSUME NEW i \in DOMAIN f \cup DOMAIN g PROVE Merge(f, g)[i] \notin Placeholders
    BY DEF Merge, VariablesIn, Range
  <1> QED BY <1>1, <1>2 DEF VariablesIn, Range

LEMMA OnePlain == ASSUME NEW v, v \notin Placeholders PROVE VariablesIn([id |-> v]) = {}
  BY DEF VariablesIn, Range

LEMMA NothingPlain == VariablesIn(<< >>) = {}
  BY DEF VariablesIn, Range

LEMMA ExtractedPlain ==
  ASSUME NEW step, NEW answer, VariablesIn(answer) = {}
  PROVE  VariablesIn(Extracted(step, answer)) = {}
  <1>1. \A v \in DOMAIN Extracted(step, answer) :
          /\ step.extract[v] \in DOMAIN answer
          /\ Extracted(step, answer)[v] = answer[step.extract[v]]
    BY DEF Extracted
  <1> QED BY <1>1 DEF VariablesIn, Range

MockPlain(m) == \A at \in DOMAIN m.store : VariablesIn(m.store[at]) = {} /\ at[2] \notin Placeholders

LEMMA DeletedPlain ==
  ASSUME NEW m, DOMAIN m = DOMAIN FreshMock, MockPlain(m), NEW method, NEW op, NEW path
  PROVE  MockPlain(Deleted(m, method, op, path))
  <1> DEFINE at == Address(path)
             n == Deleted(m, method, op, path)
  <1>1. CASE method = "DELETE" /\ Templated(op)
    <2>1. n = [m EXCEPT !.store = Without(m.store, at), !.deleted = @ \cup {at}]
      BY <1>1 DEF Deleted
    <2>2. n.store = Without(m.store, at)
      BY <2>1 DEF FreshMock
    <2> HIDE DEF n, at
    <2>3. MockPlain(n)
      BY <2>2 DEF MockPlain, Without
    <2> QED BY <2>3 DEF n
  <1>2. CASE ~ (method = "DELETE" /\ Templated(op))
    BY <1>2 DEF Deleted
  <1> QED BY <1>1, <1>2

LEMMA UpdatedPlain ==
  ASSUME NEW m, MockPlain(m), NEW method, NEW op, NEW path, NEW body, VariablesIn(body) = {},
         Updates(m, method, op, path)
  PROVE  VariablesIn(Updated(m, method, path, body)) = {} /\ Address(path)[2] \notin Placeholders
  <1> DEFINE at == Address(path)
             base == IF method = "PATCH" THEN m.store[at] ELSE << >>
  <1>1. at \in DOMAIN m.store
    BY DEF Updates
  <1>2. VariablesIn(base) = {} /\ at[2] \notin Placeholders
    BY <1>1, NothingPlain DEF MockPlain
  <1>3. VariablesIn([id |-> at[2]]) = {}
    BY <1>2, OnePlain
  <1>4. Updated(m, method, path, body) = Merge(Merge(base, body), [id |-> at[2]])
    BY DEF Updated
  <1> HIDE DEF base, at
  <1>5. VariablesIn(Merge(base, body)) = {}
    BY <1>2, MergePlain
  <1> QED BY <1>2, <1>3, <1>4, <1>5, MergePlain DEF at

LEMMA WriteBackPlain ==
  ASSUME NEW m, DOMAIN m = DOMAIN FreshMock, MockPlain(m), NEW path, NEW item,
         VariablesIn(item) = {}, Address(path)[2] \notin Placeholders
  PROVE  MockPlain(WriteBack(m, path, item))
  <1> DEFINE at == Address(path)
             n == WriteBack(m, path, item)
  <1>1. n.store = Merge(m.store, [k \in {at} |-> item])
    BY DEF WriteBack, FreshMock
  <1> HIDE DEF n, at
  <1>2. /\ DOMAIN n.store = DOMAIN m.store \cup {at}
        /\ \A k \in DOMAIN n.store : n.store[k] = IF k = at THEN item ELSE m.store[k]
    BY <1>1 DEF Merge
  <1>3. at[2] \notin Placeholders
    BY DEF at
  <1>4. MockPlain(n)
    BY <1>2, <1>3 DEF MockPlain
  <1> QED BY <1>4 DEF n

LEMMA StorePlain ==
  ASSUME NEW m, DOMAIN m = DOMAIN FreshMock, MockPlain(m), NEW op, VariablesIn(Generated(op)) = {},
         NEW path, NEW body, VariablesIn(body) = {}, NEW id, id \notin Placeholders
  PROVE  MockPlain(StoreNew(m, op, path, body, id)) /\ VariablesIn(NewItem(op, body, id)) = {}
  <1> DEFINE at == <<path[1], id>>
             n == StoreNew(m, op, path, body, id)
             item == NewItem(op, body, id)
  <1>1. VariablesIn(item) = {}
    <2>1. VariablesIn([id |-> id]) = {}
      BY OnePlain
    <2>2. VariablesIn(Merge([id |-> id], Generated(op))) = {}
      BY <2>1, MergePlain
    <2>3. VariablesIn(Merge(Merge(Generated(op), body), [id |-> id])) = {}
      <3>1. VariablesIn(Merge(Generated(op), body)) = {}
        BY MergePlain
      <3> QED BY <2>1, <3>1, MergePlain
    <2> QED BY <2>2, <2>3 DEF NewItem
  <1>2. n.store = Merge(m.store, [k \in {at} |-> item])
    BY DEF StoreNew, FreshMock
  <1>3. at[2] = id
    OBVIOUS
  <1> HIDE DEF n, item, at
  <1>4. /\ DOMAIN n.store = DOMAIN m.store \cup {at}
        /\ \A k \in DOMAIN n.store : n.store[k] = IF k = at THEN item ELSE m.store[k]
    BY <1>2 DEF Merge
  <1>5. MockPlain(n)
    BY <1>1, <1>3, <1>4 DEF MockPlain
  <1> QED BY <1>1, <1>5 DEF n, item

-------------------------------------------------------------------------------

\* What an exchange carries names no variable, and its operation is there.
ExchangePlain(x) ==
  /\ VariablesIn(x.body) = {} /\ VariablesIn(x.answer) = {}
  /\ x.phase = "running" => VariablesIn(x.path) = {}
  /\ x.at = "store" => x.id \notin Placeholders
  /\ x.at = "update" => Address(x.path)[2] \notin Placeholders
  /\ x.at \in {"update", "build", "store"} => OperationFor(x.method, x.path) # 0

\* A run knows its inputs and, at a step, what the steps before it extract.
RunKnows(r) ==
  /\ VariablesIn(r.vars) = {} /\ DOMAIN r.inputs \subseteq DOMAIN r.vars
  /\ \A s \in Range(r.w.cleanup) : VariablesIn(s.body) \subseteq r.w.inputs
  /\ r.phase = "new" => r.pc = 1
  /\ HasStep(r) => r.w.inputs \subseteq DOMAIN r.inputs
  /\ r.phase = "running" =>
       /\ MissingVariables([r.w EXCEPT !.inputs = @ \cup DOMAIN r.inputs]) = {}
       /\ \A j \in 1..(r.pc - 1) : DOMAIN r.w.steps[j].extract \subseteq DOMAIN r.vars

ExchangesPlain == \A e \in DOMAIN exchanges : ExchangePlain(exchanges[e])
RunsKnow == \A c \in Clients : RunKnows(runs[c])

PlainInv == TypeOK /\ ExchangesPlain /\ MockPlain(mock) /\ RunsKnow

\* A step that is sent uses nothing the run does not know.
LEMMA StepIsKnown ==
  ASSUME NEW r, IsRun(r), RunKnows(r), HasStep(r)
  PROVE  /\ VariablesIn(StepOf(r).body) \subseteq DOMAIN r.vars
         /\ r.phase = "running" => VariablesIn(StepOf(r).path) \subseteq DOMAIN r.vars
  <1>1. r.w.inputs \subseteq DOMAIN r.vars /\ DOMAIN r.inputs \subseteq DOMAIN r.vars
    BY DEF RunKnows
  <1>2. r.pc \in Nat \ {0} /\ r.pc <= Len(Current(r)) /\ IsManifest(r.w)
    BY DEF IsRun
  <1>3. CASE r.phase = "cleanup"
    <2>1. StepOf(r) = r.w.cleanup[r.pc] /\ r.pc \in DOMAIN r.w.cleanup
      BY <1>2, <1>3 DEF StepOf, Current, IsManifest
    <2>2. StepOf(r) \in Range(r.w.cleanup)
      BY <2>1 DEF Range
    <2> QED BY <1>1, <1>3, <2>2 DEF RunKnows
  <1>4. CASE r.phase = "running"
    <2> DEFINE w == [r.w EXCEPT !.inputs = @ \cup DOMAIN r.inputs]
    <2>1. w.steps = r.w.steps /\ w.inputs = r.w.inputs \cup DOMAIN r.inputs
      BY <1>2 DEF IsManifest
    <2>2. MissingVariables(w) = {}
      BY <1>4 DEF RunKnows
    <2>3. StepOf(r) = r.w.steps[r.pc] /\ r.pc \in DOMAIN r.w.steps
      BY <1>2, <1>4 DEF StepOf, Current, IsManifest
    <2> HIDE DEF w
    <2>4. Used(StepOf(r)) \subseteq Available(w, r.pc)
      BY <2>1, <2>2, <2>3 DEF MissingVariables
    <2>5. Available(w, r.pc) \subseteq DOMAIN r.vars
      <3>1. \A j \in 1..(r.pc - 1) : DOMAIN r.w.steps[j].extract \subseteq DOMAIN r.vars
        BY <1>4 DEF RunKnows
      <3> QED BY <1>1, <2>1, <3>1 DEF Available
    <2> QED BY <2>4, <2>5 DEF Used
  <1> QED BY <1>3, <1>4 DEF HasStep

\* A run that goes on with the variables it has, or starts.
LEMMA KnowsStill ==
  ASSUME NEW r, RunKnows(r), NEW s, s.w = r.w, s.inputs = r.inputs, s.vars = r.vars,
         s.phase # "new", HasStep(s) => HasStep(r),
         s.phase = "running" => r.phase = "running" /\ s.pc = r.pc
  PROVE  RunKnows(s)
  BY DEF RunKnows

\* One run changes, and what the exchanges carry stays.
LEMMA RunMoves ==
  ASSUME PlainInv, TypeOK', NEW c \in Clients, RunKnows(runs'[c]),
         \A d \in Clients : d # c => runs'[d] = runs[d],
         ExchangesPlain', mock' = mock
  PROVE  PlainInv'
  <1>1. \A d \in Clients : RunKnows(runs'[d])
    BY DEF PlainInv, RunsKnow
  <1>2. RunsKnow'
    BY <1>1 DEF RunsKnow
  <1>3. MockPlain(mock')
    BY DEF PlainInv
  <1> QED BY <1>2, <1>3 DEF PlainInv

LEMMA PlainStart ==
  ASSUME PlainInv, NEW c \in Clients, Start(c)
  PROVE  PlainInv'
  <1> DEFINE r == runs[c]
             s == runs'[c]
  <1>1. /\ TypeOK' /\ UNCHANGED <<exchanges, mock>> /\ s.w = r.w /\ s.inputs = r.inputs /\ s.vars = r.vars
        /\ r.phase = "new" /\ s.phase # "new"
        /\ HasStep(s) => Preflight(r.w, r.inputs) /\ MissingInputs(r.w, r.inputs) = {}
        /\ s.phase = "running" => s.pc = r.pc
        /\ \A d \in Clients : d # c => runs'[d] = runs[d]
    BY StartIs DEF PlainInv, GoesOn
  <1>2. RunKnows(r)
    BY DEF PlainInv, RunsKnow
  <1>3. HasStep(s) => r.w.inputs \subseteq DOMAIN r.inputs
    BY <1>1 DEF MissingInputs
  <1>4. s.phase = "running" => MissingVariables([r.w EXCEPT !.inputs = @ \cup DOMAIN r.inputs]) = {}
    BY <1>1 DEF Preflight, GraphIsSound, HasStep
  <1>5. s.phase = "running" => s.pc = 1
    BY <1>1, <1>2 DEF RunKnows
  <1>6. RunKnows(s)
    <2>1. s.phase = "running" => 1..(s.pc - 1) = {}
      BY <1>5
    <2>2. /\ VariablesIn(r.vars) = {} /\ DOMAIN r.inputs \subseteq DOMAIN r.vars
          /\ \A i \in Range(r.w.cleanup) : VariablesIn(i.body) \subseteq r.w.inputs
      BY <1>2 DEF RunKnows
    <2> HIDE DEF r, s
    <2> QED BY <1>1, <1>3, <1>4, <2>1, <2>2 DEF RunKnows
  <1>7. ExchangesPlain'
    BY <1>1 DEF PlainInv, ExchangesPlain
  <1> QED BY <1>1, <1>6, <1>7, RunMoves

LEMMA PlainSend ==
  ASSUME PlainInv, NEW c \in Clients, Send(c)
  PROVE  PlainInv'
  <1> DEFINE r == runs[c]
             s == runs'[c]
  <1>1. /\ TypeOK' /\ mock' = mock /\ HasStep(r) /\ s.w = r.w /\ s.inputs = r.inputs /\ s.vars = r.vars
        /\ s.phase # "new"
        /\ \A d \in Clients : d # c => runs'[d] = runs[d]
        /\ \/ UNCHANGED exchanges /\ s.phase # "running"
           \/ /\ \E x : Fresh(c, x) /\ exchanges' = Append(exchanges, x)
              /\ s.phase = r.phase /\ s.pc = r.pc
    BY SendIs DEF PlainInv, GoesOn
  <1>2. RunKnows(r) /\ IsRun(r)
    BY DEF PlainInv, RunsKnow, TypeOK, RunsOK
  <1>3. s.phase = "running" => r.phase = "running" /\ s.pc = r.pc
    BY <1>1
  <1>4. RunKnows(s)
    <2> HIDE DEF r, s
    <2> QED BY <1>1, <1>2, <1>3, KnowsStill
  <1>5. CASE UNCHANGED exchanges
    <2>1. ExchangesPlain'
      BY <1>5 DEF PlainInv, ExchangesPlain
    <2> QED BY <1>1, <1>4, <2>1, RunMoves
  <1>6. CASE \E x : Fresh(c, x) /\ exchanges' = Append(exchanges, x)
    <2>1. PICK x : Fresh(c, x) /\ exchanges' = Append(exchanges, x)
      BY <1>6
    <2>2. /\ x.phase = r.phase /\ x.path = DeepSubstitute(StepOf(r).path, r.vars)
          /\ x.body = DeepSubstitute(StepOf(r).body, r.vars) /\ x.at = "admit" /\ x.answer = << >>
      BY <2>1 DEF Fresh
    <2>3. VariablesIn(r.vars) = {}
      BY <1>2 DEF RunKnows
    <2>4. /\ VariablesIn(StepOf(r).body) \subseteq DOMAIN r.vars
          /\ r.phase = "running" => VariablesIn(StepOf(r).path) \subseteq DOMAIN r.vars
      BY <1>1, <1>2, StepIsKnown
    <2>5. VariablesIn(x.body) = {} /\ (x.phase = "running" => VariablesIn(x.path) = {})
      <3> HIDE DEF r
      <3>1. VariablesIn(x.body) = {}
        <4>1. VariablesIn(DeepSubstitute(StepOf(r).body, r.vars)) = {}
          BY <2>3, <2>4, SentPlain
        <4> QED BY <2>2, <4>1
      <3>2. ASSUME x.phase = "running" PROVE VariablesIn(x.path) = {}
        <4>1. VariablesIn(StepOf(r).path) \subseteq DOMAIN r.vars
          BY <2>2, <2>4, <3>2
        <4>2. VariablesIn(DeepSubstitute(StepOf(r).path, r.vars)) = {}
          BY <2>3, <4>1, SentPlain
        <4> QED BY <2>2, <4>2
      <3> QED BY <3>1, <3>2
    <2>6. ExchangePlain(x)
      BY <2>2, <2>5, NothingPlain DEF ExchangePlain
    <2>7. /\ DOMAIN exchanges = 1..Len(exchanges) /\ Len(exchanges) \in Nat
          /\ DOMAIN exchanges' = 1..(Len(exchanges) + 1) /\ exchanges'[Len(exchanges) + 1] = x
          /\ \A i \in DOMAIN exchanges : exchanges'[i] = exchanges[i]
      BY <2>1, SentIs DEF Fresh, PlainInv, TypeOK
    <2>8. ASSUME NEW i \in DOMAIN exchanges' PROVE ExchangePlain(exchanges'[i])
      <3>1. CASE i = Len(exchanges) + 1
        BY <2>6, <2>7, <3>1
      <3>2. CASE i # Len(exchanges) + 1
        <4>1. i \in DOMAIN exchanges /\ exchanges'[i] = exchanges[i]
          BY <2>7, <3>2
        <4> QED BY <4>1 DEF PlainInv, ExchangesPlain
      <3> QED BY <3>1, <3>2
    <2>9. ExchangesPlain'
      BY <2>8 DEF ExchangesPlain
    <2> QED BY <1>1, <1>4, <2>9, RunMoves
  <1> QED BY <1>1, <1>5, <1>6

\* One exchange moves on and carries what it did, or an answer that is plain.
LEMMA PlainMoves ==
  ASSUME PlainInv, NEW e \in DOMAIN exchanges, Moved(e, exchanges'[e]),
         VariablesIn(exchanges'[e].answer) = {},
         exchanges'[e].at = "store" => exchanges'[e].id \notin Placeholders,
         exchanges'[e].at = "update" => Address(exchanges[e].path)[2] \notin Placeholders,
         exchanges'[e].at \in {"update", "build", "store"} => OperationFor(exchanges[e].method, exchanges[e].path) # 0
  PROVE  ExchangesPlain'
  <1>1. /\ DOMAIN exchanges' = DOMAIN exchanges
        /\ \A i \in DOMAIN exchanges : i # e => exchanges'[i] = exchanges[i]
        /\ exchanges'[e].phase = exchanges[e].phase /\ exchanges'[e].method = exchanges[e].method
        /\ exchanges'[e].path = exchanges[e].path /\ exchanges'[e].body = exchanges[e].body
    BY DEF Moved
  <1>2. \A i \in DOMAIN exchanges : ExchangePlain(exchanges[i])
    BY DEF PlainInv, ExchangesPlain
  <1>3. ExchangePlain(exchanges'[e])
    BY <1>1, <1>2 DEF ExchangePlain
  <1>4. \A i \in DOMAIN exchanges' : ExchangePlain(exchanges'[i])
    BY <1>1, <1>2, <1>3
  <1> QED BY <1>4 DEF ExchangesPlain

LEMMA PlainEvaluate ==
  ASSUME PlainInv, NEW c \in Clients, Evaluate(c)
  PROVE  PlainInv'
  <1> DEFINE r == runs[c]
             s == runs'[c]
             e == r.waiting
             x == exchanges[e]
             new == Extracted(StepOf(r), x.answer)
  <1>1. /\ TypeOK' /\ mock' = mock /\ HasStep(r) /\ s.w = r.w /\ s.inputs = r.inputs
        /\ \A d \in Clients : d # c => runs'[d] = runs[d]
        /\ e \in DOMAIN exchanges /\ x.at = "answered" /\ Moved(e, exchanges'[e])
        /\ exchanges'[e].at = x.at /\ exchanges'[e].answer = x.answer
        /\ s.vars = IF r.phase = "running" THEN Merge(r.vars, new) ELSE r.vars
        /\ s.phase # "new"
        /\ s.phase = "running" => /\ r.phase = "running" /\ s.pc = r.pc + 1
                                  /\ DOMAIN new = DOMAIN StepOf(r).extract
    BY EvaluateIs DEF PlainInv, GoesOn
  <1>2. RunKnows(r) /\ IsRun(r)
    BY DEF PlainInv, RunsKnow, TypeOK, RunsOK
  <1>3. VariablesIn(x.answer) = {}
    BY <1>1 DEF PlainInv, ExchangesPlain, ExchangePlain
  <1>4. VariablesIn(r.vars) = {} /\ VariablesIn(new) = {}
    BY <1>2, <1>3, ExtractedPlain DEF RunKnows
  <1>5. VariablesIn(Merge(r.vars, new)) = {} /\ DOMAIN Merge(r.vars, new) = DOMAIN r.vars \cup DOMAIN new
    BY <1>4, MergePlain
  <1>6. VariablesIn(s.vars) = {} /\ DOMAIN r.vars \subseteq DOMAIN s.vars
        /\ (r.phase = "running" => DOMAIN new \subseteq DOMAIN s.vars)
    BY <1>1, <1>4, <1>5
  <1>7. s.phase = "running" => \A j \in 1..(s.pc - 1) : DOMAIN r.w.steps[j].extract \subseteq DOMAIN s.vars
    <2> SUFFICES ASSUME s.phase = "running", NEW j \in 1..(s.pc - 1)
                 PROVE  DOMAIN r.w.steps[j].extract \subseteq DOMAIN s.vars
      OBVIOUS
    <2>1. r.phase = "running" /\ s.pc = r.pc + 1 /\ r.pc \in Nat
      BY <1>1, <1>2 DEF IsRun
    <2>2. CASE j = r.pc
      <3>1. StepOf(r) = r.w.steps[j] /\ DOMAIN new = DOMAIN StepOf(r).extract
        BY <1>1, <2>1, <2>2 DEF StepOf, Current
      <3> QED BY <1>6, <2>1, <3>1
    <2>3. CASE j # r.pc
      <3>1. j \in 1..(r.pc - 1)
        BY <2>1, <2>3
      <3> QED BY <1>2, <1>6, <2>1, <3>1 DEF RunKnows
    <2> QED BY <2>2, <2>3
  <1>8. RunKnows(s)
    <2> HIDE DEF new
    <2> QED BY <1>1, <1>2, <1>6, <1>7 DEF RunKnows
  <1>9. ExchangesPlain'
    <2>1. VariablesIn(exchanges'[e].answer) = {} /\ exchanges'[e].at = "answered"
      BY <1>1, <1>3
    <2> HIDE DEF e
    <2> QED BY <1>1, <2>1, PlainMoves
  <1> QED BY <1>1, <1>8, <1>9, RunMoves

LEMMA PlainTimeOut ==
  ASSUME PlainInv, NEW c \in Clients, TimeOut(c)
  PROVE  PlainInv'
  <1> DEFINE r == runs[c]
             s == runs'[c]
  <1>1. /\ TypeOK' /\ UNCHANGED <<exchanges, mock>> /\ s.w = r.w /\ s.inputs = r.inputs /\ s.vars = r.vars
        /\ s.phase \notin {"running", "new"} /\ HasStep(r)
        /\ \A d \in Clients : d # c => runs'[d] = runs[d]
    BY TimeOutIs DEF PlainInv, GoesOn
  <1>2. RunKnows(r)
    BY DEF PlainInv, RunsKnow
  <1>3. RunKnows(s)
    <2> HIDE DEF r, s
    <2> QED BY <1>1, <1>2, KnowsStill
  <1>4. ExchangesPlain'
    BY <1>1 DEF PlainInv, ExchangesPlain
  <1> QED BY <1>1, <1>3, <1>4, RunMoves

\* An exchange moves on in the mock or the proxy.
LEMMA MockMoves ==
  ASSUME PlainInv, TypeOK', runs' = runs, MockPlain(mock'), ExchangesPlain'
  PROVE  PlainInv'
  <1>1. RunsKnow'
    BY DEF PlainInv, RunsKnow
  <1> QED BY <1>1 DEF PlainInv, MockPlain

LEMMA PlainAdmit ==
  ASSUME PlainInv, NEW e \in DOMAIN exchanges, Admit(e)
  PROVE  PlainInv'
  <1> DEFINE x == exchanges[e]
             y == exchanges'[e]
             counted == [mock EXCEPT !.count = @ + 1]
             item == Updated(mock, x.method, x.path, x.body)
  <1>1. /\ TypeOK' /\ runs' = runs /\ Moved(e, y) /\ y.at \in {"record", "update", "build"}
        /\ y.at # "update" => y.answer = x.answer
        /\ \/ mock' = counted
           \/ mock' = Deleted(counted, x.method, OpOf(x), x.path)
        /\ y.at # "record" => OperationFor(x.method, x.path) # 0
        /\ y.at = "update" => Updates(mock, x.method, OpOf(x), x.path) /\ y.answer = item
    BY AdmitIs DEF PlainInv
  <1>2. VariablesIn(x.body) = {} /\ VariablesIn(x.answer) = {}
    BY DEF PlainInv, ExchangesPlain, ExchangePlain
  <1>3. DOMAIN counted = DOMAIN FreshMock /\ counted.store = mock.store
    BY DEF PlainInv, TypeOK, MockOK, FreshMock
  <1> HIDE DEF counted, x, y, item
  <1>4. MockPlain(counted)
    BY <1>3 DEF PlainInv, MockPlain
  <1>5. MockPlain(mock')
    BY <1>1, <1>3, <1>4, DeletedPlain
  <1>6. y.at = "update" => VariablesIn(item) = {} /\ Address(x.path)[2] \notin Placeholders
    BY <1>1, <1>2, UpdatedPlain DEF PlainInv, item
  <1>7. VariablesIn(y.answer) = {}
    BY <1>1, <1>2, <1>6
  <1>8. ExchangesPlain'
    BY <1>1, <1>6, <1>7, PlainMoves DEF x, y
  <1> QED BY <1>1, <1>5, <1>8, MockMoves

LEMMA PlainUpdate ==
  ASSUME PlainInv, NEW e \in DOMAIN exchanges, Update(e)
  PROVE  PlainInv'
  <1> DEFINE x == exchanges[e]
             y == exchanges'[e]
  <1>1. /\ TypeOK' /\ runs' = runs /\ Moved(e, y) /\ x.at = "update" /\ y.at = "build"
        /\ y.answer = << >> /\ mock' = WriteBack(mock, x.path, x.answer)
    BY UpdateIs DEF PlainInv
  <1>2. /\ VariablesIn(x.answer) = {} /\ Address(x.path)[2] \notin Placeholders
        /\ OperationFor(x.method, x.path) # 0
    BY <1>1 DEF PlainInv, ExchangesPlain, ExchangePlain
  <1>3. DOMAIN mock = DOMAIN FreshMock /\ MockPlain(mock)
    BY DEF PlainInv, TypeOK, MockOK, FreshMock
  <1>4. MockPlain(mock')
    BY <1>1, <1>2, <1>3, WriteBackPlain
  <1>5. ExchangesPlain'
    BY <1>1, <1>2, NothingPlain, PlainMoves
  <1> QED BY <1>1, <1>4, <1>5, MockMoves

LEMMA PlainBuild ==
  ASSUME PlainInv, PlainTexts, NumbersArePlain, NEW e \in DOMAIN exchanges, Build(e)
  PROVE  PlainInv'
  <1> DEFINE x == exchanges[e]
             y == exchanges'[e]
             op == OpOf(x)
  <1>1. /\ TypeOK' /\ runs' = runs /\ mock' = mock /\ Moved(e, y) /\ x.at = "build"
        /\ \/ y.at = "store" /\ y.id = ToString(mock.next) /\ y.answer = x.answer
           \/ y.at = "record" /\ y.answer = BuildBody(mock, x.method, op, x.path)
    BY BuildIs DEF PlainInv
  <1>2. VariablesIn(x.answer) = {} /\ OperationFor(x.method, x.path) # 0
    BY <1>1 DEF PlainInv, ExchangesPlain, ExchangePlain
  <1>3. VariablesIn(op.example) = {} /\ VariablesIn(Generated(op)) = {}
    <2>1. OperationFor(x.method, x.path) \in DOMAIN Operations
      BY <1>2, OperationIs
    <2>2. op \in Range(Operations)
      BY <2>1 DEF OpOf, Range
    <2> QED BY <2>2 DEF PlainTexts
  <1>4. VariablesIn(BuildBody(mock, x.method, op, x.path)) = {}
    <2>1. \A at \in DOMAIN mock.store : VariablesIn(mock.store[at]) = {}
      BY DEF PlainInv, MockPlain
    <2> HIDE DEF x, op
    <2> QED BY <1>3, <2>1, NothingPlain DEF BuildBody
  <1>5. mock.next \in Nat
    BY DEF PlainInv, TypeOK, MockOK
  <1>6. y.at = "store" => y.id \notin Placeholders
    BY <1>1, <1>5 DEF NumbersArePlain
  <1>7. VariablesIn(y.answer) = {}
    BY <1>1, <1>2, <1>4
  <1>8. ExchangesPlain'
    BY <1>1, <1>2, <1>6, <1>7, PlainMoves
  <1>9. MockPlain(mock')
    BY <1>1 DEF PlainInv
  <1> QED BY <1>1, <1>8, <1>9, MockMoves

LEMMA PlainStore ==
  ASSUME PlainInv, PlainTexts, NEW e \in DOMAIN exchanges, Store(e)
  PROVE  PlainInv'
  <1> DEFINE x == exchanges[e]
             y == exchanges'[e]
             op == OpOf(x)
  <1>1. /\ TypeOK' /\ runs' = runs /\ Moved(e, y) /\ x.at = "store" /\ y.at = "record"
        /\ y.answer = NewItem(op, x.body, x.id)
        /\ mock' = StoreNew(mock, op, x.path, x.body, x.id)
    BY StoredIs DEF PlainInv
  <1>2. /\ VariablesIn(x.body) = {} /\ x.id \notin Placeholders
        /\ OperationFor(x.method, x.path) # 0
    BY <1>1 DEF PlainInv, ExchangesPlain, ExchangePlain
  <1>3. VariablesIn(Generated(op)) = {}
    <2>1. OperationFor(x.method, x.path) \in DOMAIN Operations
      BY <1>2, OperationIs
    <2>2. op \in Range(Operations)
      BY <2>1 DEF OpOf, Range
    <2> QED BY <2>2 DEF PlainTexts
  <1>4. DOMAIN mock = DOMAIN FreshMock /\ MockPlain(mock)
    BY DEF PlainInv, TypeOK, MockOK, FreshMock
  <1>5. MockPlain(mock') /\ VariablesIn(y.answer) = {}
    <2> HIDE DEF x, op, y
    <2> QED BY <1>1, <1>2, <1>3, <1>4, StorePlain
  <1>6. ExchangesPlain'
    BY <1>1, <1>5, PlainMoves
  <1> QED BY <1>1, <1>5, <1>6, MockMoves

LEMMA PlainRecord ==
  ASSUME PlainInv, NEW e \in DOMAIN exchanges, Record(e) \/ AppendEntry(e)
  PROVE  PlainInv'
  <1>1. /\ TypeOK' /\ UNCHANGED <<runs, mock>> /\ Moved(e, exchanges'[e])
        /\ exchanges'[e].at \in {"append", "answered"} /\ exchanges'[e].answer = exchanges[e].answer
    BY RecordIs, AppendedIs DEF PlainInv
  <1>2. VariablesIn(exchanges[e].answer) = {}
    BY DEF PlainInv, ExchangesPlain, ExchangePlain
  <1>3. ExchangesPlain'
    BY <1>1, <1>2, PlainMoves
  <1>4. MockPlain(mock')
    BY <1>1 DEF PlainInv
  <1> QED BY <1>1, <1>3, <1>4, MockMoves

LEMMA PlainRestart == ASSUME PlainInv, Restart PROVE PlainInv'
  <1>1. /\ TypeOK' /\ runs' = runs /\ mock' = FreshMock
        /\ DOMAIN exchanges' = DOMAIN exchanges
        /\ \A e \in DOMAIN exchanges :
             /\ exchanges'[e].phase = exchanges[e].phase /\ exchanges'[e].method = exchanges[e].method
             /\ exchanges'[e].path = exchanges[e].path /\ exchanges'[e].body = exchanges[e].body
             /\ exchanges'[e].id = exchanges[e].id /\ exchanges'[e].answer = exchanges[e].answer
             /\ exchanges'[e].at = IF e \in InFlight THEN "answered" ELSE exchanges[e].at
    BY RestartIs DEF PlainInv
  <1>2. ASSUME NEW e \in DOMAIN exchanges PROVE ExchangePlain(exchanges'[e])
    <2>1. ExchangePlain(exchanges[e])
      BY DEF PlainInv, ExchangesPlain
    <2>2. exchanges'[e].at = "answered" \/ exchanges'[e].at = exchanges[e].at
      BY <1>1
    <2> QED BY <1>1, <2>1, <2>2 DEF ExchangePlain
  <1>3. ExchangesPlain'
    BY <1>1, <1>2 DEF ExchangesPlain
  <1>4. MockPlain(mock')
    BY <1>1 DEF MockPlain, FreshMock
  <1> QED BY <1>1, <1>3, <1>4, MockMoves

LEMMA PlainStep == ASSUME PlainInv, PlainTexts, NumbersArePlain, [Next]_vars PROVE PlainInv'
  <1>1. CASE UNCHANGED vars
    <2>1. TypeOK'
      BY <1>1, TypeStays DEF PlainInv
    <2>2. ExchangesPlain' /\ MockPlain(mock') /\ RunsKnow'
      BY <1>1 DEF vars, PlainInv, ExchangesPlain, RunsKnow
    <2> QED BY <2>1, <2>2 DEF PlainInv, MockPlain
  <1>2. ASSUME NEW c \in Clients, Start(c) \/ Send(c) \/ Evaluate(c) \/ TimeOut(c) PROVE PlainInv'
    BY <1>2, PlainStart, PlainSend, PlainEvaluate, PlainTimeOut
  <1>3. ASSUME NEW e \in DOMAIN exchanges, Admit(e) \/ Update(e) \/ Build(e) \/ Store(e) PROVE PlainInv'
    BY <1>3, PlainAdmit, PlainUpdate, PlainBuild, PlainStore
  <1>4. ASSUME NEW e \in DOMAIN exchanges, Record(e) \/ AppendEntry(e) PROVE PlainInv'
    BY <1>4, PlainRecord
  <1>5. CASE Restart
    BY <1>5, PlainRestart
  <1> QED BY <1>1, <1>2, <1>3, <1>4, <1>5 DEF Next

(* What the preflight checked as a graph, the engine keeps: an authored step   *)
(* never goes out with a placeholder in it, whatever other commands do to the  *)
(* mock, if the texts of the inputs, the examples and the generated values name *)
(* no variable and the bodies of a cleanup use no variable but the inputs.     *)
THEOREM NothingUnfilled ==
  ASSUME PlainTexts, NumbersArePlain
  PROVE  Spec => []NoPlaceholderIsSent
  <1>1. Init => PlainInv
    <2> SUFFICES ASSUME Init PROVE PlainInv
      OBVIOUS
    <2>1. TypeOK
      BY TypeBegins
    <2>2. exchanges = << >> /\ mock = FreshMock
      BY DEF Init
    <2>3. ExchangesPlain
      BY <2>2 DEF ExchangesPlain
    <2>4. MockPlain(mock)
      BY <2>2 DEF MockPlain, FreshMock
    <2>5. ASSUME NEW c \in Clients PROVE RunKnows(runs[c])
      <3>1. PICK job \in Jobs :
              /\ runs[c].w = job[c].w /\ runs[c].inputs = job[c].inputs /\ runs[c].vars = job[c].inputs
              /\ runs[c].phase = "new" /\ runs[c].pc = 1
        BY DEF Init
      <3>2. VariablesIn(job[c].inputs) = {}
            /\ \A s \in Range(job[c].w.cleanup) : VariablesIn(s.body) \subseteq job[c].w.inputs
        BY DEF PlainTexts
      <3> QED BY <3>1, <3>2 DEF RunKnows, HasStep
    <2>6. RunsKnow
      BY <2>5 DEF RunsKnow
    <2> QED BY <2>1, <2>3, <2>4, <2>6 DEF PlainInv
  <1>2. PlainInv /\ [Next]_vars => PlainInv'
    BY PlainStep
  <1>3. PlainInv => NoPlaceholderIsSent
    <2> SUFFICES ASSUME PlainInv, NEW e \in DOMAIN exchanges, exchanges[e].phase = "running"
                 PROVE  (Range(exchanges[e].path) \cup Range(exchanges[e].body)) \cap Placeholders = {}
      BY DEF NoPlaceholderIsSent
    <2>1. VariablesIn(exchanges[e].path) = {} /\ VariablesIn(exchanges[e].body) = {}
      BY DEF PlainInv, ExchangesPlain, ExchangePlain
    <2> QED BY <2>1 DEF VariablesIn
  <1> QED BY <1>1, <1>2, <1>3, PTL DEF Spec

-------------------------------------------------------------------------------
(* What a run leaves at the mock. *)

\* Where a run goes when it is done with a step.
GoesTo(r, s) ==
  /\ s.w = r.w /\ s.waiting = 0
  /\ r.phase = "running" => \/ s.phase = "running" \/ (s.phase = "cleanup" /\ s.pc = 1)
                            \/ s.phase = "done" /\ Len(r.w.cleanup) = 0
  /\ r.phase = "cleanup" => \/ s.phase = "cleanup" /\ s.pc = r.pc + 1
                            \/ s.phase = "done" /\ r.pc + 1 > Len(r.w.cleanup)

LEMMA SettleGoes ==
  ASSUME NEW r, IsManifest(r.w), DOMAIN r = RunFields, r.pc \in Nat
  PROVE  LET s == Settle(r)
         IN  /\ r.phase = "running" => \/ s.phase = "running" \/ (s.phase = "cleanup" /\ s.pc = 1)
                                       \/ s.phase = "done" /\ Len(r.w.cleanup) = 0
             /\ r.phase = "cleanup" => \/ s.phase = "cleanup" /\ s.pc = r.pc
                                       \/ s.phase = "done" /\ r.pc > Len(r.w.cleanup)
  <1> DEFINE a == [r EXCEPT !.phase = "cleanup", !.pc = 1]
             mid == IF r.phase = "running" /\ r.pc > Len(r.w.steps) THEN a ELSE r
             end == [mid EXCEPT !.phase = "done"]
  <1>1. Settle(r) = IF mid.phase = "cleanup" /\ mid.pc > Len(r.w.cleanup) THEN end ELSE mid
    BY DEF Settle, RunFields
  <1>2. Len(r.w.steps) \in Nat /\ Len(r.w.cleanup) \in Nat
    BY DEF IsManifest
  <1>3. a.phase = "cleanup" /\ a.pc = 1 /\ DOMAIN a = RunFields
    BY DEF RunFields
  <1>4. DOMAIN mid = RunFields
    <2> HIDE DEF a
    <2> QED BY <1>3
  <1>5. end.phase = "done"
    <2> HIDE DEF mid
    <2> QED BY <1>4 DEF RunFields
  <1> HIDE DEF a, end
  <1>6. CASE r.phase = "running" /\ r.pc > Len(r.w.steps)
    <2>1. mid = a
      BY <1>6
    <2> HIDE DEF mid
    <2>2. CASE 1 > Len(r.w.cleanup)
      <3>1. Len(r.w.cleanup) = 0
        BY <1>2, <2>2
      <3>2. Settle(r) = end
        BY <1>1, <1>3, <2>1, <2>2
      <3> QED BY <1>5, <1>6, <3>1, <3>2
    <2>3. CASE ~ (1 > Len(r.w.cleanup))
      <3>1. Settle(r) = a
        BY <1>1, <1>3, <2>1, <2>3
      <3> QED BY <1>3, <1>6, <3>1
    <2> QED BY <2>2, <2>3
  <1>7. CASE ~ (r.phase = "running" /\ r.pc > Len(r.w.steps))
    <2>1. mid = r
      BY <1>7
    <2> HIDE DEF mid
    <2> QED BY <1>1, <1>5, <2>1
  <1> QED BY <1>6, <1>7

LEMMA PassGoes ==
  ASSUME NEW r, IsRun(r)
  PROVE  GoesTo(r, Pass(r))
  <1> DEFINE s == [r EXCEPT !.pc = @ + 1, !.waiting = 0]
  <1>1. /\ DOMAIN s = RunFields /\ s.w = r.w /\ s.phase = r.phase /\ s.pc = r.pc + 1
    BY DEF IsRun, RunFields
  <1>2. Pass(r) = Settle(s)
    BY DEF Pass
  <1>3. IsManifest(s.w) /\ s.pc \in Nat
    BY <1>1 DEF IsRun
  <1> HIDE DEF s
  <1>4. /\ s.phase = "running" => \/ Settle(s).phase = "running" \/ (Settle(s).phase = "cleanup" /\ Settle(s).pc = 1)
                                  \/ Settle(s).phase = "done" /\ Len(s.w.cleanup) = 0
        /\ s.phase = "cleanup" => \/ Settle(s).phase = "cleanup" /\ Settle(s).pc = s.pc
                                  \/ Settle(s).phase = "done" /\ s.pc > Len(s.w.cleanup)
    BY <1>1, <1>3, SettleGoes
  <1>5. Pass(r).w = r.w /\ Pass(r).waiting = 0
    BY PassIs
  <1> QED BY <1>1, <1>2, <1>4, <1>5 DEF GoesTo

LEMMA LeaveGoes ==
  ASSUME NEW r, IsRun(r), HasStep(r), NEW status
  PROVE  GoesTo(r, Leave(r, status))
  <1>1. CASE r.phase = "cleanup"
    BY <1>1, PassGoes DEF Leave
  <1>2. CASE r.phase = "running"
    <2> DEFINE s == [r EXCEPT !.status = status, !.pc = Len(r.w.steps) + 1, !.waiting = 0]
    <2>1. /\ DOMAIN s = RunFields /\ s.w = r.w /\ s.phase = r.phase /\ s.pc = Len(r.w.steps) + 1
      BY DEF IsRun, RunFields
    <2>2. Leave(r, status) = Settle(s)
      BY <1>2 DEF Leave
    <2>3. IsManifest(s.w) /\ s.pc \in Nat
      BY <2>1 DEF IsRun, IsManifest
    <2> HIDE DEF s
    <2>4. \/ Settle(s).phase = "running" \/ (Settle(s).phase = "cleanup" /\ Settle(s).pc = 1)
          \/ Settle(s).phase = "done" /\ Len(s.w.cleanup) = 0
      BY <1>2, <2>1, <2>3, SettleGoes
    <2>5. Leave(r, status).w = r.w /\ Leave(r, status).waiting = 0
      BY LeaveIs
    <2> QED BY <1>2, <2>1, <2>2, <2>4, <2>5 DEF GoesTo
  <1> QED BY <1>1, <1>2 DEF HasStep

\* Exchange x is the one run r waits for: the request of its step, unread.
WaitsFor(r, x) ==
  /\ HasStep(r) /\ x.read = FALSE /\ x.phase = r.phase /\ x.method = StepOf(r).method
  /\ x.path = DeepSubstitute(StepOf(r).path, r.vars)
  /\ x.body = DeepSubstitute(StepOf(r).body, r.vars)
  /\ x.keeps = (DOMAIN StepOf(r).extract \cap Addressed(r.w) # {})

LEMMA SendGoes ==
  ASSUME TypeOK, NEW c \in Clients, Send(c)
  PROVE  LET r == runs[c]
             s == runs'[c]
         IN  \/ exchanges' = exchanges /\ StepOf(r).method \notin r.w.methods /\ GoesTo(r, s)
             \/ exchanges' = exchanges /\ s.phase = "raised"
             \/ /\ \E x : Fresh(c, x) /\ WaitsFor(r, x) /\ exchanges' = Append(exchanges, x)
                /\ s.waiting = Len(exchanges) + 1 /\ s.phase = r.phase /\ s.pc = r.pc
  <1> DEFINE r == runs[c]
             step == Current(r)[r.pc]
             body == DeepSubstitute(step.body, r.vars)
             raised == [r EXCEPT !.phase = "raised"]
             sent == [r EXCEPT !.waiting = Len(exchanges) + 1]
             x == [client |-> c, phase |-> r.phase, method |-> step.method,
                   path |-> DeepSubstitute(step.path, r.vars), body |-> body,
                   at |-> "admit", status |-> 0, answer |-> << >>, id |-> "",
                   epoch |-> faults.restarts, beside |-> Open, read |-> FALSE,
                   keeps |-> DOMAIN step.extract \cap Addressed(r.w) # {}]
  <1>1. /\ HasStep(r)
        /\ \/ /\ runs' = [runs EXCEPT ![c] = Leave(r, "fail")] /\ UNCHANGED exchanges
              /\ step.method \notin r.w.methods
           \/ runs' = [runs EXCEPT ![c] = raised] /\ UNCHANGED exchanges
           \/ exchanges' = Append(exchanges, x) /\ runs' = [runs EXCEPT ![c] = sent]
    BY DEF Send
  <1>2. IsRun(r) /\ DOMAIN runs = Clients /\ faults.restarts \in Nat
    BY DEF TypeOK, RunsOK, FaultsOK
  <1>3. ASSUME NEW n, runs' = [runs EXCEPT ![c] = n] PROVE runs'[c] = n
    BY <1>2, <1>3
  <1>4. CASE runs' = [runs EXCEPT ![c] = Leave(r, "fail")] /\ UNCHANGED exchanges /\ step.method \notin r.w.methods
    <2>1. runs'[c] = Leave(r, "fail")
      BY <1>3, <1>4
    <2> QED BY <1>1, <1>2, <1>4, <2>1, LeaveGoes DEF StepOf
  <1>5. CASE runs' = [runs EXCEPT ![c] = raised] /\ UNCHANGED exchanges
    <2>1. raised.phase = "raised"
      BY <1>2 DEF IsRun, RunFields
    <2>2. runs'[c] = raised
      BY <1>3, <1>5
    <2> HIDE DEF raised
    <2> QED BY <1>5, <2>1, <2>2
  <1>6. CASE exchanges' = Append(exchanges, x) /\ runs' = [runs EXCEPT ![c] = sent]
    <2>1. sent.waiting = Len(exchanges) + 1 /\ sent.phase = r.phase /\ sent.pc = r.pc
      BY <1>2 DEF IsRun, RunFields
    <2>2. runs'[c] = sent
      BY <1>3, <1>6
    <2>3. /\ DOMAIN x = ExchangeFields /\ x.client = c /\ x.phase = r.phase /\ x.method = step.method
          /\ x.path = DeepSubstitute(step.path, r.vars) /\ x.body = body
          /\ x.at = "admit" /\ x.answer = << >> /\ x.id = "" /\ x.epoch = faults.restarts /\ x.beside = Open
          /\ x.read = FALSE /\ x.keeps = (DOMAIN step.extract \cap Addressed(r.w) # {})
      BY DEF ExchangeFields
    <2> HIDE DEF x, sent
    <2>4. Fresh(c, x)
      BY <1>2, <2>3 DEF Fresh, StepOf, IsExchange, At, AtMock
    <2>5. WaitsFor(r, x)
      BY <1>1, <2>3 DEF WaitsFor, StepOf
    <2> QED BY <1>6, <2>1, <2>2, <2>4, <2>5
  <1> QED BY <1>1, <1>4, <1>5, <1>6

LEMMA EvaluateGoes ==
  ASSUME TypeOK, NEW c \in Clients, Evaluate(c)
  PROVE  LET r == runs[c]
             e == r.waiting
         IN  /\ GoesTo(r, runs'[c]) /\ e # 0
             /\ exchanges'[e].read = TRUE /\ exchanges'[e].keeps = exchanges[e].keeps
  <1> DEFINE r == runs[c]
             e == r.waiting
             x == exchanges[e]
             y == [x EXCEPT !.read = TRUE]
             told == [r EXCEPT !.vars = Merge(@, Extracted(StepOf(r), x.answer))]
             known == IF r.phase = "running" THEN told ELSE r
             next == IF r.phase = "running" /\ Violated(StepOf(r), x) THEN Leave(known, "fail")
                     ELSE Pass(known)
  <1>1. /\ HasStep(r) /\ e # 0 /\ runs' = [runs EXCEPT ![c] = next]
        /\ exchanges' = [exchanges EXCEPT ![e].read = TRUE]
    BY DEF Evaluate, StepOf
  <1>2. IsRun(r) /\ DOMAIN runs = Clients /\ e \in DOMAIN exchanges /\ IsExchange(x)
    BY EvaluateIs DEF TypeOK, RunsOK, ExchangesOK
  <1>3. exchanges'[e] = y
    BY <1>1, <1>2
  <1>4. y.read = TRUE /\ y.keeps = x.keeps
    BY <1>2 DEF IsExchange, ExchangeFields
  <1>5. IsRun(known) /\ HasStep(known) /\ known.w = r.w /\ known.phase = r.phase /\ known.pc = r.pc
    <2>1. /\ DOMAIN told = RunFields /\ told.w = r.w /\ told.phase = r.phase
          /\ told.pc = r.pc /\ told.waiting = r.waiting
      BY <1>2 DEF IsRun, RunFields
    <2> HIDE DEF told
    <2>2. IsRun(told)
      BY <1>2, <2>1 DEF IsRun, HasStep, Current
    <2> QED BY <1>1, <1>2, <2>1, <2>2 DEF HasStep
  <1> HIDE DEF known
  <1>6. GoesTo(known, next)
    BY <1>5, PassGoes, LeaveGoes
  <1>7. runs'[c] = next
    BY <1>1, <1>2
  <1> HIDE DEF next
  <1>8. GoesTo(r, next)
    BY <1>5, <1>6 DEF GoesTo
  <1> QED BY <1>1, <1>3, <1>4, <1>7, <1>8

LEMMA TimeOutGoes ==
  ASSUME TypeOK, NEW c \in Clients, TimeOut(c)
  PROVE  GoesTo(runs[c], runs'[c]) /\ runs[c].waiting # 0
  <1>1. /\ HasStep(runs[c]) /\ runs[c].waiting # 0 /\ runs' = [runs EXCEPT ![c] = Leave(runs[c], "error")]
    BY DEF TimeOut
  <1>2. IsRun(runs[c]) /\ runs'[c] = Leave(runs[c], "error")
    BY <1>1 DEF TypeOK, RunsOK
  <1> QED BY <1>1, <1>2, LeaveGoes

\* What the mock and the proxy do with an exchange is nothing to its reader.
LEMMA ReaderIsElsewhere ==
  ASSUME TypeOK, NEW e \in DOMAIN exchanges,
         Admit(e) \/ Update(e) \/ Build(e) \/ Store(e) \/ Record(e) \/ AppendEntry(e)
  PROVE  exchanges'[e].read = exchanges[e].read /\ exchanges'[e].keeps = exchanges[e].keeps
  <1> DEFINE x == exchanges[e]
  <1>1. DOMAIN x = ExchangeFields
    BY DEF TypeOK, ExchangesOK, IsExchange
  <1>2. ASSUME Admit(e) PROVE exchanges'[e].read = x.read /\ exchanges'[e].keeps = x.keeps
    <2> DEFINE refused == Refusal([mock EXCEPT !.count = @ + 1], x.method, x.path)
               no == [x EXCEPT !.at = "record", !.status = refused]
               up == [x EXCEPT !.at = "update", !.status = OpOf(x).status,
                               !.answer = Updated(mock, x.method, x.path, x.body)]
               yes == [x EXCEPT !.at = "build", !.status = OpOf(x).status]
    <2>1. exchanges'[e] \in {no, up, yes}
      BY <1>2 DEF Admit, Moves
    <2>2. \A z \in {no, up, yes} : z.read = x.read /\ z.keeps = x.keeps
      BY <1>1 DEF ExchangeFields
    <2> QED BY <2>1, <2>2
  <1>7. ASSUME Update(e) PROVE exchanges'[e].read = x.read /\ exchanges'[e].keeps = x.keeps
    <2> DEFINE y == [x EXCEPT !.at = "build", !.answer = << >>]
    <2>1. exchanges' = [exchanges EXCEPT ![e] = y]
      BY <1>7 DEF Update, Moves
    <2>2. exchanges'[e] = y
      BY <2>1
    <2> QED BY <1>1, <2>2 DEF ExchangeFields
  <1>3. ASSUME Build(e) PROVE exchanges'[e].read = x.read /\ exchanges'[e].keeps = x.keeps
    <2> DEFINE y == IF Creates(x.method, OpOf(x)) THEN [x EXCEPT !.at = "store", !.id = ToString(mock.next)]
                    ELSE [x EXCEPT !.at = "record", !.answer = BuildBody(mock, x.method, OpOf(x), x.path)]
    <2>1. exchanges' = [exchanges EXCEPT ![e] = y]
      BY <1>3 DEF Build, Moves
    <2>2. exchanges'[e] = y
      BY <2>1
    <2> QED BY <1>1, <2>2 DEF ExchangeFields
  <1>4. ASSUME Store(e) PROVE exchanges'[e].read = x.read /\ exchanges'[e].keeps = x.keeps
    <2> DEFINE y == [x EXCEPT !.at = "record", !.answer = NewItem(OpOf(x), x.body, x.id)]
    <2>1. exchanges' = [exchanges EXCEPT ![e] = y]
      BY <1>4 DEF Store, Moves
    <2>2. exchanges'[e] = y
      BY <2>1
    <2> QED BY <1>1, <2>2 DEF ExchangeFields
  <1>5. ASSUME NEW at, Moves(e, [x EXCEPT !.at = at])
        PROVE  exchanges'[e].read = x.read /\ exchanges'[e].keeps = x.keeps
    <2>1. exchanges'[e] = [x EXCEPT !.at = at]
      BY <1>5 DEF Moves
    <2> QED BY <1>1, <2>1 DEF ExchangeFields
  <1>6. ASSUME Record(e) \/ AppendEntry(e) PROVE exchanges'[e].read = x.read /\ exchanges'[e].keeps = x.keeps
    BY <1>5, <1>6 DEF Record, AppendEntry
  <1> QED BY <1>2, <1>3, <1>4, <1>6, <1>7

LEMMA RestartReader ==
  ASSUME TypeOK, Restart, NEW e \in DOMAIN exchanges
  PROVE  exchanges'[e].read = exchanges[e].read /\ exchanges'[e].keeps = exchanges[e].keeps
  <1> DEFINE x == exchanges[e]
             y == [x EXCEPT !.at = "answered", !.status = 502]
  <1>1. DOMAIN x = ExchangeFields
    BY DEF TypeOK, ExchangesOK, IsExchange
  <1>2. exchanges'[e] = y \/ exchanges'[e] = x
    BY DEF Restart
  <1>3. y.read = x.read /\ y.keeps = x.keeps
    BY <1>1 DEF ExchangeFields
  <1> QED BY <1>2, <1>3

-------------------------------------------------------------------------------

\* What an exchange is to the mock of its time and to its run.
ExchangeOK(x) ==
  /\ x.at \in AtMock => x.epoch = faults.restarts
  /\ x.at = "store" => x.method = "POST"
  /\ x.read => x.at = "answered"
  /\ x.keeps /\ x.method = "POST" => x.body # << >>
  /\ runs[x.client].phase # "new"
  /\ x.at = "update" => Address(x.path) \in DOMAIN mock.store \cup mock.deleted
EachOK == \A e \in DOMAIN exchanges : ExchangeOK(exchanges[e])

StoreOK == mock.count \in Nat

\* What a mock answers for, and what it has ever had.
StandingAt(m) == DOMAIN m.store \ m.deleted
SeenAt(m) == DOMAIN m.store \cup m.deleted

WaitOK ==
  \A c \in Clients : runs[c].waiting # 0 =>
    /\ runs[c].waiting \in DOMAIN exchanges /\ exchanges[runs[c].waiting].client = c
    /\ WaitsFor(runs[c], exchanges[runs[c].waiting])

AimOK == \A c \in Clients : CleanupAims(runs[c].w) /\ DOMAIN runs[c].vars \subseteq Placeholders

\* An exchange that stored a resource answers its id, if its run is to keep it.
Made(x) == x.method = "POST" /\ (x.keeps => "id" \in DOMAIN x.answer /\ x.answer["id"] = x.id)

\* A run has the id of what x made in a variable that a path of its names.
Knows(r, x) ==
  \E i \in DOMAIN r.w.steps : \E v \in DOMAIN r.w.steps[i].extract \cap Addressed(r.w) :
    /\ r.w.steps[i].method = "POST" /\ x.path[1] = r.w.steps[i].path[1]
    /\ v \in DOMAIN r.vars /\ r.vars[v] = x.id
    /\ r.phase = "running" => i < r.pc

\* What a run has read and keeps it knows still, unless it wrote over it.
KeptOK ==
  \A e \in DOMAIN exchanges :
    LET x == exchanges[e]
        r == runs[x.client]
    IN  x.read /\ x.keeps /\ Made(x) => Overwrites(r.w) \/ Knows(r, x)

\* A DELETE of an address finds the operation that deletes it.
Reached(at) ==
  LET i == OperationFor("DELETE", at)
  IN  i # 0 /\ Templated(Operations[i]) /\ Address(at) = at

Deleting(x, at) == x.at = "admit" /\ x.method = "DELETE" /\ x.path = at
WillDelete(r, at) ==
  \E k \in DOMAIN r.w.cleanup :
    /\ k > r.pc \/ (k = r.pc /\ r.waiting = 0)
    /\ r.w.cleanup[k].method = "DELETE" /\ "DELETE" \in r.w.methods
    /\ DeepSubstitute(r.w.cleanup[k].path, r.vars) = at

\* The run still has its steps to do, its cleanup will delete it, or the DELETE is on its way.
Coming(r, at) ==
  \/ r.phase = "running"
  \/ /\ Reached(at)
     /\ \/ r.phase = "cleanup" /\ WillDelete(r, at)
        \/ \E d \in DOMAIN exchanges : Deleting(exchanges[d], at)

Excused(r, x) ==
  \/ ~ x.keeps
  \/ r.phase = "raised"
  \/ mock.count > RateLimitAfter
  \/ IncompleteCleanup(r.w) # {} \/ Overwrites(r.w)

MadeBy(x, at) == Made(x) /\ at = <<x.path[1], x.id>> /\ x.epoch = faults.restarts /\ x.at \notin AtMock

\* Exchange e made what is stored, and its run has an excuse or something to come.
Left(e, at) ==
  /\ MadeBy(exchanges[e], at)
  /\ exchanges[e].read => \/ Excused(runs[exchanges[e].client], exchanges[e])
                          \/ Coming(runs[exchanges[e].client], at)
LeftOK == \A at \in Standing : \E e \in DOMAIN exchanges : Left(e, at)

LeftBase == TypeOK /\ EachOK /\ StoreOK /\ WaitOK /\ AimOK
LeftInv == LeftBase /\ KeptOK /\ LeftOK

(* The mock's operations. *)

LEMMA OperationFits ==
  ASSUME NEW method, NEW path, NEW k \in DOMAIN Operations, Operations[k].method = method,
         MatchesTemplate(Operations[k].path, path)
  PROVE  LET i == OperationFor(method, path)
         IN  /\ i # 0 /\ i \in DOMAIN Operations /\ Operations[i].method = method
             /\ MatchesTemplate(Operations[i].path, path)
  <1> DEFINE fits == {i \in DOMAIN Operations : /\ Operations[i].method = method
                                                /\ MatchesTemplate(Operations[i].path, path)}
             same == {i \in fits : Operations[i].path = path}
             first(s) == CHOOSE i \in s : \A j \in s : i <= j
  <1>1. OperationFor(method, path) = IF same # {} THEN first(same) ELSE IF fits # {} THEN first(fits) ELSE 0
    BY DEF OperationFor
  <1>2. DOMAIN Operations = 1..Len(Operations) /\ Len(Operations) \in Nat
    BY WorkflowAssumption
  <1>3. DOMAIN Operations \subseteq Nat /\ 0 \notin DOMAIN Operations
    BY <1>2
  <1>4. ASSUME NEW s \in SUBSET (DOMAIN Operations), s # {} PROVE first(s) \in s
    <2>1. \E i \in s : \A j \in s : i <= j
      BY <1>3, <1>4, Least
    <2> QED BY <2>1
  <1>5. same \in SUBSET fits /\ fits \in SUBSET (DOMAIN Operations) /\ fits # {}
    OBVIOUS
  <1>6. \A i \in fits : /\ i \in DOMAIN Operations /\ Operations[i].method = method
                        /\ MatchesTemplate(Operations[i].path, path)
    OBVIOUS
  <1> HIDE DEF fits, same, first
  <1>7. OperationFor(method, path) \in fits
    BY <1>1, <1>4, <1>5
  <1> QED BY <1>3, <1>6, <1>7

LEMMA ReachedIs ==
  ASSUME NEW collection, DeletesItemsOf(collection), NEW id
  PROVE  Reached(<<collection, id>>)
  <1> DEFINE at == <<collection, id>>
             i == OperationFor("DELETE", at)
             deletes == {op \in Range(Operations) : op.method = "DELETE" /\ Len(op.path) = 2}
  <1>1. /\ \E op \in deletes : op.path[1] = collection
        /\ \A op \in deletes : op.path[1] \in {collection} \cup Templates => op.path[2] \in Templates
    BY DEF DeletesItemsOf
  <1>2. Len(at) = 2 /\ DOMAIN at = {1, 2} /\ at[1] = collection /\ at[2] = id
    OBVIOUS
  <1> HIDE DEF at
  <1>3. PICK k \in DOMAIN Operations : Operations[k] \in deletes /\ Operations[k].path[1] = collection
    BY <1>1 DEF Range
  <1>4. MatchesTemplate(Operations[k].path, at)
    BY <1>1, <1>2, <1>3 DEF MatchesTemplate
  <1>5. /\ i # 0 /\ i \in DOMAIN Operations /\ Operations[i].method = "DELETE"
        /\ MatchesTemplate(Operations[i].path, at)
    BY <1>3, <1>4, OperationFits
  <1>6. Operations[i] \in Range(Operations)
    BY <1>5 DEF Range
  <1> DEFINE op == Operations[i]
  <1>7. op.path \in Seq(Range(op.path)) /\ Len(op.path) = 2
    BY <1>2, <1>5, <1>6, WorkflowAssumption DEF MatchesTemplate
  <1>8. op.path[1] \in {collection} \cup Templates
    BY <1>2, <1>5 DEF MatchesTemplate
  <1>9. op.path[2] \in Templates
    BY <1>1, <1>5, <1>6, <1>7, <1>8
  <1>10. 2 \in DOMAIN op.path
    BY <1>7
  <1>11. Templated(op)
    BY <1>9, <1>10 DEF Templated, Range
  <1>12. Address(at) = at
    BY <1>2 DEF Address, Last, at
  <1> QED BY <1>5, <1>11, <1>12 DEF Reached, at

LEMMA DeletedStore ==
  ASSUME NEW m, DOMAIN m = DOMAIN FreshMock, NEW method, NEW op, NEW path
  PROVE  LET n == Deleted(m, method, op, path)
         IN  /\ n.count = m.count /\ StandingAt(n) \subseteq StandingAt(m) /\ SeenAt(m) \subseteq SeenAt(n)
             /\ Templated(op) /\ method = "DELETE" => Address(path) \notin StandingAt(n)
  <1> DEFINE at == Address(path)
             n == Deleted(m, method, op, path)
  <1>1. CASE method = "DELETE" /\ Templated(op)
    <2>1. n = [m EXCEPT !.store = Without(m.store, at), !.deleted = @ \cup {at}]
      BY <1>1 DEF Deleted
    <2>2. n.store = Without(m.store, at) /\ n.deleted = m.deleted \cup {at} /\ n.count = m.count
      BY <2>1 DEF FreshMock
    <2>3. DOMAIN n.store = DOMAIN m.store \ {at}
      BY <2>2 DEF Without
    <2> HIDE DEF n, at
    <2>4. /\ StandingAt(n) \subseteq StandingAt(m) /\ SeenAt(m) \subseteq SeenAt(n) /\ at \notin StandingAt(n)
      BY <2>2, <2>3 DEF StandingAt, SeenAt
    <2> QED BY <2>2, <2>4 DEF n, at
  <1>2. CASE ~ (method = "DELETE" /\ Templated(op))
    BY <1>2 DEF Deleted
  <1> QED BY <1>1, <1>2

\* An item written back after its DELETE is not answered for again.
LEMMA WrittenStore ==
  ASSUME NEW m, DOMAIN m = DOMAIN FreshMock, NEW path, NEW item, Address(path) \in SeenAt(m)
  PROVE  LET n == WriteBack(m, path, item)
         IN  /\ n.count = m.count /\ StandingAt(n) \subseteq StandingAt(m) /\ SeenAt(m) \subseteq SeenAt(n)
  <1> DEFINE at == Address(path)
             n == WriteBack(m, path, item)
  <1>1. n.store = Merge(m.store, [k \in {at} |-> item]) /\ n.deleted = m.deleted /\ n.count = m.count
    BY DEF WriteBack, FreshMock
  <1>2. at \in SeenAt(m)
    OBVIOUS
  <1> HIDE DEF n, at
  <1>3. DOMAIN n.store = DOMAIN m.store \cup {at}
    BY <1>1 DEF Merge
  <1>4. StandingAt(n) \subseteq StandingAt(m) /\ SeenAt(m) \subseteq SeenAt(n)
    BY <1>1, <1>2, <1>3 DEF StandingAt, SeenAt
  <1> QED BY <1>1, <1>4 DEF n

LEMMA NewInStore ==
  ASSUME NEW m, DOMAIN m = DOMAIN FreshMock, NEW op, NEW path, NEW body, NEW id
  PROVE  LET n == StoreNew(m, op, path, body, id)
         IN  /\ n.count = m.count /\ StandingAt(n) = StandingAt(m) \cup {<<path[1], id>>}
             /\ SeenAt(m) \subseteq SeenAt(n)
  <1> DEFINE at == <<path[1], id>>
             n == StoreNew(m, op, path, body, id)
             item == NewItem(op, body, id)
  <1> HIDE DEF at, item
  <1>1. n = [m EXCEPT !.next = @ + 1, !.deleted = @ \ {at}, !.store = Merge(@, [k \in {at} |-> item])]
    BY DEF StoreNew, at, item
  <1>2. n.store = Merge(m.store, [k \in {at} |-> item]) /\ n.deleted = m.deleted \ {at} /\ n.count = m.count
    BY <1>1 DEF FreshMock
  <1>3. DOMAIN n.store = DOMAIN m.store \cup {at}
    BY <1>2 DEF Merge
  <1> HIDE DEF n
  <1>4. StandingAt(n) = StandingAt(m) \cup {at} /\ SeenAt(m) \subseteq SeenAt(n)
    BY <1>2, <1>3 DEF StandingAt, SeenAt
  <1> QED BY <1>2, <1>4 DEF n, at

LEMMA NewItemHasId ==
  ASSUME NEW op, NEW body, body # << >>, NEW id
  PROVE  "id" \in DOMAIN NewItem(op, body, id) /\ NewItem(op, body, id)["id"] = id
  <1> DEFINE f == Merge(Generated(op), body)
             g == [id |-> id]
  <1>1. NewItem(op, body, id) = Merge(f, g)
    BY DEF NewItem
  <1>2. "id" \in DOMAIN g /\ g["id"] = id
    OBVIOUS
  <1> HIDE DEF f, g
  <1>3. "id" \in DOMAIN Merge(f, g) /\ Merge(f, g)["id"] = g["id"]
    BY <1>2 DEF Merge
  <1> QED BY <1>1, <1>2, <1>3

(* A cleanup that aims. *)

\* A run that begins its cleanup knowing the id of what it made will delete it.
LEMMA CleanupReaches ==
  ASSUME NEW r, IsRun(r), CleanupAims(r.w), DOMAIN r.vars \subseteq Placeholders,
         NEW x, x.method = "POST", Knows(r, x), IncompleteCleanup(r.w) = {}
  PROVE  LET at == <<x.path[1], x.id>>
         IN  /\ Reached(at) /\ Len(r.w.cleanup) # 0
             /\ r.phase = "cleanup" /\ r.pc = 1 /\ r.waiting = 0 => WillDelete(r, at)
  <1> DEFINE at == <<x.path[1], x.id>>
  <1>1. PICK i \in DOMAIN r.w.steps : \E v \in DOMAIN r.w.steps[i].extract \cap Addressed(r.w) :
          /\ r.w.steps[i].method = "POST" /\ x.path[1] = r.w.steps[i].path[1]
          /\ v \in DOMAIN r.vars /\ r.vars[v] = x.id
    BY DEF Knows
  <1> DEFINE s == r.w.steps[i]
  <1>2. PICK v \in DOMAIN s.extract \cap Addressed(r.w) :
          s.method = "POST" /\ x.path[1] = s.path[1] /\ v \in DOMAIN r.vars /\ r.vars[v] = x.id
    BY <1>1
  <1>3. s \in Range(r.w.steps)
    BY DEF Range
  <1>4. v \in ExtractedBy(r.w)
    BY <1>2 DEF ExtractedBy, Destructive
  <1>5. v \in DeleteVars(r.w)
    BY <1>2, <1>4 DEF IncompleteCleanup
  <1>6. PICK d \in Range(r.w.cleanup) : d.method = "DELETE" /\ v \in VariablesIn(d.path)
    BY <1>5 DEF DeleteVars
  <1>7. PICK k \in DOMAIN r.w.cleanup : d = r.w.cleanup[k]
    BY DEF Range
  <1>8. /\ s.path[1] \notin Placeholders /\ d.path = <<s.path[1], v>> /\ "DELETE" \in r.w.methods
        /\ DeletesItemsOf(s.path[1])
    BY <1>2, <1>3, <1>6 DEF CleanupAims
  <1>9. DOMAIN r.w.cleanup = 1..Len(r.w.cleanup) /\ Len(r.w.cleanup) \in Nat
    BY DEF IsRun, IsManifest
  <1>10. DeepSubstitute(d.path, r.vars) = at
    <2>1. /\ DeepSubstitute(d.path, r.vars) = [j \in {1, 2} |-> Substitute(d.path[j], r.vars)]
          /\ d.path[1] = s.path[1] /\ d.path[2] = v
      BY <1>8 DEF DeepSubstitute
    <2>2. Substitute(s.path[1], r.vars) = x.path[1] /\ Substitute(v, r.vars) = x.id
      BY <1>2, <1>8 DEF Substitute
    <2>3. at = [j \in {1, 2} |-> IF j = 1 THEN x.path[1] ELSE x.id]
      OBVIOUS
    <2>4. \A j \in {1, 2} : Substitute(d.path[j], r.vars) = IF j = 1 THEN x.path[1] ELSE x.id
      BY <2>1, <2>2
    <2> HIDE DEF at, s
    <2> QED BY <2>1, <2>3, <2>4
  <1>11. Reached(at)
    BY <1>2, <1>8, ReachedIs
  <1>12. Len(r.w.cleanup) # 0 /\ k >= 1
    BY <1>9
  <1>13. ASSUME r.phase = "cleanup", r.pc = 1, r.waiting = 0 PROVE WillDelete(r, at)
    <2>1. k > r.pc \/ (k = r.pc /\ r.waiting = 0)
      BY <1>9, <1>12, <1>13
    <2> HIDE DEF at, s
    <2> QED BY <1>6, <1>7, <1>8, <1>10, <2>1 DEF WillDelete
  <1> QED BY <1>11, <1>12, <1>13

LEMMA LeavesFor ==
  ASSUME NEW r, NEW s, IsRun(s), GoesTo(r, s), r.phase = "running",
         CleanupAims(s.w), DOMAIN s.vars \subseteq Placeholders,
         NEW x, x.method = "POST", Knows(s, x), IncompleteCleanup(s.w) = {}
  PROVE  LET at == <<x.path[1], x.id>>
         IN  s.phase = "running" \/ (Reached(at) /\ s.phase = "cleanup" /\ WillDelete(s, at))
  <1> DEFINE at == <<x.path[1], x.id>>
  <1>1. /\ Reached(at) /\ Len(s.w.cleanup) # 0
        /\ s.phase = "cleanup" /\ s.pc = 1 /\ s.waiting = 0 => WillDelete(s, at)
    BY CleanupReaches
  <1>2. /\ s.w = r.w /\ s.waiting = 0
        /\ \/ s.phase = "running" \/ (s.phase = "cleanup" /\ s.pc = 1)
           \/ s.phase = "done" /\ Len(r.w.cleanup) = 0
    BY DEF GoesTo
  <1> HIDE DEF at
  <1> QED BY <1>1, <1>2 DEF at

LEMMA PassesOn ==
  ASSUME NEW r, IsRun(r), NEW s, GoesTo(r, s), r.phase = "cleanup", s.vars = r.vars, NEW at,
         WillDelete(r, at), r.waiting # 0 \/ StepOf(r).method \notin r.w.methods
  PROVE  s.phase = "cleanup" /\ WillDelete(s, at)
  <1>1. PICK k \in DOMAIN r.w.cleanup :
          /\ k > r.pc \/ (k = r.pc /\ r.waiting = 0)
          /\ r.w.cleanup[k].method = "DELETE" /\ "DELETE" \in r.w.methods
          /\ DeepSubstitute(r.w.cleanup[k].path, r.vars) = at
    BY DEF WillDelete
  <1>2. DOMAIN r.w.cleanup = 1..Len(r.w.cleanup) /\ Len(r.w.cleanup) \in Nat /\ r.pc \in Nat
    BY DEF IsRun, IsManifest
  <1>3. StepOf(r) = r.w.cleanup[r.pc]
    BY DEF StepOf, Current
  <1>4. k > r.pc
    BY <1>1, <1>3
  <1>5. /\ s.w = r.w
        /\ \/ s.phase = "cleanup" /\ s.pc = r.pc + 1
           \/ s.phase = "done" /\ r.pc + 1 > Len(r.w.cleanup)
        /\ s.waiting = 0
    BY DEF GoesTo
  <1>6. s.phase = "cleanup" /\ s.pc = r.pc + 1
    BY <1>2, <1>4, <1>5
  <1>7. k > s.pc \/ (k = s.pc /\ s.waiting = 0)
    BY <1>2, <1>4, <1>5, <1>6
  <1> QED BY <1>1, <1>5, <1>6, <1>7 DEF WillDelete

(* What the steps keep of the base. *)

\* The manifests are aimed, whatever a run extracts.
LEMMA AimStays ==
  ASSUME AimOK, \A d \in Clients : runs'[d].w = runs[d].w /\ DOMAIN runs'[d].vars \subseteq Placeholders
  PROVE  AimOK'
  <1>1. \A d \in Clients : CleanupAims(runs'[d].w) /\ DOMAIN runs'[d].vars \subseteq Placeholders
    BY DEF AimOK
  <1> QED BY <1>1 DEF AimOK

\* Exchange y is to its run what exchange x was.
SameRequest(x, y) ==
  /\ y.client = x.client /\ y.phase = x.phase /\ y.method = x.method /\ y.path = x.path
  /\ y.body = x.body /\ y.epoch = x.epoch /\ y.keeps = x.keeps

\* The mock or the proxy moves an exchange of an open request on.
LEMMA BaseMoves ==
  ASSUME LeftBase, TypeOK', StoreOK', NEW e \in DOMAIN exchanges, Moved(e, exchanges'[e]),
         exchanges'[e].read = exchanges[e].read, exchanges'[e].keeps = exchanges[e].keeps,
         UNCHANGED <<runs, faults>>, exchanges[e].at # "answered",
         exchanges'[e].at \in AtMock => exchanges[e].at \in AtMock,
         exchanges'[e].at = "store" => exchanges[e].method = "POST",
         SeenAt(mock) \subseteq SeenAt(mock'),
         exchanges'[e].at = "update" => Address(exchanges[e].path) \in SeenAt(mock)
  PROVE  LeftBase' /\ (KeptOK => KeptOK')
  <1>1. /\ DOMAIN exchanges' = DOMAIN exchanges /\ SameRequest(exchanges[e], exchanges'[e])
        /\ \A i \in DOMAIN exchanges : i # e => exchanges'[i] = exchanges[i]
    BY DEF Moved, SameRequest
  <1>2. ExchangeOK(exchanges[e])
    BY DEF LeftBase, EachOK
  <1>3. ~ exchanges[e].read
    BY <1>2 DEF ExchangeOK
  <1>4. ASSUME NEW i \in DOMAIN exchanges PROVE ExchangeOK(exchanges[i])'
    <2>1. CASE i = e
      BY <1>1, <1>2, <1>3, <2>1 DEF ExchangeOK, SameRequest, SeenAt
    <2>2. CASE i # e
      <3>1. ExchangeOK(exchanges[i])
        BY DEF LeftBase, EachOK
      <3> QED BY <1>1, <2>2, <3>1 DEF ExchangeOK, SeenAt
    <2> QED BY <2>1, <2>2
  <1>5. EachOK'
    BY <1>1, <1>4 DEF EachOK
  <1>6. WaitOK'
    <2> SUFFICES ASSUME NEW c \in Clients, runs[c].waiting # 0
                 PROVE  /\ runs[c].waiting \in DOMAIN exchanges /\ exchanges'[runs[c].waiting].client = c
                        /\ WaitsFor(runs[c], exchanges'[runs[c].waiting])
      BY <1>1 DEF WaitOK
    <2>1. /\ runs[c].waiting \in DOMAIN exchanges /\ exchanges[runs[c].waiting].client = c
          /\ WaitsFor(runs[c], exchanges[runs[c].waiting])
      BY DEF LeftBase, WaitOK
    <2>2. CASE runs[c].waiting = e
      BY <1>1, <2>1, <2>2 DEF WaitsFor, SameRequest
    <2>3. CASE runs[c].waiting # e
      BY <1>1, <2>1, <2>3
    <2> QED BY <2>1, <2>2, <2>3
  <1>7. AimOK'
    BY DEF LeftBase, AimOK
  <1>8. ASSUME KeptOK PROVE KeptOK'
    <2> SUFFICES ASSUME NEW i \in DOMAIN exchanges,
                        exchanges'[i].read /\ exchanges'[i].keeps /\ Made(exchanges'[i])
                 PROVE  Overwrites(runs[exchanges'[i].client].w)
                        \/ Knows(runs[exchanges'[i].client], exchanges'[i])
      BY <1>1 DEF KeptOK
    <2>1. i # e
      BY <1>3
    <2> QED BY <1>1, <1>8, <2>1 DEF KeptOK
  <1> QED BY <1>5, <1>6, <1>7, <1>8 DEF LeftBase

\* What a request of Admit does to what is stored.
LEMMA AdmitStores ==
  ASSUME LeftBase, NEW e \in DOMAIN exchanges, Admit(e)
  PROVE  /\ StoreOK' /\ mock'.count = mock.count + 1 /\ SeenAt(mock) \subseteq SeenAt(mock')
         /\ Standing' \subseteq Standing
         /\ \A at \in Standing : Deleting(exchanges[e], at) /\ Reached(at) =>
              mock'.count > RateLimitAfter \/ at \notin Standing'
  <1> DEFINE x == exchanges[e]
             counted == [mock EXCEPT !.count = @ + 1]
             refused == Refusal(counted, x.method, x.path)
             applied == Deleted(counted, x.method, OpOf(x), x.path)
  <1>1. mock' = IF refused # 0 THEN counted ELSE applied
    BY DEF Admit
  <1>2. DOMAIN mock = DOMAIN FreshMock /\ StoreOK
    BY MockIs DEF LeftBase, TypeOK, MockOK
  <1>3. /\ DOMAIN counted = DOMAIN FreshMock /\ counted.count = mock.count + 1
        /\ counted.store = mock.store /\ counted.deleted = mock.deleted
    BY <1>2, MockIs
  <1>10. Standing = StandingAt(mock) /\ Standing' = StandingAt(mock')
    BY DEF Standing, StandingAt
  <1> HIDE DEF counted
  <1>8. StandingAt(counted) = StandingAt(mock) /\ SeenAt(counted) = SeenAt(mock)
    BY <1>3 DEF StandingAt, SeenAt
  <1>4. /\ applied.count = counted.count /\ StandingAt(applied) \subseteq StandingAt(mock)
        /\ SeenAt(mock) \subseteq SeenAt(applied)
        /\ Templated(OpOf(x)) /\ x.method = "DELETE" => Address(x.path) \notin StandingAt(applied)
    BY <1>3, <1>8, DeletedStore
  <1> HIDE DEF applied
  <1>5. /\ mock'.count = mock.count + 1 /\ Standing' \subseteq Standing
        /\ SeenAt(mock) \subseteq SeenAt(mock')
    BY <1>1, <1>3, <1>4, <1>8, <1>10
  <1>6. StoreOK'
    BY <1>2, <1>5 DEF StoreOK
  <1>7. ASSUME NEW at \in Standing, Deleting(x, at), Reached(at)
        PROVE  mock'.count > RateLimitAfter \/ at \notin Standing'
    <2> DEFINE i == OperationFor("DELETE", at)
    <2>1. x.method = "DELETE" /\ x.path = at /\ i # 0 /\ Templated(Operations[i]) /\ Address(at) = at
      BY <1>7 DEF Deleting, Reached
    <2>2. OpOf(x) = Operations[i]
      BY <2>1 DEF OpOf
    <2>3. CASE refused = 0
      BY <1>1, <1>4, <1>10, <2>1, <2>2, <2>3
    <2>4. CASE refused # 0
      <3>1. ~ IsGone(counted, "DELETE", Operations[i], at)
        BY <1>3, <1>7, <2>1 DEF IsGone, Standing
      <3>2. counted.count > RateLimitAfter
        BY <2>1, <2>4, <3>1 DEF Refusal
      <3> QED BY <1>1, <2>4, <3>2
    <2> QED BY <2>3, <2>4
  <1> QED BY <1>5, <1>6, <1>7

\* What a write-back does to what is stored.
LEMMA UpdateStores ==
  ASSUME LeftBase, NEW e \in DOMAIN exchanges, Update(e)
  PROVE  /\ StoreOK' /\ mock'.count = mock.count /\ SeenAt(mock) \subseteq SeenAt(mock')
         /\ Standing' \subseteq Standing
  <1> DEFINE x == exchanges[e]
  <1>1. x.at = "update" /\ mock' = WriteBack(mock, x.path, x.answer)
    BY DEF Update
  <1>2. DOMAIN mock = DOMAIN FreshMock /\ StoreOK
    BY MockIs DEF LeftBase, TypeOK, MockOK
  <1>3. Address(x.path) \in SeenAt(mock)
    BY <1>1 DEF LeftBase, EachOK, ExchangeOK, SeenAt
  <1>4. /\ mock'.count = mock.count /\ SeenAt(mock) \subseteq SeenAt(mock')
        /\ StandingAt(mock') \subseteq StandingAt(mock)
    BY <1>1, <1>2, <1>3, WrittenStore
  <1>5. Standing = StandingAt(mock) /\ Standing' = StandingAt(mock')
    BY DEF Standing, StandingAt
  <1> QED BY <1>2, <1>4, <1>5 DEF StoreOK

\* Each step of the mock or the proxy keeps the base.
ThreadStep(e) == Admit(e) \/ Update(e) \/ Build(e) \/ Store(e) \/ Record(e) \/ AppendEntry(e)

LEMMA BaseThread ==
  ASSUME LeftBase, NEW e \in DOMAIN exchanges, ThreadStep(e)
  PROVE  LeftBase' /\ (KeptOK => KeptOK')
  <1> DEFINE x == exchanges[e]
             y == exchanges'[e]
  <1>1. y.read = x.read /\ y.keeps = x.keeps
    BY ReaderIsElsewhere DEF ThreadStep, LeftBase
  <1>2. TypeOK /\ StoreOK /\ ExchangeOK(x)
    BY DEF LeftBase, EachOK
  <1>3. CASE Admit(e)
    <2>1. /\ TypeOK' /\ UNCHANGED <<runs, faults>> /\ Moved(e, y) /\ x.at = "admit"
          /\ y.at \in {"record", "update", "build"}
          /\ y.at = "update" => Updates(mock, x.method, OpOf(x), x.path)
      BY <1>2, <1>3, AdmitIs
    <2>2. StoreOK' /\ SeenAt(mock) \subseteq SeenAt(mock')
      BY <1>3, AdmitStores
    <2>3. x.at \in AtMock
      BY <2>1 DEF AtMock
    <2>4. y.at = "update" => Address(x.path) \in SeenAt(mock)
      BY <2>1 DEF Updates, SeenAt
    <2> QED BY <1>1, <2>1, <2>2, <2>3, <2>4, BaseMoves
  <1>7. CASE Update(e)
    <2>1. TypeOK' /\ UNCHANGED <<runs, faults>> /\ Moved(e, y) /\ x.at = "update" /\ y.at = "build"
      BY <1>2, <1>7, UpdateIs
    <2>2. StoreOK' /\ SeenAt(mock) \subseteq SeenAt(mock')
      BY <1>7, UpdateStores
    <2>3. x.at \in AtMock
      BY <2>1 DEF AtMock
    <2> QED BY <1>1, <2>1, <2>2, <2>3, BaseMoves
  <1>4. CASE Build(e)
    <2>1. /\ TypeOK' /\ UNCHANGED <<runs, mock, faults>> /\ Moved(e, y) /\ x.at = "build"
          /\ y.at \in {"store", "record"}
      BY <1>2, <1>4, BuildIs
    <2>2. y.at = "store" => x.method = "POST"
      <3> DEFINE no == [x EXCEPT !.at = "record", !.answer = BuildBody(mock, x.method, OpOf(x), x.path)]
      <3>1. exchanges' = [exchanges EXCEPT ![e] = IF Creates(x.method, OpOf(x))
                                                  THEN [x EXCEPT !.at = "store", !.id = ToString(mock.next)] ELSE no]
        BY <1>4 DEF Build, Moves
      <3>2. ~ Creates(x.method, OpOf(x)) => y = no
        BY <3>1
      <3>3. no.at = "record"
        BY <1>2 DEF TypeOK, ExchangesOK, IsExchange, ExchangeFields
      <3> HIDE DEF no
      <3> QED BY <3>2, <3>3 DEF Creates
    <2>3. StoreOK' /\ x.at \in AtMock
      BY <1>2, <2>1 DEF StoreOK, AtMock
    <2> QED BY <1>1, <2>1, <2>2, <2>3, BaseMoves
  <1>5. CASE Store(e)
    <2>1. /\ TypeOK' /\ UNCHANGED <<runs, faults>> /\ Moved(e, y) /\ x.at = "store" /\ y.at = "record"
          /\ mock' = StoreNew(mock, OpOf(x), x.path, x.body, x.id)
      BY <1>2, <1>5, StoredIs
    <2>2. StoreOK'
      <3>1. DOMAIN mock = DOMAIN FreshMock
        BY <1>2, MockIs DEF TypeOK, MockOK
      <3>2. mock'.count = mock.count
        BY <1>2, <2>1, <3>1, NewInStore
      <3> QED BY <1>2, <3>2 DEF StoreOK
    <2>4. SeenAt(mock) \subseteq SeenAt(mock')
      <3>1. DOMAIN mock = DOMAIN FreshMock
        BY <1>2, MockIs DEF TypeOK, MockOK
      <3> QED BY <2>1, <3>1, NewInStore
    <2>3. x.at \in AtMock
      BY <2>1 DEF AtMock
    <2> QED BY <1>1, <2>1, <2>2, <2>3, <2>4, BaseMoves
  <1>6. CASE Record(e) \/ AppendEntry(e)
    <2>1. /\ TypeOK' /\ UNCHANGED <<runs, mock, faults>> /\ Moved(e, y)
          /\ x.at \in {"record", "append"} /\ y.at \in {"append", "answered"}
      BY <1>2, <1>6, RecordIs, AppendedIs
    <2>2. StoreOK' /\ y.at \notin AtMock
      BY <1>2, <2>1 DEF StoreOK, AtMock
    <2> QED BY <1>1, <2>1, <2>2, BaseMoves DEF AtMock
  <1> QED BY <1>3, <1>4, <1>5, <1>6, <1>7 DEF ThreadStep

\* A run that waits for nothing any more, and the others where they are.
LEMMA WaitStays ==
  ASSUME TypeOK, WaitOK, NEW c \in Clients, runs'[c].waiting = 0,
         \A d \in Clients : d # c => runs'[d] = runs[d],
         DOMAIN exchanges' = DOMAIN exchanges,
         \A e \in DOMAIN exchanges : exchanges[e].client # c => exchanges'[e] = exchanges[e]
  PROVE  WaitOK'
  <1> SUFFICES ASSUME NEW d \in Clients, runs'[d].waiting # 0
               PROVE  /\ runs'[d].waiting \in DOMAIN exchanges'
                      /\ exchanges'[runs'[d].waiting].client = d
                      /\ WaitsFor(runs'[d], exchanges'[runs'[d].waiting])
    BY DEF WaitOK
  <1>1. d # c /\ runs'[d] = runs[d]
    OBVIOUS
  <1>2. /\ runs[d].waiting \in DOMAIN exchanges /\ exchanges[runs[d].waiting].client = d
        /\ WaitsFor(runs[d], exchanges[runs[d].waiting])
    BY <1>1 DEF WaitOK
  <1> QED BY <1>1, <1>2

LEMMA BaseStart ==
  ASSUME LeftBase, KeptOK, NEW c \in Clients, Start(c)
  PROVE  LeftBase' /\ KeptOK' /\ \A e \in DOMAIN exchanges : exchanges[e].client # c
  <1>1. TypeOK /\ EachOK /\ StoreOK /\ WaitOK /\ AimOK
    BY DEF LeftBase
  <1>2. /\ TypeOK' /\ UNCHANGED <<exchanges, mock, capture, faults>>
        /\ runs'[c].w = runs[c].w /\ \A d \in Clients : d # c => runs'[d] = runs[d]
        /\ runs'[c].waiting = runs[c].waiting /\ runs'[c].vars = runs[c].vars /\ runs[c].phase = "new"
    BY <1>1, StartIs DEF GoesOn
  <1>3. runs[c].waiting = 0
    BY <1>1, <1>2 DEF WaitOK, WaitsFor, HasStep
  <1>4. WaitOK'
    BY <1>1, <1>2, <1>3, WaitStays
  <1>5. \A e \in DOMAIN exchanges : exchanges[e].client # c
    BY <1>1, <1>2 DEF EachOK, ExchangeOK
  <1>6. \A e \in DOMAIN exchanges : exchanges[e].client \in Clients
    BY <1>1 DEF TypeOK, ExchangesOK, IsExchange
  <1>7. \A e \in DOMAIN exchanges : runs'[exchanges[e].client] = runs[exchanges[e].client]
    BY <1>2, <1>5, <1>6
  <1>8. EachOK'
    BY <1>1, <1>2, <1>7 DEF EachOK, ExchangeOK
  <1>9. AimOK'
    <2>1. \A d \in Clients : runs'[d].w = runs[d].w /\ DOMAIN runs'[d].vars \subseteq Placeholders
      BY <1>1, <1>2 DEF AimOK
    <2> QED BY <1>1, <2>1, AimStays
  <1>10. StoreOK' /\ KeptOK'
    BY <1>1, <1>2, <1>7 DEF StoreOK, KeptOK
  <1> QED BY <1>2, <1>4, <1>5, <1>8, <1>9, <1>10 DEF LeftBase

\* What is sent to be kept carries a body.
LEMMA SentToKeep ==
  ASSUME NEW r, IsRun(r), CleanupAims(r.w), NEW x, WaitsFor(r, x), x.keeps
  PROVE  /\ r.phase = "running" /\ StepOf(r) = r.w.steps[r.pc] /\ r.pc \in DOMAIN r.w.steps
         /\ StepOf(r) \in Range(r.w.steps)
         /\ \E v : v \in DOMAIN StepOf(r).extract \cap Addressed(r.w)
         /\ x.method = "POST" => x.body # << >>
  <1>1. /\ HasStep(r) /\ x.method = StepOf(r).method
        /\ x.body = DeepSubstitute(StepOf(r).body, r.vars)
        /\ DOMAIN StepOf(r).extract \cap Addressed(r.w) # {}
    BY DEF WaitsFor
  <1>2. r.pc \in Nat \ {0} /\ r.pc <= Len(Current(r)) /\ IsManifest(r.w)
    BY <1>1 DEF IsRun
  <1>3. r.phase # "cleanup"
    <2> SUFFICES ASSUME r.phase = "cleanup" PROVE FALSE
      OBVIOUS
    <2>1. StepOf(r) = r.w.cleanup[r.pc] /\ r.pc \in DOMAIN r.w.cleanup
      BY <1>2 DEF StepOf, Current, IsManifest
    <2>2. StepOf(r) \in Range(r.w.cleanup)
      BY <2>1 DEF Range
    <2> QED BY <1>1, <2>2 DEF CleanupAims
  <1>4. r.phase = "running"
    BY <1>1, <1>3 DEF HasStep
  <1>5. StepOf(r) = r.w.steps[r.pc] /\ r.pc \in DOMAIN r.w.steps
    BY <1>2, <1>4 DEF StepOf, Current, IsManifest
  <1>6. StepOf(r) \in Range(r.w.steps)
    BY <1>5 DEF Range
  <1>7. ASSUME x.method = "POST" PROVE x.body # << >>
    <2>1. DOMAIN StepOf(r).body # {}
      BY <1>1, <1>6, <1>7 DEF CleanupAims
    <2>2. DOMAIN x.body # {}
      BY <1>1, <2>1 DEF DeepSubstitute
    <2> QED BY <2>2
  <1> QED BY <1>1, <1>4, <1>5, <1>6, <1>7

\* A run that goes on with the variables it has knows what it knew.
LEMMA KeepsKnowing ==
  ASSUME NEW r, NEW s, s.w = r.w, s.vars = r.vars, NEW x, Knows(r, x),
         s.phase = "running" => r.phase = "running" /\ s.pc = r.pc
  PROVE  Knows(s, x)
  BY DEF Knows

\* One run goes on with the variables it has, and no exchange is read.
LEMMA KeptStays ==
  ASSUME TypeOK, KeptOK, NEW c \in Clients,
         runs'[c].w = runs[c].w, runs'[c].vars = runs[c].vars,
         runs'[c].phase = "running" => runs[c].phase = "running" /\ runs'[c].pc = runs[c].pc,
         \A d \in Clients : d # c => runs'[d] = runs[d],
         NEW e \in DOMAIN exchanges, exchanges'[e] = exchanges[e],
         exchanges[e].read, exchanges[e].keeps, Made(exchanges[e])
  PROVE  Overwrites(runs'[exchanges[e].client].w) \/ Knows(runs'[exchanges[e].client], exchanges[e])
  <1>1. exchanges[e].client \in Clients
    BY DEF TypeOK, ExchangesOK, IsExchange
  <1>2. Overwrites(runs[exchanges[e].client].w) \/ Knows(runs[exchanges[e].client], exchanges[e])
    BY DEF KeptOK
  <1>3. CASE exchanges[e].client = c
    BY <1>2, <1>3, KeepsKnowing
  <1>4. CASE exchanges[e].client # c
    BY <1>1, <1>2, <1>4
  <1> QED BY <1>3, <1>4

LEMMA BaseSend ==
  ASSUME LeftBase, KeptOK, NEW c \in Clients, Send(c)
  PROVE  LeftBase' /\ KeptOK'
  <1> DEFINE r == runs[c]
             s == runs'[c]
  <1>1. TypeOK /\ EachOK /\ StoreOK /\ WaitOK /\ AimOK
    BY DEF LeftBase
  <1>2. /\ TypeOK' /\ GoesOn(c, s) /\ UNCHANGED <<mock, capture, faults>>
        /\ HasStep(r) /\ r.waiting = 0 /\ s.vars = r.vars /\ s.phase # "new"
        /\ \/ UNCHANGED exchanges /\ s.waiting = 0 /\ s.phase # "running"
           \/ s.phase = r.phase /\ s.pc = r.pc
    BY <1>1, SendIs
  <1>3. s.w = r.w /\ \A d \in Clients : d # c => runs'[d] = runs[d]
    BY <1>2 DEF GoesOn
  <1>4. AimOK'
    <2>1. \A d \in Clients : runs'[d].w = runs[d].w /\ DOMAIN runs'[d].vars \subseteq Placeholders
      BY <1>1, <1>2, <1>3 DEF AimOK
    <2> QED BY <1>1, <2>1, AimStays
  <1>5. StoreOK'
    BY <1>1, <1>2 DEF StoreOK
  <1>6. \A e \in DOMAIN exchanges : exchanges[e].client \in Clients
    BY <1>1 DEF TypeOK, ExchangesOK, IsExchange
  <1>7. ASSUME NEW e \in DOMAIN exchanges, exchanges'[e] = exchanges[e] PROVE ExchangeOK(exchanges[e])'
    BY <1>1, <1>2, <1>3, <1>6, <1>7 DEF EachOK, ExchangeOK
  <1>8. ASSUME NEW e \in DOMAIN exchanges, exchanges'[e] = exchanges[e],
               exchanges[e].read, exchanges[e].keeps, Made(exchanges[e])
        PROVE  Overwrites(runs'[exchanges[e].client].w) \/ Knows(runs'[exchanges[e].client], exchanges[e])
    <2>1. s.phase = "running" => r.phase = "running" /\ s.pc = r.pc
      BY <1>2
    <2> QED BY <1>1, <1>2, <1>3, <1>8, <2>1, KeptStays
  <1>9. CASE UNCHANGED exchanges /\ s.waiting = 0
    <2>1. EachOK' /\ KeptOK'
      BY <1>7, <1>8, <1>9 DEF EachOK, KeptOK
    <2>2. WaitOK'
      BY <1>1, <1>3, <1>9, WaitStays
    <2> QED BY <1>2, <1>4, <1>5, <2>1, <2>2 DEF LeftBase
  <1>10. ASSUME NEW x, Fresh(c, x), WaitsFor(r, x), exchanges' = Append(exchanges, x),
                s.waiting = Len(exchanges) + 1, s.phase = r.phase, s.pc = r.pc
         PROVE  LeftBase' /\ KeptOK'
    <2>0. PICK n : n = Len(exchanges) + 1
      OBVIOUS
    <2>1. /\ DOMAIN exchanges = 1..Len(exchanges) /\ Len(exchanges) \in Nat /\ DOMAIN exchanges' = 1..n
          /\ exchanges'[n] = x /\ \A i \in DOMAIN exchanges : exchanges'[i] = exchanges[i]
      BY <1>1, <1>10, <2>0, SentIs DEF TypeOK, Fresh
    <2>2. /\ n \in DOMAIN exchanges' /\ n \notin DOMAIN exchanges
          /\ \A i \in DOMAIN exchanges' : i = n \/ i \in DOMAIN exchanges
          /\ \A i \in DOMAIN exchanges : i \in DOMAIN exchanges'
      BY <2>0, <2>1
    <2>3. s.waiting = n
      BY <1>10, <2>0
    <2>4. /\ x.client = c /\ x.at = "admit" /\ x.epoch = faults.restarts /\ ~ x.read
      BY <1>10 DEF Fresh, WaitsFor
    <2>5. x.keeps /\ x.method = "POST" => x.body # << >>
      <3>1. IsRun(r) /\ CleanupAims(r.w)
        BY <1>1 DEF TypeOK, RunsOK, AimOK
      <3> QED BY <1>10, <3>1, SentToKeep
    <2>6. ExchangeOK(exchanges[n])'
      BY <1>2, <2>1, <2>4, <2>5 DEF ExchangeOK
    <2>7. EachOK'
      BY <1>7, <2>1, <2>2, <2>6 DEF EachOK
    <2>8. WaitOK'
      <3> SUFFICES ASSUME NEW d \in Clients, runs'[d].waiting # 0
                   PROVE  /\ runs'[d].waiting \in DOMAIN exchanges'
                          /\ exchanges'[runs'[d].waiting].client = d
                          /\ WaitsFor(runs'[d], exchanges'[runs'[d].waiting])
        BY DEF WaitOK
      <3>1. CASE d = c
        <4>1. WaitsFor(s, x)
          BY <1>2, <1>3, <1>10 DEF WaitsFor, HasStep, StepOf, Current
        <4> QED BY <2>1, <2>2, <2>3, <2>4, <3>1, <4>1
      <3>2. CASE d # c
        <4>1. /\ runs[d].waiting \in DOMAIN exchanges /\ exchanges[runs[d].waiting].client = d
              /\ WaitsFor(runs[d], exchanges[runs[d].waiting])
          BY <1>1, <1>3, <3>2 DEF WaitOK
        <4> QED BY <1>3, <2>1, <2>2, <3>2, <4>1
      <3> QED BY <3>1, <3>2
    <2>9. KeptOK'
      BY <1>8, <2>1, <2>2, <2>4 DEF KeptOK
    <2> QED BY <1>2, <1>4, <1>5, <2>7, <2>8, <2>9 DEF LeftBase
  <1>11. \/ UNCHANGED exchanges /\ s.waiting = 0
         \/ \E x : /\ Fresh(c, x) /\ WaitsFor(r, x) /\ exchanges' = Append(exchanges, x)
                   /\ s.waiting = Len(exchanges) + 1 /\ s.phase = r.phase /\ s.pc = r.pc
    <2>1. \/ exchanges' = exchanges
          \/ /\ \E x : Fresh(c, x) /\ WaitsFor(r, x) /\ exchanges' = Append(exchanges, x)
             /\ s.waiting = Len(exchanges) + 1 /\ s.phase = r.phase /\ s.pc = r.pc
      BY <1>1, SendGoes
    <2>2. exchanges' = exchanges => s.waiting = 0
      <3>1. \/ UNCHANGED exchanges /\ s.waiting = 0
            \/ \E x : Fresh(c, x) /\ exchanges' = Append(exchanges, x)
        BY <1>1, SendIs
      <3>2. ASSUME NEW x, Fresh(c, x), exchanges' = Append(exchanges, x) PROVE exchanges' # exchanges
        <4>1. Len(exchanges') = Len(exchanges) + 1 /\ Len(exchanges) \in Nat
          BY <1>1, <3>2, SentIs DEF TypeOK, Fresh
        <4> QED BY <4>1
      <3> QED BY <3>1, <3>2
    <2> QED BY <2>1, <2>2
  <1> QED BY <1>9, <1>10, <1>11

\* What an answer tells a run is what it keeps of it.
LEMMA KnownByNow ==
  ASSUME NEW r, IsRun(r), CleanupAims(r.w), DOMAIN r.vars \subseteq Placeholders,
         NEW x, WaitsFor(r, x), x.keeps, Made(x),
         NEW s, s.w = r.w, s.vars = Merge(r.vars, Extracted(StepOf(r), x.answer)),
         s.phase = "running" => s.pc = r.pc + 1
  PROVE  Knows(s, x)
  <1> DEFINE step == StepOf(r)
             got == Extracted(step, x.answer)
  <1>1. /\ r.phase = "running" /\ step = r.w.steps[r.pc] /\ r.pc \in DOMAIN r.w.steps
        /\ step \in Range(r.w.steps) /\ \E v : v \in DOMAIN step.extract \cap Addressed(r.w)
    BY SentToKeep
  <1>2. PICK v : v \in DOMAIN step.extract \cap Addressed(r.w)
    BY <1>1
  <1>3. step.method = "POST" /\ x.path = DeepSubstitute(step.path, r.vars)
    BY DEF WaitsFor, Made
  <1>4. step.extract[v] = "id" /\ 1 \in DOMAIN step.path /\ step.path[1] \notin Placeholders
    BY <1>1, <1>2, <1>3 DEF CleanupAims
  <1>5. x.path[1] = step.path[1]
    BY <1>3, <1>4 DEF DeepSubstitute, Substitute
  <1>6. "id" \in DOMAIN x.answer /\ x.answer["id"] = x.id
    BY DEF Made
  <1>7. v \in DOMAIN got /\ got[v] = x.id
    BY <1>2, <1>4, <1>6 DEF Extracted
  <1>8. v \in DOMAIN s.vars /\ s.vars[v] = x.id
    <2> HIDE DEF got
    <2> QED BY <1>7 DEF Merge, got
  <1>9. s.phase = "running" => r.pc < s.pc
    BY DEF IsRun
  <1> HIDE DEF step, got
  <1> QED BY <1>1, <1>2, <1>3, <1>5, <1>8, <1>9 DEF Knows

\* What a run knew it knows still, but for what it writes over.
LEMMA KnownStill ==
  ASSUME NEW r, IsRun(r), HasStep(r), NEW x, Knows(r, x), NEW y, y.path = x.path, y.id = x.id, NEW answer,
         NEW s, s.w = r.w,
         s.vars = IF r.phase = "running" THEN Merge(r.vars, Extracted(StepOf(r), answer)) ELSE r.vars,
         s.phase = "running" => r.phase = "running" /\ s.pc = r.pc + 1
  PROVE  Overwrites(s.w) \/ Knows(s, y)
  <1> DEFINE got == Extracted(StepOf(r), answer)
  <1>1. PICK i \in DOMAIN r.w.steps : \E v \in DOMAIN r.w.steps[i].extract \cap Addressed(r.w) :
          /\ r.w.steps[i].method = "POST" /\ x.path[1] = r.w.steps[i].path[1]
          /\ v \in DOMAIN r.vars /\ r.vars[v] = x.id
          /\ r.phase = "running" => i < r.pc
    BY DEF Knows
  <1>2. PICK v \in DOMAIN r.w.steps[i].extract \cap Addressed(r.w) :
          /\ r.w.steps[i].method = "POST" /\ x.path[1] = r.w.steps[i].path[1]
          /\ v \in DOMAIN r.vars /\ r.vars[v] = x.id
          /\ r.phase = "running" => i < r.pc
    BY <1>1
  <1>3. r.pc \in Nat \ {0} /\ r.pc <= Len(Current(r)) /\ IsManifest(r.w)
    BY DEF IsRun
  <1>4. DOMAIN r.w.steps = 1..Len(r.w.steps) /\ Len(r.w.steps) \in Nat
    BY <1>3 DEF IsManifest
  <1>5. s.phase = "running" => i < s.pc
    BY <1>2, <1>3, <1>4
  <1>6. CASE r.phase # "running"
    BY <1>2, <1>5, <1>6 DEF Knows
  <1>7. CASE r.phase = "running" /\ v \notin DOMAIN got
    <2>1. v \in DOMAIN s.vars /\ s.vars[v] = x.id
      <3> HIDE DEF got
      <3> QED BY <1>2, <1>7 DEF Merge, got
    <2> QED BY <1>2, <1>5, <2>1 DEF Knows
  <1>8. CASE r.phase = "running" /\ v \in DOMAIN got
    <2>1. StepOf(r) = r.w.steps[r.pc] /\ r.pc \in DOMAIN r.w.steps
      BY <1>3, <1>4, <1>8 DEF StepOf, Current
    <2>2. v \in DOMAIN r.w.steps[r.pc].extract
      BY <1>8, <2>1 DEF Extracted
    <2>3. i # r.pc
      BY <1>2, <1>3, <1>4, <1>8
    <2>4. v \in DOMAIN r.w.steps[i].extract \cap DOMAIN r.w.steps[r.pc].extract
      BY <1>2, <2>2
    <2>5. Overwrites(r.w)
      <3> HIDE DEF got
      <3> QED BY <2>1, <2>3, <2>4 DEF Overwrites
    <2> QED BY <2>5
  <1> QED BY <1>6, <1>7, <1>8

LEMMA BaseEvaluate ==
  ASSUME LeftBase, KeptOK, NEW c \in Clients, Evaluate(c)
  PROVE  LeftBase' /\ KeptOK'
  <1> DEFINE r == runs[c]
             s == runs'[c]
  <1>1. TypeOK /\ EachOK /\ StoreOK /\ WaitOK /\ AimOK
    BY DEF LeftBase
  <1>2. PICK e : e = r.waiting
    OBVIOUS
  <1> DEFINE x == exchanges[e]
             y == exchanges'[e]
  <1>3. /\ TypeOK' /\ GoesOn(c, s) /\ UNCHANGED <<mock, capture, faults>>
        /\ HasStep(r) /\ e \in DOMAIN exchanges /\ x.at = "answered" /\ s.waiting = 0
        /\ Moved(e, y) /\ y.at = x.at /\ y.id = x.id /\ y.answer = x.answer
        /\ s.vars = IF r.phase = "running" THEN Merge(r.vars, Extracted(StepOf(r), x.answer)) ELSE r.vars
        /\ s.phase # "new"
        /\ s.phase = "running" => r.phase = "running" /\ s.pc = r.pc + 1
    BY <1>1, <1>2, EvaluateIs
  <1>4. e # 0 /\ y.read = TRUE /\ y.keeps = x.keeps
    BY <1>1, <1>2, EvaluateGoes
  <1>5. s.w = r.w /\ \A d \in Clients : d # c => runs'[d] = runs[d]
    BY <1>3 DEF GoesOn
  <1>6. /\ DOMAIN exchanges' = DOMAIN exchanges /\ SameRequest(x, y)
        /\ \A i \in DOMAIN exchanges : i # e => exchanges'[i] = exchanges[i]
    BY <1>3, <1>4 DEF Moved, SameRequest
  <1>7. x.client = c /\ WaitsFor(r, x)
    BY <1>1, <1>2, <1>4 DEF WaitOK
  <1>8. IsRun(r) /\ CleanupAims(r.w) /\ DOMAIN r.vars \subseteq Placeholders
    BY <1>1 DEF TypeOK, RunsOK, AimOK
  <1>9. \A i \in DOMAIN exchanges : exchanges[i].client \in Clients
    BY <1>1 DEF TypeOK, ExchangesOK, IsExchange
  <1>10. DOMAIN s.vars \subseteq Placeholders
    <2>1. CASE r.phase = "running"
      <3>1. StepOf(r) \in Range(r.w.steps)
        <4>1. StepOf(r) = r.w.steps[r.pc] /\ r.pc \in DOMAIN r.w.steps
          BY <1>3, <1>8, <2>1 DEF StepOf, Current, IsRun, IsManifest
        <4> QED BY <4>1 DEF Range
      <3>2. DOMAIN StepOf(r).extract \subseteq Placeholders
        BY <1>8, <3>1 DEF CleanupAims
      <3>3. DOMAIN Extracted(StepOf(r), x.answer) \subseteq DOMAIN StepOf(r).extract
        BY DEF Extracted
      <3>4. DOMAIN s.vars = DOMAIN r.vars \cup DOMAIN Extracted(StepOf(r), x.answer)
        BY <1>3, <2>1 DEF Merge
      <3> QED BY <1>8, <3>2, <3>3, <3>4
    <2>2. CASE r.phase # "running"
      BY <1>3, <1>8, <2>2
    <2> QED BY <2>1, <2>2
  <1>11. AimOK'
    <2>1. \A d \in Clients : runs'[d].w = runs[d].w /\ DOMAIN runs'[d].vars \subseteq Placeholders
      BY <1>1, <1>5, <1>10 DEF AimOK
    <2> QED BY <1>1, <2>1, AimStays
  <1>12. StoreOK'
    BY <1>1, <1>3 DEF StoreOK
  <1>13. WaitOK'
    <2>1. \A i \in DOMAIN exchanges : exchanges[i].client # c => exchanges'[i] = exchanges[i]
      BY <1>6, <1>7
    <2> QED BY <1>1, <1>3, <1>5, <1>6, <2>1, WaitStays
  <1>14. EachOK'
    <2>1. ASSUME NEW i \in DOMAIN exchanges PROVE ExchangeOK(exchanges[i])'
      <3>1. ExchangeOK(exchanges[i]) /\ exchanges[i].client \in Clients
        BY <1>1, <1>9 DEF EachOK
      <3>2. CASE i = e
        BY <1>3, <1>6, <1>7, <3>1, <3>2 DEF ExchangeOK, SameRequest
      <3>3. CASE i # e
        BY <1>3, <1>5, <1>6, <3>1, <3>3 DEF ExchangeOK
      <3> QED BY <3>2, <3>3
    <2> QED BY <1>6, <2>1 DEF EachOK
  <1>15. KeptOK'
    <2> SUFFICES ASSUME NEW i \in DOMAIN exchanges,
                        exchanges'[i].read /\ exchanges'[i].keeps /\ Made(exchanges'[i])
                 PROVE  Overwrites(runs'[exchanges'[i].client].w)
                        \/ Knows(runs'[exchanges'[i].client], exchanges'[i])
      BY <1>6 DEF KeptOK
    <2>1. CASE i = e
      <3>1. x.keeps /\ Made(x)
        BY <1>3, <1>4, <1>6, <2>1 DEF Made, SameRequest
      <3>2. r.phase = "running"
        BY <1>7, <1>8, <3>1, SentToKeep
      <3>3. Knows(s, x)
        BY <1>3, <1>5, <1>7, <1>8, <3>1, <3>2, KnownByNow
      <3>4. Knows(s, y)
        BY <1>3, <1>6, <3>3 DEF Knows, SameRequest
      <3> QED BY <1>6, <1>7, <2>1, <3>4 DEF SameRequest
    <2>2. CASE i # e
      <3>1. exchanges'[i] = exchanges[i] /\ exchanges[i].client \in Clients
        BY <1>6, <1>9, <2>2
      <3>2. Overwrites(runs[exchanges[i].client].w) \/ Knows(runs[exchanges[i].client], exchanges[i])
        BY <3>1 DEF KeptOK
      <3>3. CASE exchanges[i].client # c
        BY <1>5, <3>1, <3>2, <3>3
      <3>4. CASE exchanges[i].client = c
        <4>1. Knows(r, exchanges[i]) => Overwrites(s.w) \/ Knows(s, exchanges[i])
          BY <1>3, <1>5, <1>8, KnownStill
        <4> QED BY <1>5, <3>1, <3>2, <3>4, <4>1
      <3> QED BY <3>3, <3>4
    <2> QED BY <2>1, <2>2
  <1> QED BY <1>3, <1>11, <1>12, <1>13, <1>14, <1>15 DEF LeftBase

LEMMA BaseTimeOut ==
  ASSUME LeftBase, KeptOK, NEW c \in Clients, TimeOut(c)
  PROVE  LeftBase' /\ KeptOK'
  <1>1. TypeOK /\ EachOK /\ StoreOK /\ WaitOK /\ AimOK
    BY DEF LeftBase
  <1>2. /\ TypeOK' /\ GoesOn(c, runs'[c]) /\ UNCHANGED <<exchanges, mock, capture>>
        /\ runs'[c].waiting = 0 /\ runs'[c].vars = runs[c].vars
        /\ runs'[c].phase \notin {"running", "new"} /\ faults'.restarts = faults.restarts
    BY <1>1, TimeOutIs
  <1>3. runs'[c].w = runs[c].w /\ \A d \in Clients : d # c => runs'[d] = runs[d]
    BY <1>2 DEF GoesOn
  <1>4. AimOK'
    <2>1. \A d \in Clients : runs'[d].w = runs[d].w /\ DOMAIN runs'[d].vars \subseteq Placeholders
      BY <1>1, <1>2, <1>3 DEF AimOK
    <2> QED BY <1>1, <2>1, AimStays
  <1>5. WaitOK'
    BY <1>1, <1>2, <1>3, WaitStays
  <1>6. \A e \in DOMAIN exchanges : exchanges[e].client \in Clients
    BY <1>1 DEF TypeOK, ExchangesOK, IsExchange
  <1>7. ASSUME NEW e \in DOMAIN exchanges PROVE ExchangeOK(exchanges[e])'
    BY <1>1, <1>2, <1>3, <1>6 DEF EachOK, ExchangeOK
  <1>8. EachOK' /\ StoreOK'
    BY <1>1, <1>2, <1>7 DEF EachOK, StoreOK
  <1>9. KeptOK'
    <2>1. ASSUME NEW e \in DOMAIN exchanges, exchanges[e].read, exchanges[e].keeps, Made(exchanges[e])
          PROVE  Overwrites(runs'[exchanges[e].client].w) \/ Knows(runs'[exchanges[e].client], exchanges[e])
      BY <1>1, <1>2, <1>3, <2>1, KeptStays
    <2> QED BY <1>2, <2>1 DEF KeptOK
  <1> QED BY <1>2, <1>4, <1>5, <1>8, <1>9 DEF LeftBase

LEMMA BaseRestart ==
  ASSUME LeftBase, KeptOK, Restart
  PROVE  LeftBase' /\ KeptOK'
  <1>1. TypeOK /\ EachOK /\ WaitOK /\ AimOK
    BY DEF LeftBase
  <1>2. /\ TypeOK' /\ UNCHANGED runs /\ mock' = FreshMock /\ DOMAIN exchanges' = DOMAIN exchanges
    BY <1>1, RestartIs
  <1>3. ASSUME NEW e \in DOMAIN exchanges
        PROVE  LET x == exchanges[e]
                   y == exchanges'[e]
               IN  /\ SameRequest(x, y) /\ y.read = x.read /\ y.id = x.id /\ y.answer = x.answer
                   /\ y.at \notin AtMock
                   /\ x.at = "answered" => y.at = "answered"
    <2>1. exchanges'[e].read = exchanges[e].read /\ exchanges'[e].keeps = exchanges[e].keeps
      BY <1>1, RestartReader
    <2>2. LET x == exchanges[e]
              y == exchanges'[e]
          IN  /\ y.client = x.client /\ y.phase = x.phase /\ y.method = x.method /\ y.path = x.path
              /\ y.body = x.body /\ y.epoch = x.epoch /\ y.id = x.id /\ y.answer = x.answer
              /\ y.at = IF e \in InFlight THEN "answered" ELSE x.at
      BY <1>1, RestartIs
    <2> QED BY <2>1, <2>2 DEF SameRequest, InFlight, AtMock
  <1>4. ASSUME NEW e \in DOMAIN exchanges PROVE ExchangeOK(exchanges[e])'
    <2>1. ExchangeOK(exchanges[e])
      BY <1>1 DEF EachOK
    <2>2. LET x == exchanges[e]
              y == exchanges'[e]
          IN  /\ SameRequest(x, y) /\ y.read = x.read
              /\ y.at \notin AtMock
              /\ x.at = "answered" => y.at = "answered"
      BY <1>3
    <2> QED BY <1>2, <2>1, <2>2 DEF ExchangeOK, SameRequest, AtMock
  <1>5. EachOK' /\ AimOK'
    BY <1>1, <1>2, <1>4 DEF EachOK, AimOK
  <1>6. StoreOK'
    <2>1. FreshMock.count \in Nat /\ FreshMock.deleted = {}
      BY DEF FreshMock
    <2> QED BY <1>2, <2>1 DEF StoreOK
  <1>7. WaitOK'
    <2> SUFFICES ASSUME NEW c \in Clients, runs[c].waiting # 0
                 PROVE  /\ runs[c].waiting \in DOMAIN exchanges /\ exchanges'[runs[c].waiting].client = c
                        /\ WaitsFor(runs[c], exchanges'[runs[c].waiting])
      BY <1>2 DEF WaitOK
    <2>1. /\ runs[c].waiting \in DOMAIN exchanges /\ exchanges[runs[c].waiting].client = c
          /\ WaitsFor(runs[c], exchanges[runs[c].waiting])
      BY <1>1 DEF WaitOK
    <2> QED BY <1>3, <2>1 DEF WaitsFor, SameRequest
  <1>8. KeptOK'
    <2> SUFFICES ASSUME NEW e \in DOMAIN exchanges,
                        exchanges'[e].read /\ exchanges'[e].keeps /\ Made(exchanges'[e])
                 PROVE  Overwrites(runs[exchanges'[e].client].w)
                        \/ Knows(runs[exchanges'[e].client], exchanges'[e])
      BY <1>2 DEF KeptOK
    <2>1. exchanges[e].read /\ exchanges[e].keeps /\ Made(exchanges[e])
      BY <1>3 DEF Made, SameRequest
    <2>2. Overwrites(runs[exchanges[e].client].w) \/ Knows(runs[exchanges[e].client], exchanges[e])
      BY <2>1 DEF KeptOK
    <2>3. /\ exchanges'[e].client = exchanges[e].client /\ exchanges'[e].path = exchanges[e].path
          /\ exchanges'[e].id = exchanges[e].id
      BY <1>3 DEF SameRequest
    <2>4. ASSUME NEW r, Knows(r, exchanges[e]) PROVE Knows(r, exchanges'[e])
      BY <2>3, <2>4 DEF Knows
    <2> QED BY <2>2, <2>3, <2>4
  <1> QED BY <1>2, <1>5, <1>6, <1>7, <1>8 DEF LeftBase

(* What is left has its excuse or something to come. *)

\* Who made what is stored made it still.
LEMMA MadeStill ==
  ASSUME NEW e, NEW at, MadeBy(exchanges[e], at), faults'.restarts = faults.restarts,
         SameRequest(exchanges[e], exchanges'[e]), exchanges'[e].at \notin AtMock,
         exchanges'[e].id = exchanges[e].id, exchanges'[e].answer = exchanges[e].answer
  PROVE  MadeBy(exchanges[e], at)'
  <1>1. /\ exchanges[e].method = "POST" /\ at = <<exchanges[e].path[1], exchanges[e].id>>
        /\ exchanges[e].keeps => "id" \in DOMAIN exchanges[e].answer /\ exchanges[e].answer["id"] = exchanges[e].id
        /\ exchanges[e].epoch = faults.restarts
    BY DEF MadeBy, Made
  <1>2. MadeBy(exchanges[e], at)'
    BY <1>1 DEF MadeBy, Made, SameRequest
  <1> QED BY <1>2

LEMMA LeftThread ==
  ASSUME LeftBase, StoreOK', NEW d \in DOMAIN exchanges, Moved(d, exchanges'[d]),
         exchanges'[d].read = exchanges[d].read, exchanges'[d].keeps = exchanges[d].keeps,
         UNCHANGED <<runs, faults>>,
         mock'.count = mock.count \/ mock'.count = mock.count + 1,
         exchanges[d].at \notin AtMock => /\ exchanges'[d].at \notin AtMock
                                          /\ exchanges'[d].id = exchanges[d].id
                                          /\ exchanges'[d].answer = exchanges[d].answer,
         NEW at, Deleting(exchanges[d], at) /\ Reached(at) => mock'.count > RateLimitAfter,
         NEW e \in DOMAIN exchanges, Left(e, at)
  PROVE  Left(e, at)'
  <1> DEFINE x == exchanges[e]
             y == exchanges'[e]
             r == runs[x.client]
  <1>1. MadeBy(x, at) /\ (x.read => Excused(r, x) \/ Coming(r, at))
    BY DEF Left
  <1>2. x.at \notin AtMock
    BY <1>1 DEF MadeBy
  <1>3. /\ DOMAIN exchanges' = DOMAIN exchanges
        /\ \A i \in DOMAIN exchanges : i # d => exchanges'[i] = exchanges[i]
        /\ SameRequest(exchanges[d], exchanges'[d])
    BY DEF Moved, SameRequest
  <1>4. /\ SameRequest(x, y) /\ y.at \notin AtMock /\ y.id = x.id /\ y.answer = x.answer /\ y.read = x.read
    <2>1. CASE e = d
      BY <1>2, <1>3, <2>1
    <2>2. CASE e # d
      BY <1>2, <1>3, <2>2 DEF SameRequest
    <2> QED BY <2>1, <2>2
  <1>5. MadeBy(exchanges[e], at)'
    BY <1>1, <1>4, MadeStill
  <1>6. mock.count > RateLimitAfter => mock'.count > RateLimitAfter
    BY WorkflowAssumption DEF LeftBase, StoreOK
  <1>7. ASSUME y.read
        PROVE  \/ Excused(runs[exchanges[e].client], exchanges[e])'
               \/ Coming(runs[exchanges[e].client], at)'
    <2>1. Excused(r, x) \/ Coming(r, at)
      BY <1>1, <1>4, <1>7
    <2>2. runs'[y.client] = r /\ y.keeps = x.keeps
      BY <1>4 DEF SameRequest
    <2>3. CASE Excused(r, x) \/ mock'.count > RateLimitAfter
      BY <1>6, <2>2, <2>3 DEF Excused
    <2>4. CASE r.phase = "running" \/ (Reached(at) /\ r.phase = "cleanup" /\ WillDelete(r, at))
      BY <2>2, <2>4 DEF Coming
    <2>5. ASSUME Reached(at), NEW k \in DOMAIN exchanges, Deleting(exchanges[k], at),
                 ~ (mock'.count > RateLimitAfter)
          PROVE  Coming(runs[exchanges[e].client], at)'
      <3>1. k # d
        BY <2>5
      <3>2. k \in DOMAIN exchanges' /\ Deleting(exchanges'[k], at)
        BY <1>3, <2>5, <3>1
      <3> QED BY <2>5, <3>2 DEF Coming
    <2> QED BY <2>1, <2>3, <2>4, <2>5 DEF Coming
  <1> QED BY <1>5, <1>7 DEF Left

LEMMA LeftAfterThread ==
  ASSUME LeftBase, LeftOK, NEW d \in DOMAIN exchanges, ThreadStep(d)
  PROVE  LeftOK'
  <1> DEFINE x == exchanges[d]
             y == exchanges'[d]
  <1>1. TypeOK /\ StoreOK /\ ExchangeOK(x) /\ StoreOK'
    <2>1. LeftBase'
      BY BaseThread
    <2> QED BY <2>1 DEF LeftBase, EachOK
  <1>2. y.read = x.read /\ y.keeps = x.keeps
    BY <1>1, ReaderIsElsewhere DEF ThreadStep
  <1>3. UNCHANGED <<runs, faults>> /\ Moved(d, y) /\ DOMAIN exchanges' = DOMAIN exchanges
    <2>1. UNCHANGED <<runs, faults>> /\ Moved(d, y)
      BY <1>1, AdmitIs, UpdateIs, BuildIs, StoredIs, RecordIs, AppendedIs DEF ThreadStep
    <2> QED BY <2>1 DEF Moved
  <1>4. ASSUME mock'.count = mock.count \/ mock'.count = mock.count + 1,
               x.at \notin AtMock => y.at \notin AtMock /\ y.id = x.id /\ y.answer = x.answer,
               NEW at \in Standing,
               Deleting(x, at) /\ Reached(at) => mock'.count > RateLimitAfter
        PROVE  \E e \in DOMAIN exchanges' : Left(e, at)'
    <2>1. PICK e \in DOMAIN exchanges : Left(e, at)
      BY DEF LeftOK
    <2>2. Left(e, at)'
      BY <1>1, <1>2, <1>3, <1>4, <2>1, LeftThread
    <2> QED BY <1>3, <2>2
  <1>5. CASE Admit(d)
    <2>1. /\ mock'.count = mock.count + 1 /\ Standing' \subseteq Standing
          /\ \A at \in Standing : Deleting(x, at) /\ Reached(at) =>
               mock'.count > RateLimitAfter \/ at \notin Standing'
      BY <1>5, AdmitStores
    <2>2. x.at \in AtMock
      BY <1>1, <1>5, AdmitIs DEF AtMock
    <2>3. ASSUME NEW at \in Standing' PROVE \E e \in DOMAIN exchanges' : Left(e, at)'
      <3>1. at \in Standing /\ (Deleting(x, at) /\ Reached(at) => mock'.count > RateLimitAfter)
        BY <2>1
      <3> QED BY <1>4, <2>1, <2>2, <3>1
    <2> QED BY <2>3 DEF LeftOK
  <1>6. ASSUME mock'.count = mock.count, Standing' \subseteq Standing, x.at # "admit",
               x.at \notin AtMock => y.at \notin AtMock /\ y.id = x.id /\ y.answer = x.answer
        PROVE  LeftOK'
    <2>1. ASSUME NEW at \in Standing' PROVE \E e \in DOMAIN exchanges' : Left(e, at)'
      <3>1. ~ Deleting(x, at) /\ at \in Standing
        BY <1>6 DEF Deleting
      <3> QED BY <1>4, <1>6, <3>1
    <2> QED BY <2>1 DEF LeftOK
  <1>10. CASE Update(d)
    <2>1. x.at = "update"
      BY <1>1, <1>10, UpdateIs
    <2>2. mock'.count = mock.count /\ Standing' \subseteq Standing
      BY <1>10, UpdateStores
    <2> QED BY <1>6, <2>1, <2>2 DEF AtMock
  <1>7. CASE Build(d)
    <2>1. mock' = mock /\ x.at = "build"
      BY <1>1, <1>7, BuildIs
    <2> QED BY <1>6, <2>1 DEF AtMock, Standing
  <1>8. CASE Record(d) \/ AppendEntry(d)
    <2>1. mock' = mock /\ x.at \in {"record", "append"} /\ y.at \in {"append", "answered"}
          /\ y.id = x.id /\ y.answer = x.answer
      BY <1>1, <1>8, RecordIs, AppendedIs
    <2> QED BY <1>6, <2>1 DEF AtMock, Standing
  <1>9. CASE Store(d)
    <2>1. /\ x.at = "store" /\ y.at = "record" /\ y.id = x.id /\ y.answer = NewItem(OpOf(x), x.body, x.id)
          /\ mock' = StoreNew(mock, OpOf(x), x.path, x.body, x.id)
      BY <1>1, <1>9, StoredIs
    <2>2. mock'.count = mock.count /\ Standing' = Standing \cup {<<x.path[1], x.id>>}
      <3>1. DOMAIN mock = DOMAIN FreshMock
        BY <1>1, MockIs DEF TypeOK, MockOK
      <3>2. mock'.count = mock.count /\ StandingAt(mock') = StandingAt(mock) \cup {<<x.path[1], x.id>>}
        BY <2>1, <3>1, NewInStore
      <3> QED BY <3>2 DEF Standing, StandingAt
    <2>3. SameRequest(x, y)
      BY <1>2, <1>3 DEF Moved, SameRequest
    <2>4. x.method = "POST" /\ x.epoch = faults.restarts /\ ~ x.read /\ (x.keeps => x.body # << >>)
      BY <1>1, <2>1 DEF ExchangeOK, AtMock
    <2>5. x.keeps => "id" \in DOMAIN y.answer /\ y.answer["id"] = y.id
      BY <2>1, <2>4, NewItemHasId
    <2>6. ASSUME NEW at, at = <<x.path[1], x.id>> PROVE Left(d, at)'
      <3>1. Made(y)
        BY <2>3, <2>4, <2>5 DEF Made, SameRequest
      <3>2. at = <<y.path[1], y.id>> /\ y.epoch = faults'.restarts /\ y.at \notin AtMock /\ ~ y.read
        BY <1>2, <1>3, <2>1, <2>3, <2>4, <2>6 DEF SameRequest, AtMock
      <3>3. MadeBy(exchanges[d], at)'
        BY <3>1, <3>2 DEF MadeBy, Made
      <3> QED BY <3>2, <3>3 DEF Left
    <2>7. ASSUME NEW at \in Standing PROVE \E e \in DOMAIN exchanges' : Left(e, at)'
      <3>1. ~ Deleting(x, at) /\ x.at \in AtMock
        BY <2>1 DEF Deleting, AtMock
      <3> QED BY <1>4, <2>2, <3>1
    <2>8. ASSUME NEW at \in Standing' PROVE \E e \in DOMAIN exchanges' : Left(e, at)'
      BY <1>3, <2>2, <2>6, <2>7
    <2> QED BY <2>8 DEF LeftOK
  <1> QED BY <1>5, <1>7, <1>8, <1>9, <1>10 DEF ThreadStep

\* A run that is done with a step leaves its excuse, or something still to come.
LEMMA LeftGoes ==
  ASSUME TypeOK, TypeOK', KeptOK', AimOK', mock' = mock, faults'.restarts = faults.restarts,
         NEW c \in Clients, GoesTo(runs[c], runs'[c]), HasStep(runs[c]),
         \A b \in Clients : b # c => runs'[b] = runs[b],
         runs[c].phase = "cleanup" => runs'[c].vars = runs[c].vars,
         runs[c].waiting # 0 \/ StepOf(runs[c]).method \notin runs[c].w.methods,
         DOMAIN exchanges' = DOMAIN exchanges,
         \A i \in DOMAIN exchanges :
           LET x == exchanges[i]
               y == exchanges'[i]
           IN  /\ SameRequest(x, y) /\ y.id = x.id /\ y.answer = x.answer /\ y.at = x.at
               /\ y.read => x.read \/ (x.client = c /\ (x.keeps => runs[c].phase = "running")),
         NEW at, NEW e \in DOMAIN exchanges, Left(e, at)
  PROVE  Left(e, at)'
  <1> DEFINE x == exchanges[e]
             y == exchanges'[e]
             r == runs[x.client]
             s == runs'[x.client]
  <1>1. MadeBy(x, at) /\ (x.read => Excused(r, x) \/ Coming(r, at))
    BY DEF Left
  <1>2. /\ SameRequest(x, y) /\ y.id = x.id /\ y.answer = x.answer /\ y.at = x.at
        /\ y.read => x.read \/ (x.client = c /\ (x.keeps => runs[c].phase = "running"))
    OBVIOUS
  <1>3. MadeBy(exchanges[e], at)'
    BY <1>1, <1>2, MadeStill DEF MadeBy
  <1>4. y.client = x.client /\ y.keeps = x.keeps /\ y.path = x.path /\ y.method = x.method /\ x.client \in Clients
    BY <1>2 DEF SameRequest, TypeOK, ExchangesOK, IsExchange
  <1>5. \A k \in DOMAIN exchanges : Deleting(exchanges[k], at) => Deleting(exchanges'[k], at)
    BY DEF Deleting, SameRequest
  <1>6. s.w = r.w
    BY <1>4 DEF GoesTo
  <1> SUFFICES ASSUME y.read, ~ Excused(runs[exchanges[e].client], exchanges[e])'
               PROVE  Coming(runs[exchanges[e].client], at)'
    BY <1>3 DEF Left
  <1>7. x.keeps /\ ~ (mock.count > RateLimitAfter) /\ IncompleteCleanup(r.w) = {} /\ ~ Overwrites(r.w)
        /\ s.phase # "raised"
    BY <1>4, <1>6 DEF Excused
  <1>8. CASE x.client # c
    <2>1. s = r /\ x.read
      BY <1>2, <1>4, <1>8
    <2>2. Coming(r, at)
      BY <1>1, <1>7, <2>1 DEF Excused
    <2> QED BY <1>4, <1>5, <2>1, <2>2 DEF Coming
  <1>9. CASE x.client = c /\ r.phase = "running"
    <2>1. Made(y) /\ at = <<y.path[1], y.id>>
      BY <1>1, <1>2, <1>4 DEF MadeBy, Made
    <2>2. Knows(s, y)
      BY <1>4, <1>6, <1>7, <2>1 DEF KeptOK
    <2>3. IsRun(s) /\ CleanupAims(s.w) /\ DOMAIN s.vars \subseteq Placeholders
      <3>1. RunsOK'
        BY DEF TypeOK
      <3> QED BY <1>4, <3>1 DEF RunsOK, AimOK
    <2>4. s.phase = "running" \/ (Reached(at) /\ s.phase = "cleanup" /\ WillDelete(s, at))
      BY <1>6, <1>7, <1>9, <2>1, <2>2, <2>3, LeavesFor DEF Made
    <2> QED BY <1>4, <2>4 DEF Coming
  <1>10. CASE x.client = c /\ r.phase = "cleanup"
    <2>1. Coming(r, at)
      BY <1>1, <1>2, <1>7, <1>10 DEF Excused
    <2>2. CASE Reached(at) /\ \E k \in DOMAIN exchanges : Deleting(exchanges[k], at)
      BY <1>5, <2>2 DEF Coming
    <2>3. CASE Reached(at) /\ WillDelete(r, at)
      <3>1. IsRun(r)
        BY <1>4 DEF TypeOK, RunsOK
      <3>2. s.phase = "cleanup" /\ WillDelete(s, at)
        BY <1>10, <2>3, <3>1, PassesOn
      <3> QED BY <1>4, <2>3, <3>2 DEF Coming
    <2> QED BY <1>10, <2>1, <2>2, <2>3 DEF Coming
  <1> QED BY <1>8, <1>9, <1>10 DEF HasStep

\* No run at all changes what it comes to but by what it sends.
LEMMA LeftSends ==
  ASSUME TypeOK, EachOK, mock' = mock, faults'.restarts = faults.restarts,
         NEW c \in Clients, HasStep(runs[c]), runs[c].waiting = 0, runs'[c].w = runs[c].w,
         \A b \in Clients : b # c => runs'[b] = runs[b],
         \A i \in DOMAIN exchanges : i \in DOMAIN exchanges' /\ exchanges'[i] = exchanges[i],
         \/ runs'[c].phase = "raised"
         \/ /\ runs'[c].phase = runs[c].phase /\ runs'[c].pc = runs[c].pc /\ runs'[c].vars = runs[c].vars
            /\ \E n \in DOMAIN exchanges' : WaitsFor(runs[c], exchanges'[n]) /\ exchanges'[n].at = "admit",
         NEW at, NEW e \in DOMAIN exchanges, Left(e, at)
  PROVE  Left(e, at)'
  <1> DEFINE x == exchanges[e]
             r == runs[x.client]
             s == runs'[x.client]
  <1>1. MadeBy(x, at) /\ (x.read => Excused(r, x) \/ Coming(r, at))
    BY DEF Left
  <1>2. e \in DOMAIN exchanges' /\ exchanges'[e] = x /\ x.client \in Clients
    BY DEF TypeOK, ExchangesOK, IsExchange
  <1>3. MadeBy(exchanges[e], at)'
    BY <1>1, <1>2, MadeStill DEF MadeBy, SameRequest
  <1>4. s.w = r.w
    BY <1>2
  <1> SUFFICES ASSUME x.read, ~ Excused(runs[exchanges[e].client], exchanges[e])'
               PROVE  Coming(runs[exchanges[e].client], at)'
    BY <1>2, <1>3 DEF Left
  <1>5. x.keeps /\ ~ (mock.count > RateLimitAfter) /\ IncompleteCleanup(r.w) = {} /\ ~ Overwrites(r.w)
        /\ s.phase # "raised"
    BY <1>2, <1>4 DEF Excused
  <1>6. Coming(r, at)
    <2>1. r.phase # "raised"
      BY <1>2, <1>5 DEF HasStep
    <2> QED BY <1>1, <1>5, <2>1 DEF Excused
  <1>7. CASE Reached(at) /\ \E k \in DOMAIN exchanges : Deleting(exchanges[k], at)
    BY <1>7 DEF Coming
  <1>8. CASE x.client # c
    BY <1>2, <1>6, <1>7, <1>8 DEF Coming
  <1>9. CASE x.client = c /\ r.phase = "running"
    BY <1>2, <1>5, <1>9 DEF Coming
  <1>10. CASE x.client = c /\ r.phase = "cleanup" /\ Reached(at) /\ WillDelete(r, at)
    <2>1. PICK k \in DOMAIN r.w.cleanup :
            /\ k > r.pc \/ (k = r.pc /\ r.waiting = 0)
            /\ r.w.cleanup[k].method = "DELETE" /\ "DELETE" \in r.w.methods
            /\ DeepSubstitute(r.w.cleanup[k].path, r.vars) = at
      BY <1>10 DEF WillDelete
    <2>2. s.phase = r.phase /\ s.pc = r.pc /\ s.vars = r.vars
      BY <1>5, <1>10
    <2>3. CASE k > r.pc
      <3>1. WillDelete(s, at)
        BY <1>4, <2>1, <2>2, <2>3 DEF WillDelete
      <3> QED BY <1>2, <1>10, <2>2, <3>1 DEF Coming
    <2>4. CASE k = r.pc
      <3>1. PICK n \in DOMAIN exchanges' : WaitsFor(r, exchanges'[n]) /\ exchanges'[n].at = "admit"
        BY <1>5, <1>10
      <3>2. StepOf(r) = r.w.cleanup[k]
        BY <1>10, <2>4 DEF StepOf, Current
      <3>3. Deleting(exchanges'[n], at)
        BY <2>1, <3>1, <3>2 DEF WaitsFor, Deleting
      <3> QED BY <1>10, <3>3 DEF Coming
    <2> QED BY <2>1, <2>3, <2>4
  <1> QED BY <1>6, <1>7, <1>8, <1>9, <1>10 DEF Coming

LEMMA LeftStart ==
  ASSUME LeftInv, NEW c \in Clients, Start(c)
  PROVE  LeftInv'
  <1>1. LeftBase' /\ KeptOK' /\ \A e \in DOMAIN exchanges : exchanges[e].client # c
    BY BaseStart DEF LeftInv
  <1>2. TypeOK /\ LeftOK
    BY DEF LeftInv, LeftBase
  <1>3. UNCHANGED <<exchanges, mock, faults>> /\ \A d \in Clients : d # c => runs'[d] = runs[d]
    BY <1>2, StartIs DEF GoesOn
  <1>4. \A e \in DOMAIN exchanges : runs'[exchanges[e].client] = runs[exchanges[e].client]
    BY <1>1, <1>2, <1>3 DEF TypeOK, ExchangesOK, IsExchange
  <1>5. ASSUME NEW at, NEW e \in DOMAIN exchanges, Left(e, at) PROVE Left(e, at)'
    BY <1>3, <1>4, <1>5 DEF Left, MadeBy, Excused, Coming
  <1>6. LeftOK'
    BY <1>2, <1>3, <1>5 DEF LeftOK, Standing
  <1> QED BY <1>1, <1>6 DEF LeftInv

LEMMA LeftSend ==
  ASSUME LeftInv, NEW c \in Clients, Send(c)
  PROVE  LeftInv'
  <1> DEFINE r == runs[c]
             s == runs'[c]
  <1>1. LeftBase' /\ KeptOK'
    BY BaseSend DEF LeftInv
  <1>2. TypeOK /\ EachOK /\ LeftOK /\ TypeOK' /\ AimOK'
    BY <1>1 DEF LeftInv, LeftBase
  <1>3. /\ GoesOn(c, s) /\ UNCHANGED <<mock, capture, faults>> /\ HasStep(r) /\ r.waiting = 0 /\ s.vars = r.vars
    BY <1>2, SendIs
  <1>4. s.w = r.w /\ \A d \in Clients : d # c => runs'[d] = runs[d]
    BY <1>3 DEF GoesOn
  <1>5. \/ exchanges' = exchanges /\ StepOf(r).method \notin r.w.methods /\ GoesTo(r, s)
        \/ exchanges' = exchanges /\ s.phase = "raised"
        \/ /\ \E x : Fresh(c, x) /\ WaitsFor(r, x) /\ exchanges' = Append(exchanges, x)
           /\ s.phase = r.phase /\ s.pc = r.pc
    BY <1>2, SendGoes
  <1>6. ASSUME NEW at, NEW e \in DOMAIN exchanges, Left(e, at) PROVE e \in DOMAIN exchanges' /\ Left(e, at)'
    <2>1. CASE exchanges' = exchanges /\ StepOf(r).method \notin r.w.methods /\ GoesTo(r, s)
      <3>1. \A i \in DOMAIN exchanges :
              LET x == exchanges[i]
                  y == exchanges'[i]
              IN  /\ SameRequest(x, y) /\ y.id = x.id /\ y.answer = x.answer /\ y.at = x.at
                  /\ y.read => x.read \/ (x.client = c /\ (x.keeps => r.phase = "running"))
        BY <2>1 DEF SameRequest
      <3> QED BY <1>1, <1>2, <1>3, <1>4, <1>6, <2>1, <3>1, LeftGoes
    <2>2. CASE exchanges' = exchanges /\ s.phase = "raised"
      BY <1>2, <1>3, <1>4, <1>6, <2>2, LeftSends
    <2>3. ASSUME NEW x, Fresh(c, x), WaitsFor(r, x), exchanges' = Append(exchanges, x),
                 s.phase = r.phase, s.pc = r.pc
          PROVE  e \in DOMAIN exchanges' /\ Left(e, at)'
      <3>1. PICK n : n = Len(exchanges) + 1
        OBVIOUS
      <3>2. /\ DOMAIN exchanges = 1..Len(exchanges) /\ Len(exchanges) \in Nat /\ DOMAIN exchanges' = 1..n
            /\ exchanges'[n] = x /\ \A i \in DOMAIN exchanges : exchanges'[i] = exchanges[i]
        BY <1>2, <2>3, <3>1, SentIs DEF TypeOK, Fresh
      <3>3. n \in DOMAIN exchanges' /\ \A i \in DOMAIN exchanges : i \in DOMAIN exchanges'
        BY <3>1, <3>2
      <3>4. x.at = "admit"
        BY <2>3 DEF Fresh
      <3>5. \E m \in DOMAIN exchanges' : WaitsFor(r, exchanges'[m]) /\ exchanges'[m].at = "admit"
        BY <2>3, <3>2, <3>3, <3>4
      <3> QED BY <1>2, <1>3, <1>4, <1>6, <2>3, <3>2, <3>3, <3>5, LeftSends
    <2> QED BY <1>5, <2>1, <2>2, <2>3
  <1>7. LeftOK'
    BY <1>2, <1>3, <1>6 DEF LeftOK, Standing
  <1> QED BY <1>1, <1>7 DEF LeftInv

LEMMA LeftEvaluate ==
  ASSUME LeftInv, NEW c \in Clients, Evaluate(c)
  PROVE  LeftInv'
  <1>1. LeftBase' /\ KeptOK'
    BY BaseEvaluate DEF LeftInv
  <1>2. TypeOK /\ WaitOK /\ AimOK /\ LeftOK /\ TypeOK' /\ AimOK'
    BY <1>1 DEF LeftInv, LeftBase
  <1>3. PICK k : k = runs[c].waiting
    OBVIOUS
  <1>4. /\ GoesOn(c, runs'[c]) /\ UNCHANGED <<mock, capture, faults>> /\ HasStep(runs[c])
        /\ k \in DOMAIN exchanges /\ Moved(k, exchanges'[k])
        /\ exchanges'[k].at = exchanges[k].at /\ exchanges'[k].id = exchanges[k].id
        /\ exchanges'[k].answer = exchanges[k].answer
        /\ runs[c].phase # "running" => runs'[c].vars = runs[c].vars
    BY <1>2, <1>3, EvaluateIs
  <1>5. GoesTo(runs[c], runs'[c]) /\ k # 0 /\ exchanges'[k].keeps = exchanges[k].keeps
    BY <1>2, <1>3, EvaluateGoes
  <1>6. \A d \in Clients : d # c => runs'[d] = runs[d]
    BY <1>4 DEF GoesOn
  <1>7. exchanges[k].client = c /\ (exchanges[k].keeps => runs[c].phase = "running")
    <2>1. exchanges[k].client = c /\ WaitsFor(runs[c], exchanges[k])
      BY <1>2, <1>3, <1>5 DEF WaitOK
    <2>2. IsRun(runs[c]) /\ CleanupAims(runs[c].w)
      BY <1>2 DEF TypeOK, RunsOK, AimOK
    <2> QED BY <2>1, <2>2, SentToKeep
  <1>8. DOMAIN exchanges' = DOMAIN exchanges
    BY <1>4 DEF Moved
  <1>9. ASSUME NEW i \in DOMAIN exchanges
        PROVE  LET x == exchanges[i]
                   y == exchanges'[i]
               IN  /\ SameRequest(x, y) /\ y.id = x.id /\ y.answer = x.answer /\ y.at = x.at
                   /\ y.read => x.read \/ (x.client = c /\ (x.keeps => runs[c].phase = "running"))
    <2>1. CASE i = k
      BY <1>4, <1>5, <1>7, <2>1 DEF Moved, SameRequest
    <2>2. CASE i # k
      <3>1. exchanges'[i] = exchanges[i]
        BY <1>4, <2>2 DEF Moved
      <3> QED BY <3>1 DEF SameRequest
    <2> QED BY <2>1, <2>2
  <1>10. ASSUME NEW at, NEW e \in DOMAIN exchanges, Left(e, at) PROVE Left(e, at)'
    <2>1. runs[c].waiting # 0
      BY <1>3, <1>5
    <2> QED BY <1>1, <1>2, <1>4, <1>5, <1>6, <1>8, <1>9, <1>10, <2>1, LeftGoes
  <1>11. LeftOK'
    BY <1>2, <1>4, <1>8, <1>10 DEF LeftOK, Standing
  <1> QED BY <1>1, <1>11 DEF LeftInv

LEMMA LeftTimeOut ==
  ASSUME LeftInv, NEW c \in Clients, TimeOut(c)
  PROVE  LeftInv'
  <1>1. LeftBase' /\ KeptOK'
    BY BaseTimeOut DEF LeftInv
  <1>2. TypeOK /\ LeftOK /\ TypeOK' /\ AimOK'
    BY <1>1 DEF LeftInv, LeftBase
  <1>3. /\ GoesOn(c, runs'[c]) /\ UNCHANGED <<exchanges, mock, capture>> /\ HasStep(runs[c])
        /\ runs'[c].vars = runs[c].vars /\ faults'.restarts = faults.restarts
    BY <1>2, TimeOutIs
  <1>4. GoesTo(runs[c], runs'[c]) /\ runs[c].waiting # 0
    BY <1>2, TimeOutGoes
  <1>5. \A d \in Clients : d # c => runs'[d] = runs[d]
    BY <1>3 DEF GoesOn
  <1>6. \A i \in DOMAIN exchanges :
          LET x == exchanges[i]
              y == exchanges'[i]
          IN  /\ SameRequest(x, y) /\ y.id = x.id /\ y.answer = x.answer /\ y.at = x.at
              /\ y.read => x.read \/ (x.client = c /\ (x.keeps => runs[c].phase = "running"))
    BY <1>3 DEF SameRequest
  <1>7. ASSUME NEW at, NEW e \in DOMAIN exchanges, Left(e, at) PROVE Left(e, at)'
    BY <1>1, <1>2, <1>3, <1>4, <1>5, <1>6, <1>7, LeftGoes
  <1>8. LeftOK'
    BY <1>2, <1>3, <1>7 DEF LeftOK, Standing
  <1> QED BY <1>1, <1>8 DEF LeftInv

LEMMA LeftStep == ASSUME LeftInv, [Next]_vars PROVE LeftInv'
  <1>1. CASE UNCHANGED vars
    <2>1. TypeOK'
      BY <1>1, TypeStays DEF LeftInv, LeftBase
    <2>2. EachOK' /\ StoreOK' /\ WaitOK' /\ AimOK' /\ KeptOK'
      BY <1>1 DEF vars, LeftInv, LeftBase, EachOK, ExchangeOK, StoreOK, WaitOK, AimOK, KeptOK
    <2>3. LeftOK'
      BY <1>1 DEF vars, LeftInv, LeftOK, Left, MadeBy, Excused, Coming, Standing
    <2> QED BY <2>1, <2>2, <2>3 DEF LeftInv, LeftBase
  <1>2. ASSUME NEW c \in Clients, Start(c) \/ Send(c) \/ Evaluate(c) \/ TimeOut(c) PROVE LeftInv'
    BY <1>2, LeftStart, LeftSend, LeftEvaluate, LeftTimeOut
  <1>3. ASSUME NEW e \in DOMAIN exchanges, ThreadStep(e) PROVE LeftInv'
    BY <1>3, BaseThread, LeftAfterThread DEF LeftInv
  <1>4. CASE Restart
    <2>1. mock' = FreshMock
      BY <1>4, RestartIs DEF LeftInv, LeftBase
    <2>2. DOMAIN mock'.store = {}
      BY <2>1 DEF FreshMock
    <2> QED BY <1>4, <2>2, BaseRestart DEF LeftInv, LeftOK, Standing
  <1> QED BY <1>1, <1>2, <1>3, <1>4 DEF Next, ThreadStep

(* What the runs leave at the mock is explained, whatever the number of      *)
(* commands, manifests and operations, whatever times out or restarts and      *)
(* wherever a thread stops between its steps, an update between its read and    *)
(* its write-back included: if the cleanups aim at what the steps make, then    *)
(* what the mock still answers for once everything has ended was given up on,  *)
(* raised past, refused over the rate limit, not kept, warned about or written  *)
(* over.                                                                       *)
THEOREM LeftoversExplained ==
  ASSUME CleanupsAim
  PROVE  Spec => []LeftoversAreExplained
  <1>1. Init => LeftInv
    <2> SUFFICES ASSUME Init PROVE LeftInv
      OBVIOUS
    <2>1. TypeOK
      BY TypeBegins
    <2>2. exchanges = << >> /\ mock = FreshMock
      BY DEF Init
    <2>3. DOMAIN exchanges = {} /\ mock.count \in Nat /\ DOMAIN mock.store = {}
      BY <2>2 DEF FreshMock
    <2>4. PICK job \in Jobs : \A c \in Clients :
            runs[c].w = job[c].w /\ runs[c].vars = job[c].inputs /\ runs[c].waiting = 0
      BY DEF Init
    <2>5. AimOK /\ WaitOK
      BY <2>4 DEF AimOK, WaitOK, CleanupsAim
    <2>6. EachOK /\ StoreOK /\ KeptOK /\ LeftOK
      BY <2>3 DEF EachOK, StoreOK, KeptOK, LeftOK, Standing
    <2> QED BY <2>1, <2>5, <2>6 DEF LeftInv, LeftBase
  <1>2. LeftInv /\ [Next]_vars => LeftInv'
    BY LeftStep
  <1>3. LeftInv => LeftoversAreExplained
    <2> SUFFICES ASSUME LeftInv, Quiescent, NEW at \in Standing
                 PROVE  \E e \in StoredBy(at) :
                          LET x == exchanges[e]
                              w == runs[x.client].w
                          IN  \/ ~ x.read \/ ~ x.keeps
                              \/ runs[x.client].phase = "raised" \/ mock.count > RateLimitAfter
                              \/ IncompleteCleanup(w) # {} \/ Overwrites(w)
      BY DEF LeftoversAreExplained
    <2>1. PICK e \in DOMAIN exchanges : Left(e, at)
      BY DEF LeftInv, LeftOK
    <2> DEFINE x == exchanges[e]
               r == runs[x.client]
    <2>2. MadeBy(x, at) /\ (x.read => Excused(r, x) \/ Coming(r, at))
      BY <2>1 DEF Left
    <2>3. e \in StoredBy(at)
      BY <2>2 DEF MadeBy, StoredBy
    <2>4. ~ Coming(r, at)
      <3>1. r.phase \notin {"running", "cleanup"}
        BY DEF Quiescent, Ended, LeftInv, LeftBase, TypeOK, ExchangesOK, IsExchange
      <3>2. \A d \in DOMAIN exchanges : exchanges[d].at = "answered"
        BY DEF Quiescent, Open
      <3> QED BY <3>1, <3>2 DEF Coming, Deleting
    <2> QED BY <2>2, <2>3, <2>4 DEF Excused
  <1> QED BY <1>1, <1>2, <1>3, PTL DEF Spec

-------------------------------------------------------------------------------
(* The replay of a corpus. *)

\* State k + 1 of f is what entry k + 1 makes of state k.
Follows(f, m, entries) ==
  /\ f[0] = m
  /\ \A k \in 1..Len(entries) :
       f[k] = Serve(f[k - 1], entries[k].method, entries[k].path, RedactBody(entries[k].body))

\* Whatever follows the entries ends where the replay ends.
LEMMA ReplayIs ==
  ASSUME NEW entries, Len(entries) \in Nat, NEW m, NEW f, Follows(f, m, entries)
  PROVE  Replay(m, entries) = f[Len(entries)]
  <1> DEFINE n == Len(entries)
             Then(prev, k) == Serve(prev, entries[k].method, entries[k].path, RedactBody(entries[k].body))
             IsAfter(g) == g = [k \in 0..n |-> IF k = 0 THEN m ELSE Then(g[k - 1], k)]
             after == CHOOSE g : IsAfter(g)
             h == [k \in 0..n |-> f[k]]
  <1>1. Replay(m, entries) = after[n]
    BY DEF Replay
  <1>2. f[0] = m /\ \A k \in 1..n : f[k] = Then(f[k - 1], k)
    BY DEF Follows
  <1> HIDE DEF Then
  <1>3. ASSUME NEW k \in 0..n PROVE h[k] = IF k = 0 THEN m ELSE Then(h[k - 1], k)
    <2>1. CASE k = 0
      BY <1>2, <2>1
    <2>2. CASE k # 0
      <3>1. k \in 1..n /\ k - 1 \in 0..n
        BY <2>2
      <3>2. h[k - 1] = f[k - 1] /\ h[k] = f[k]
        BY <3>1
      <3> QED BY <1>2, <2>2, <3>1, <3>2
    <2> QED BY <2>1, <2>2
  <1>4. IsAfter(h)
    <2>1. h = [k \in 0..n |-> h[k]]
      OBVIOUS
    <2> HIDE DEF h
    <2> QED BY <1>3, <2>1
  <1>5. IsAfter(after)
    <2> HIDE DEF IsAfter, h
    <2> QED BY <1>4
  <1>6. ASSUME NEW k \in 0..n PROVE after[k] = IF k = 0 THEN m ELSE Then(after[k - 1], k)
    <2> HIDE DEF after
    <2> QED BY <1>5
  <1> DEFINE Wrong == {k \in 0..n : after[k] # f[k]}
  <1> HIDE DEF after, h, IsAfter
  <1>7. Wrong = {}
    <2> SUFFICES ASSUME Wrong # {} PROVE FALSE
      OBVIOUS
    <2>1. Wrong \in SUBSET Nat
      OBVIOUS
    <2>2. PICK k \in Wrong : \A j \in Wrong : k <= j
      <3> HIDE DEF Wrong
      <3> QED BY <2>1, Least
    <2>3. k \in 0..n /\ after[k] # f[k]
      OBVIOUS
    <2>4. k # 0
      BY <1>2, <1>6, <2>3
    <2>5. k \in 1..n /\ k - 1 \in 0..n /\ ~ (k <= k - 1)
      BY <2>3, <2>4
    <2>6. after[k - 1] = f[k - 1]
      BY <2>2, <2>5
    <2>7. after[k] = Then(after[k - 1], k)
      BY <1>6, <2>4, <2>5
    <2> QED BY <1>2, <2>3, <2>5, <2>6, <2>7
  <1>8. n \in 0..n
    OBVIOUS
  <1> QED BY <1>1, <1>7, <1>8

(* Redaction. *)

LEMMA RedactMerge ==
  ASSUME NEW f, NEW g
  PROVE  RedactBody(Merge(f, g)) = Merge(RedactBody(f), RedactBody(g))
  <1> DEFINE a == RedactBody(Merge(f, g))
             b == Merge(RedactBody(f), RedactBody(g))
  <1>1. DOMAIN RedactBody(f) = DOMAIN f /\ DOMAIN RedactBody(g) = DOMAIN g
    BY DEF RedactBody
  <1>2. DOMAIN a = DOMAIN f \cup DOMAIN g /\ DOMAIN b = DOMAIN f \cup DOMAIN g
    BY <1>1 DEF RedactBody, Merge
  <1>3. ASSUME NEW x \in DOMAIN f \cup DOMAIN g PROVE a[x] = b[x]
    BY <1>1 DEF RedactBody, Merge
  <1>4. a = [x \in DOMAIN a |-> a[x]] /\ b = [x \in DOMAIN b |-> b[x]]
    BY DEF RedactBody, Merge
  <1> HIDE DEF a, b
  <1> QED BY <1>2, <1>3, <1>4 DEF a, b

LEMMA RedactTwice ==
  ASSUME NEW f
  PROVE  RedactBody(RedactBody(f)) = RedactBody(f)
  BY DEF RedactBody

\* Of what is hidden, only what the mock itself put there is in an item.
Hidden(item, id) == \A f \in DOMAIN item \cap SensitiveFields : item[f] \in {Redacted, "gen", id}

LEMMA HiddenMerge ==
  ASSUME NEW f, NEW g, NEW id, Hidden(f, id), Hidden(g, id)
  PROVE  Hidden(Merge(f, g), id)
  BY DEF Hidden, Merge

LEMMA HiddenRedacted == ASSUME NEW f, NEW id PROVE Hidden(RedactBody(f), id)
  BY DEF Hidden, RedactBody

LEMMA HiddenMade ==
  ASSUME NEW id, NEW op
  PROVE  Hidden([id |-> id], id) /\ Hidden(Generated(op), id) /\ Hidden(<< >>, id)
  BY DEF Hidden, Generated

(* Two mocks that differ by what was redacted. *)

Rebuilt(m, n) ==
  /\ DOMAIN m = DOMAIN FreshMock /\ DOMAIN n = DOMAIN FreshMock
  /\ n.count = m.count /\ n.next = m.next /\ n.deleted = m.deleted
  /\ DOMAIN n.store = DOMAIN m.store
  /\ \A at \in DOMAIN m.store :
       RedactBody(n.store[at]) = RedactBody(m.store[at]) /\ Hidden(n.store[at], at[2])

\* Body b is sent for body a.
Stands(b, a) == RedactBody(b) = RedactBody(a) /\ (\A id : Hidden(b, id)) /\ (a = << >> <=> b = << >>)

LEMMA RebuiltRefusal ==
  ASSUME NEW m, NEW n, Rebuilt(m, n), NEW method, NEW path
  PROVE  Refusal(m, method, path) = Refusal(n, method, path)
  BY DEF Rebuilt, Refusal, IsGone

LEMMA RebuiltCounted ==
  ASSUME NEW m, NEW n, Rebuilt(m, n)
  PROVE  Rebuilt([m EXCEPT !.count = @ + 1], [n EXCEPT !.count = @ + 1])
  BY DEF Rebuilt, FreshMock

LEMMA RebuiltDeleted ==
  ASSUME NEW m, NEW n, Rebuilt(m, n), NEW method, NEW op, NEW path
  PROVE  Rebuilt(Deleted(m, method, op, path), Deleted(n, method, op, path))
  <1> DEFINE at == Address(path)
             Gone(k) == [k EXCEPT !.store = Without(@, at), !.deleted = @ \cup {at}]
  <1>1. CASE method = "DELETE" /\ Templated(op)
    <2>1. Deleted(m, method, op, path) = Gone(m) /\ Deleted(n, method, op, path) = Gone(n)
      BY <1>1 DEF Deleted
    <2> HIDE DEF at
    <2>2. /\ DOMAIN Gone(m) = DOMAIN m /\ Gone(m).count = m.count /\ Gone(m).next = m.next
          /\ Gone(m).deleted = m.deleted \cup {at} /\ Gone(m).store = Without(m.store, at)
      BY DEF Rebuilt, FreshMock
    <2>3. /\ DOMAIN Gone(n) = DOMAIN n /\ Gone(n).count = n.count /\ Gone(n).next = n.next
          /\ Gone(n).deleted = n.deleted \cup {at} /\ Gone(n).store = Without(n.store, at)
      BY DEF Rebuilt, FreshMock
    <2> HIDE DEF Gone
    <2>4. Rebuilt(Gone(m), Gone(n))
      BY <2>2, <2>3 DEF Rebuilt, Without
    <2> QED BY <2>1, <2>4
  <1>2. CASE ~ (method = "DELETE" /\ Templated(op))
    BY <1>2 DEF Deleted
  <1> QED BY <1>1, <1>2

LEMMA RebuiltUpdate ==
  ASSUME NEW m, NEW n, Rebuilt(m, n), NEW method, NEW op, NEW path, NEW a, NEW b, Stands(b, a),
         Updates(m, method, op, path)
  PROVE  Rebuilt(WriteBack(m, path, Updated(m, method, path, a)), WriteBack(n, path, Updated(n, method, path, b)))
  <1> DEFINE at == Address(path)
             base(k) == IF method = "PATCH" THEN k.store[at] ELSE << >>
             ma == Updated(m, method, path, a)
             nb == Updated(n, method, path, b)
             Changed(k, item) == [k EXCEPT !.store = Merge(@, [j \in {at} |-> item])]
  <1>1. DOMAIN n.store = DOMAIN m.store /\ at \in DOMAIN m.store
    BY DEF Rebuilt, Updates
  <1>2. RedactBody(base(n)) = RedactBody(base(m)) /\ Hidden(base(n), at[2])
    BY <1>1, HiddenMade DEF Rebuilt
  <1>3. ma = Merge(Merge(base(m), a), [id |-> at[2]]) /\ nb = Merge(Merge(base(n), b), [id |-> at[2]])
    BY DEF Updated
  <1>4. WriteBack(m, path, ma) = Changed(m, ma) /\ WriteBack(n, path, nb) = Changed(n, nb)
    BY DEF WriteBack
  <1> HIDE DEF at, base, ma, nb
  <1>5. RedactBody(nb) = RedactBody(ma)
    <2>1. RedactBody(b) = RedactBody(a)
      BY DEF Stands
    <2> QED BY <1>2, <1>3, <2>1, RedactMerge
  <1>6. Hidden(nb, at[2])
    <2>1. Hidden(b, at[2]) /\ Hidden([id |-> at[2]], at[2])
      BY HiddenMade DEF Stands
    <2>2. Hidden(Merge(base(n), b), at[2])
      BY <1>2, <2>1, HiddenMerge
    <2> QED BY <1>3, <2>1, <2>2, HiddenMerge
  <1> DEFINE oa == [j \in {at} |-> ma]
             ob == [j \in {at} |-> nb]
  <1>7. DOMAIN oa = {at} /\ oa[at] = ma /\ DOMAIN ob = {at} /\ ob[at] = nb
    OBVIOUS
  <1>8. Changed(m, ma).store = Merge(m.store, oa) /\ Changed(n, nb).store = Merge(n.store, ob)
    BY DEF Rebuilt, FreshMock
  <1>9. /\ DOMAIN Changed(m, ma) = DOMAIN m /\ Changed(m, ma).count = m.count
        /\ Changed(m, ma).next = m.next /\ Changed(m, ma).deleted = m.deleted
        /\ DOMAIN Changed(n, nb) = DOMAIN n /\ Changed(n, nb).count = n.count
        /\ Changed(n, nb).next = n.next /\ Changed(n, nb).deleted = n.deleted
    BY DEF Rebuilt, FreshMock
  <1> HIDE DEF oa, ob, Changed
  <1>10. /\ DOMAIN Changed(m, ma).store = DOMAIN m.store
         /\ \A k \in DOMAIN m.store : Changed(m, ma).store[k] = IF k = at THEN ma ELSE m.store[k]
    BY <1>1, <1>7, <1>8 DEF Merge
  <1>11. /\ DOMAIN Changed(n, nb).store = DOMAIN n.store
         /\ \A k \in DOMAIN n.store : Changed(n, nb).store[k] = IF k = at THEN nb ELSE n.store[k]
    BY <1>1, <1>7, <1>8 DEF Merge
  <1>12. Rebuilt(Changed(m, ma), Changed(n, nb))
    BY <1>5, <1>6, <1>9, <1>10, <1>11 DEF Rebuilt
  <1> QED BY <1>4, <1>12 DEF ma, nb

LEMMA RebuiltApply ==
  ASSUME NEW m, NEW n, Rebuilt(m, n), NEW method, NEW op, NEW path, NEW b,
         ~ Updates(m, method, op, path)
  PROVE  Rebuilt(Deleted(m, method, op, path), ApplyState(n, method, op, path, b))
  <1>1. ~ Updates(n, method, op, path)
    BY DEF Rebuilt, Updates
  <1> QED BY <1>1, RebuiltDeleted DEF ApplyState

LEMMA RebuiltStore ==
  ASSUME NEW m, NEW n, Rebuilt(m, n), NEW op, NEW path, NEW a, NEW b, Stands(b, a), NEW id
  PROVE  Rebuilt(StoreNew(m, op, path, a, id), StoreNew(n, op, path, b, id))
  <1> DEFINE at == <<path[1], id>>
  <1>2. RedactBody(NewItem(op, b, id)) = RedactBody(NewItem(op, a, id)) /\ Hidden(NewItem(op, b, id), id)
    <2>1. CASE a = << >>
      <3>1. b = << >>
        BY <2>1 DEF Stands
      <3>2. NewItem(op, a, id) = NewItem(op, b, id) /\ NewItem(op, b, id) = Merge([id |-> id], Generated(op))
        BY <2>1, <3>1 DEF NewItem
      <3>3. Hidden(Merge([id |-> id], Generated(op)), id)
        BY HiddenMade, HiddenMerge
      <3> QED BY <3>2, <3>3
    <2>2. CASE a # << >>
      <3>1. b # << >> /\ RedactBody(b) = RedactBody(a) /\ Hidden(b, id)
        BY <2>2 DEF Stands
      <3>2. /\ NewItem(op, a, id) = Merge(Merge(Generated(op), a), [id |-> id])
            /\ NewItem(op, b, id) = Merge(Merge(Generated(op), b), [id |-> id])
        BY <2>2, <3>1 DEF NewItem
      <3>3. Hidden(Merge(Generated(op), b), id)
        BY <3>1, HiddenMade, HiddenMerge
      <3>4. Hidden(Merge(Merge(Generated(op), b), [id |-> id]), id)
        BY <3>3, HiddenMade, HiddenMerge
      <3>5. RedactBody(NewItem(op, b, id)) = RedactBody(NewItem(op, a, id))
        BY <3>1, <3>2, RedactMerge
      <3> QED BY <3>2, <3>4, <3>5
    <2> QED BY <2>1, <2>2
  <1>3. at[2] = id
    OBVIOUS
  <1> DEFINE ma == NewItem(op, a, id)
             nb == NewItem(op, b, id)
             oa == [j \in {at} |-> ma]
             ob == [j \in {at} |-> nb]
             New(k, one) == [k EXCEPT !.next = @ + 1, !.deleted = @ \ {at}, !.store = Merge(@, one)]
  <1>1. StoreNew(m, op, path, a, id) = New(m, oa) /\ StoreNew(n, op, path, b, id) = New(n, ob)
    BY DEF StoreNew
  <1>9. RedactBody(nb) = RedactBody(ma) /\ Hidden(nb, at[2])
    BY <1>2, <1>3
  <1> HIDE DEF at, ma, nb
  <1>4. DOMAIN oa = {at} /\ oa[at] = ma /\ DOMAIN ob = {at} /\ ob[at] = nb
    OBVIOUS
  <1> HIDE DEF oa, ob
  <1>5. /\ DOMAIN New(m, oa) = DOMAIN m /\ New(m, oa).count = m.count /\ New(m, oa).next = m.next + 1
        /\ New(m, oa).deleted = m.deleted \ {at} /\ New(m, oa).store = Merge(m.store, oa)
    BY DEF Rebuilt, FreshMock
  <1>6. /\ DOMAIN New(n, ob) = DOMAIN n /\ New(n, ob).count = n.count /\ New(n, ob).next = n.next + 1
        /\ New(n, ob).deleted = n.deleted \ {at} /\ New(n, ob).store = Merge(n.store, ob)
    BY DEF Rebuilt, FreshMock
  <1> HIDE DEF New
  <1>7. /\ DOMAIN New(m, oa).store = DOMAIN m.store \cup {at}
        /\ \A k \in DOMAIN m.store \cup {at} : New(m, oa).store[k] = IF k = at THEN ma ELSE m.store[k]
    BY <1>4, <1>5 DEF Merge
  <1>8. /\ DOMAIN New(n, ob).store = DOMAIN n.store \cup {at}
        /\ \A k \in DOMAIN n.store \cup {at} : New(n, ob).store[k] = IF k = at THEN nb ELSE n.store[k]
    BY <1>4, <1>6 DEF Merge
  <1>10. Rebuilt(New(m, oa), New(n, ob))
    BY <1>5, <1>6, <1>7, <1>8, <1>9 DEF Rebuilt
  <1> QED BY <1>1, <1>10

(* One exchange, at the mock and in the replay. *)

Counted(m) == [m EXCEPT !.count = @ + 1]
\* The body a replay sends for exchange x.
SentAgain(x) == RedactBody(Entry(x).body)
Again(n, x) == Serve(n, x.method, x.path, SentAgain(x))
AppliedAgain(n, x) == ApplyState(Counted(n), x.method, OpOf(x), x.path, SentAgain(x))

IsBody(body) == body = [i \in DOMAIN body |-> body[i]]

\* The mock is m with x at hand, and n is what the replay makes of all before x.
Between(m, n, x) ==
  /\ x.at = "admit" => Rebuilt(m, n)
  /\ x.at = "update" =>
       /\ Refusal(Counted(n), x.method, x.path) = 0
       /\ Rebuilt(m, Counted(n)) /\ Updates(m, x.method, OpOf(x), x.path)
       /\ x.answer = Updated(m, x.method, x.path, x.body)
  /\ x.at \in {"build", "store"} =>
       /\ Refusal(Counted(n), x.method, x.path) = 0
       /\ Rebuilt(m, AppliedAgain(n, x))
  /\ x.at = "store" => Creates(x.method, OpOf(x)) /\ x.id = ToString(m.next)
  /\ x.at \in {"record", "append"} => Rebuilt(m, Again(n, x))

LEMMA SentStands ==
  ASSUME NEW x, IsBody(x.body)
  PROVE  Stands(SentAgain(x), x.body)
  <1> DEFINE a == x.body
             b == RedactBody(a)
  <1>1. SentAgain(x) = b
    BY RedactTwice DEF SentAgain, Entry
  <1>2. RedactBody(b) = RedactBody(a) /\ \A id : Hidden(b, id)
    BY RedactTwice, HiddenRedacted
  <1>3. DOMAIN b = DOMAIN a /\ b = [i \in DOMAIN b |-> b[i]]
    BY DEF RedactBody
  <1>4. ASSUME NEW g, g = [i \in DOMAIN g |-> g[i]] PROVE g = << >> <=> DOMAIN g = {}
    OBVIOUS
  <1>5. a = << >> <=> b = << >>
    <2> HIDE DEF b
    <2> QED BY <1>3, <1>4 DEF IsBody
  <1> QED BY <1>1, <1>2, <1>5 DEF Stands

LEMMA ServedAgain ==
  ASSUME NEW n, NEW x
  PROVE  /\ Refusal(Counted(n), x.method, x.path) # 0 => Again(n, x) = Counted(n)
         /\ Refusal(Counted(n), x.method, x.path) = 0 =>
              Again(n, x) = IF Creates(x.method, OpOf(x))
                            THEN StoreNew(AppliedAgain(n, x), OpOf(x), x.path, SentAgain(x),
                                          ToString(AppliedAgain(n, x).next))
                            ELSE AppliedAgain(n, x)
  BY DEF Again, Serve, Counted, AppliedAgain, OpOf

LEMMA BetweenAdmit ==
  ASSUME TypeOK, NEW e \in DOMAIN exchanges, Admit(e), NEW n, IsBody(exchanges[e].body),
         Between(mock, n, exchanges[e])
  PROVE  Between(mock', n, exchanges'[e])
  <1> DEFINE x == exchanges[e]
             y == exchanges'[e]
             m == Counted(mock)
  <1>1. /\ x.at = "admit" /\ y.at \in {"record", "update", "build"}
        /\ y.at = "record" <=> Refusal(m, x.method, x.path) # 0
        /\ y.at = "update" => Updates(mock, x.method, OpOf(x), x.path)
                               /\ y.answer = Updated(mock, x.method, x.path, x.body)
        /\ y.at = "build" => ~ Updates(mock, x.method, OpOf(x), x.path)
    BY AdmitIs DEF Counted
  <1>2. mock' = IF Refusal(m, x.method, x.path) # 0 THEN m ELSE Deleted(m, x.method, OpOf(x), x.path)
    BY DEF Admit, Counted
  <1>3. y.method = x.method /\ y.path = x.path /\ y.body = x.body
    BY AdmitIs DEF Moved
  <1>4. Rebuilt(m, Counted(n))
    BY <1>1, RebuiltCounted DEF Between, Counted
  <1>5. Refusal(Counted(n), x.method, x.path) = Refusal(m, x.method, x.path)
    BY <1>4, RebuiltRefusal
  <1>6. OpOf(y) = OpOf(x) /\ SentAgain(y) = SentAgain(x)
    BY <1>3 DEF OpOf, SentAgain, Entry
  <1>7. AppliedAgain(n, y) = AppliedAgain(n, x) /\ Again(n, y) = Again(n, x)
    BY <1>3, <1>6 DEF AppliedAgain, Again
  <1>8. /\ Updates(m, x.method, OpOf(x), x.path) = Updates(mock, x.method, OpOf(x), x.path)
        /\ Updated(m, x.method, x.path, x.body) = Updated(mock, x.method, x.path, x.body)
    <2>1. m.store = mock.store
      BY DEF Counted, TypeOK, MockOK
    <2> HIDE DEF m
    <2> QED BY <2>1 DEF Updates, Updated
  <1> HIDE DEF m
  <1>9. CASE y.at = "record"
    BY <1>1, <1>2, <1>4, <1>5, <1>7, <1>9, ServedAgain DEF Between
  <1>10. CASE y.at = "update"
    <2>1. mock' = m
      BY <1>1, <1>2, <1>10 DEF Updates, Deleted
    <2>2. /\ Refusal(Counted(n), y.method, y.path) = 0 /\ Updates(m, y.method, OpOf(y), y.path)
          /\ y.answer = Updated(m, y.method, y.path, y.body)
      BY <1>1, <1>3, <1>5, <1>6, <1>8, <1>10
    <2> QED BY <1>4, <1>10, <2>1, <2>2 DEF Between
  <1>11. CASE y.at = "build"
    <2>1. Rebuilt(mock', AppliedAgain(n, x))
      BY <1>1, <1>2, <1>4, <1>8, <1>11, RebuiltApply DEF AppliedAgain
    <2> QED BY <1>1, <1>3, <1>5, <1>7, <1>11, <2>1 DEF Between
  <1> QED BY <1>1, <1>9, <1>10, <1>11

LEMMA BetweenUpdate ==
  ASSUME TypeOK, NEW e \in DOMAIN exchanges, Update(e), NEW n, IsBody(exchanges[e].body),
         Between(mock, n, exchanges[e])
  PROVE  Between(mock', n, exchanges'[e])
  <1> DEFINE x == exchanges[e]
             y == exchanges'[e]
             again == SentAgain(x)
  <1>1. /\ x.at = "update" /\ y.at = "build" /\ mock' = WriteBack(mock, x.path, x.answer)
        /\ y.method = x.method /\ y.path = x.path /\ y.body = x.body
    BY UpdateIs DEF Moved
  <1>2. /\ Refusal(Counted(n), x.method, x.path) = 0
        /\ Rebuilt(mock, Counted(n)) /\ Updates(mock, x.method, OpOf(x), x.path)
        /\ x.answer = Updated(mock, x.method, x.path, x.body)
    BY <1>1 DEF Between
  <1>3. Stands(again, x.body)
    BY SentStands
  <1>4. Rebuilt(mock', WriteBack(Counted(n), x.path, Updated(Counted(n), x.method, x.path, again)))
    <2> HIDE DEF again
    <2> QED BY <1>1, <1>2, <1>3, RebuiltUpdate
  <1>5. Updates(Counted(n), x.method, OpOf(x), x.path)
    BY <1>2 DEF Rebuilt, Updates
  <1>6. Rebuilt(mock', AppliedAgain(n, x))
    BY <1>4, <1>5 DEF AppliedAgain, ApplyState
  <1>7. AppliedAgain(n, y) = AppliedAgain(n, x)
    BY <1>1 DEF AppliedAgain, SentAgain, Entry, OpOf
  <1> QED BY <1>1, <1>2, <1>6, <1>7 DEF Between

LEMMA BetweenBuild ==
  ASSUME NEW e \in DOMAIN exchanges, Build(e), NEW n,
         Between(mock, n, exchanges[e]), Moved(e, exchanges'[e])
  PROVE  Between(mock', n, exchanges'[e])
  <1> DEFINE x == exchanges[e]
             y == exchanges'[e]
  <1>1. /\ x.at = "build" /\ mock' = mock
        /\ y = IF Creates(x.method, OpOf(x)) THEN [x EXCEPT !.at = "store", !.id = ToString(mock.next)]
               ELSE [x EXCEPT !.at = "record", !.answer = BuildBody(mock, x.method, OpOf(x), x.path)]
    BY DEF Build, Moves
  <1>2. y.method = x.method /\ y.path = x.path /\ y.body = x.body /\ DOMAIN y = ExchangeFields
    BY DEF Moved, ExchangesOK, IsExchange
  <1>3. OpOf(y) = OpOf(x) /\ SentAgain(y) = SentAgain(x)
    BY <1>2 DEF OpOf, SentAgain, Entry
  <1>4. AppliedAgain(n, y) = AppliedAgain(n, x) /\ Again(n, y) = Again(n, x)
    BY <1>2, <1>3 DEF AppliedAgain, Again
  <1>5. Refusal(Counted(n), x.method, x.path) = 0 /\ Rebuilt(mock, AppliedAgain(n, x))
    BY <1>1 DEF Between
  <1>6. CASE Creates(x.method, OpOf(x))
    <2>1. y.at = "store" /\ y.id = ToString(mock.next)
      <3>1. DOMAIN x = DOMAIN y
        BY <1>1
      <3> QED BY <1>1, <1>2, <1>6, <3>1 DEF ExchangeFields
    <2> QED BY <1>1, <1>2, <1>3, <1>4, <1>5, <1>6, <2>1 DEF Between
  <1>7. CASE ~ Creates(x.method, OpOf(x))
    <2>1. y.at = "record"
      <3>1. DOMAIN x = DOMAIN y
        BY <1>1
      <3> QED BY <1>1, <1>2, <1>7, <3>1 DEF ExchangeFields
    <2>2. Again(n, x) = AppliedAgain(n, x)
      BY <1>5, <1>7, ServedAgain
    <2> QED BY <1>1, <1>4, <1>5, <2>1, <2>2 DEF Between
  <1> QED BY <1>6, <1>7

LEMMA BetweenStore ==
  ASSUME TypeOK, NEW e \in DOMAIN exchanges, Store(e), NEW n, IsBody(exchanges[e].body),
         Between(mock, n, exchanges[e])
  PROVE  Between(mock', n, exchanges'[e])
  <1> DEFINE x == exchanges[e]
             y == exchanges'[e]
             applied == AppliedAgain(n, x)
  <1>1. /\ x.at = "store" /\ y.at = "record" /\ Moved(e, y)
        /\ mock' = StoreNew(mock, OpOf(x), x.path, x.body, x.id)
    BY StoredIs
  <1>2. y.method = x.method /\ y.path = x.path /\ y.body = x.body
    BY <1>1 DEF Moved
  <1>3. Again(n, y) = Again(n, x)
    BY <1>2 DEF Again, SentAgain, Entry
  <1>4. /\ Refusal(Counted(n), x.method, x.path) = 0 /\ Rebuilt(mock, applied)
        /\ Creates(x.method, OpOf(x)) /\ x.id = ToString(mock.next)
    BY <1>1 DEF Between
  <1>5. applied.next = mock.next
    BY <1>4 DEF Rebuilt
  <1>6. Again(n, x) = StoreNew(applied, OpOf(x), x.path, SentAgain(x), x.id)
    BY <1>4, <1>5, ServedAgain
  <1>7. Rebuilt(mock', Again(n, x))
    <2> HIDE DEF applied
    <2> QED BY <1>1, <1>4, <1>6, SentStands, RebuiltStore
  <1> QED BY <1>1, <1>3, <1>7 DEF Between

LEMMA BetweenRecord ==
  ASSUME NEW m, NEW n, NEW x, NEW y, x.at \in {"record", "append"}, y.at \in {"record", "append"},
         y.method = x.method, y.path = x.path, y.body = x.body, Between(m, n, x)
  PROVE  Between(m, n, y)
  <1>1. Again(n, y) = Again(n, x)
    BY DEF Again, SentAgain, Entry
  <1> QED BY <1>1 DEF Between

(* What the corpus holds, replayed, is what the mock was when it was recorded. *)

Unbroken == Sequential /\ faults.restarts = 0 /\ capture.afterLimit = 0
BodiesOK == \A e \in DOMAIN exchanges : IsBody(exchanges[e].body)

\* f is a replay of the corpus, and the mock is where it ends, but for the exchange at hand.
InStep(f) ==
  /\ Follows(f, FreshMock, capture.entries)
  /\ Open = {} => Rebuilt(mock, f[Len(capture.entries)])
  /\ \A e \in Open : Between(mock, f[Len(capture.entries)], exchanges[e])
ReplayOK == Unbroken => \E f : InStep(f)

\* An exchange about to be appended to a corpus of one request after the other has its room.
LimitOK ==
  Sequential => /\ Len(capture.entries) <= MaxEntries
                /\ Appending # {} => Len(capture.entries) < MaxEntries

ReplayInv == TypeOK /\ BesideOK /\ BodiesOK /\ ReplayOK /\ LimitOK

LEMMA OneOpen ==
  ASSUME TypeOK, BesideOK, Sequential, NEW e \in Open, NEW g \in Open
  PROVE  e = g
  <1>1. DOMAIN exchanges = 1..Len(exchanges) /\ Len(exchanges) \in Nat
    BY DEF TypeOK, ExchangesOK
  <1>2. e \in DOMAIN exchanges /\ g \in DOMAIN exchanges
    BY DEF Open
  <1>3. e < g \/ g < e \/ e = g
    BY <1>1, <1>2
  <1>4. ~ (e < g) /\ ~ (g < e)
    BY <1>1, <1>2 DEF BesideOK, Sequential, Open
  <1> QED BY <1>3, <1>4

\* A step that leaves the requests, the mock and the corpus alone.
LEMMA ReplayStays ==
  ASSUME ReplayInv, TypeOK', UNCHANGED <<exchanges, mock, capture>>, faults'.restarts = faults.restarts
  PROVE  ReplayInv'
  <1>1. BesideOK' /\ BodiesOK'
    BY DEF ReplayInv, BesideOK, BodiesOK
  <1>2. ReplayOK'
    BY DEF ReplayInv, ReplayOK, Unbroken, Sequential, InStep, Open
  <1>3. LimitOK'
    BY DEF ReplayInv, LimitOK, Sequential, Appending
  <1> QED BY <1>1, <1>2, <1>3 DEF ReplayInv

\* An exchange goes on.
LEMMA KeptBeside ==
  ASSUME ReplayInv, NEW e \in DOMAIN exchanges, Moved(e, exchanges'[e]),
         exchanges[e].at = "answered" => exchanges'[e].at = "answered"
  PROVE  /\ BesideOK' /\ BodiesOK' /\ Sequential' = Sequential
         /\ Open' = (Open \ {e}) \cup (IF exchanges'[e].at = "answered" THEN {} ELSE {e})
         /\ Appending' = (Appending \ {e}) \cup (IF exchanges'[e].at = "append" THEN {e} ELSE {})
  <1>1. DOMAIN exchanges = 1..Len(exchanges) /\ Len(exchanges) \in Nat /\ DOMAIN exchanges' = DOMAIN exchanges
    BY DEF ReplayInv, TypeOK, ExchangesOK, Moved
  <1>2. \A i \in DOMAIN exchanges :
          /\ exchanges'[i].beside = exchanges[i].beside /\ exchanges'[i].body = exchanges[i].body
          /\ exchanges[i].at = "answered" => exchanges'[i].at = "answered"
    BY DEF Moved
  <1>3. BesideOK'
    BY <1>1, <1>2 DEF ReplayInv, BesideOK
  <1>4. BodiesOK'
    BY <1>1, <1>2 DEF ReplayInv, BodiesOK
  <1>5. Sequential' = Sequential
    BY <1>1, <1>2 DEF Sequential
  <1>6. Open' = (Open \ {e}) \cup (IF exchanges'[e].at = "answered" THEN {} ELSE {e})
    BY <1>1 DEF Open, Moved
  <1>7. Appending' = (Appending \ {e}) \cup (IF exchanges'[e].at = "append" THEN {e} ELSE {})
    BY <1>1 DEF Appending, Moved
  <1> QED BY <1>3, <1>4, <1>5, <1>6, <1>7

LEMMA ReplayMoves ==
  ASSUME ReplayInv, TypeOK', NEW e \in DOMAIN exchanges, Moved(e, exchanges'[e]),
         exchanges[e].at # "answered", exchanges'[e].at # "answered",
         faults'.restarts = faults.restarts, capture'.entries = capture.entries,
         capture'.afterLimit = capture.afterLimit,
         exchanges'[e].at = "append" => Len(capture.entries) < MaxEntries,
         \A n : Between(mock, n, exchanges[e]) => Between(mock', n, exchanges'[e])
  PROVE  ReplayInv'
  <1>1. BesideOK' /\ BodiesOK' /\ Sequential' = Sequential /\ Open' = Open /\ e \in Open
    BY KeptBeside DEF Open
  <1>2. ReplayOK'
    <2> SUFFICES ASSUME Unbroken' PROVE (\E f : InStep(f))'
      BY DEF ReplayOK
    <2>1. Unbroken
      BY <1>1 DEF Unbroken
    <2>2. PICK f : InStep(f)
      BY <2>1 DEF ReplayInv, ReplayOK
    <2>3. \A g \in Open : g = e
      BY <1>1, <2>1, OneOpen DEF ReplayInv, Unbroken
    <2>4. Between(mock', f[Len(capture.entries)], exchanges'[e])
      BY <1>1, <2>2 DEF InStep
    <2>5. Follows(f, FreshMock, capture'.entries)
      BY <2>2 DEF InStep
    <2>6. InStep(f)'
      BY <1>1, <2>3, <2>4, <2>5 DEF InStep, Between
    <2> QED BY <2>6
  <1>3. LimitOK'
    <2>1. Appending' = (Appending \ {e}) \cup (IF exchanges'[e].at = "append" THEN {e} ELSE {})
      BY KeptBeside
    <2> QED BY <1>1, <2>1 DEF ReplayInv, LimitOK
  <1> QED BY <1>1, <1>2, <1>3 DEF ReplayInv

LEMMA ReplayEvaluate ==
  ASSUME ReplayInv, NEW c \in Clients, Evaluate(c)
  PROVE  ReplayInv'
  <1> DEFINE e == runs[c].waiting
  <1>1. /\ TypeOK' /\ UNCHANGED <<mock, capture, faults>> /\ e \in DOMAIN exchanges /\ exchanges[e].at = "answered"
        /\ Moved(e, exchanges'[e]) /\ exchanges'[e].at = exchanges[e].at
    BY EvaluateIs DEF ReplayInv
  <1> HIDE DEF e
  <1>2. BesideOK' /\ BodiesOK' /\ Sequential' = Sequential /\ Open' = Open
    BY <1>1, KeptBeside DEF Open
  <1>3. \A i \in Open : exchanges'[i] = exchanges[i]
    BY <1>1 DEF Moved, Open
  <1>4. ReplayOK'
    BY <1>1, <1>2, <1>3 DEF ReplayInv, ReplayOK, Unbroken, InStep
  <1>5. LimitOK'
    <2>1. Appending' \subseteq Appending
      BY <1>1, KeptBeside
    <2> QED BY <1>1, <1>2, <2>1 DEF ReplayInv, LimitOK
  <1> QED BY <1>1, <1>2, <1>4, <1>5 DEF ReplayInv

LEMMA ReplaySend ==
  ASSUME ReplayInv, NEW c \in Clients, Send(c)
  PROVE  ReplayInv'
  <1>1. TypeOK' /\ UNCHANGED <<mock, capture, faults>>
    BY SendIs DEF ReplayInv
  <1>2. CASE UNCHANGED exchanges
    BY <1>1, <1>2, ReplayStays
  <1>3. CASE exchanges' # exchanges
    <2> DEFINE n == Len(exchanges)
    <2>1. PICK x : Fresh(c, x) /\ exchanges' = Append(exchanges, x)
      BY <1>3, SendIs DEF ReplayInv
    <2>2. /\ DOMAIN exchanges = 1..n /\ n \in Nat /\ DOMAIN exchanges' = 1..(n + 1)
          /\ exchanges'[n + 1] = x /\ \A i \in DOMAIN exchanges : exchanges'[i] = exchanges[i]
      BY <2>1, SentIs DEF ReplayInv, TypeOK, Fresh
    <2> HIDE DEF n
    <2>3. x.at = "admit" /\ x.beside = Open /\ IsBody(x.body)
      BY <2>1 DEF Fresh, IsBody, DeepSubstitute
    <2>4. Open' = Open \cup {n + 1} /\ n + 1 \notin DOMAIN exchanges
      BY <2>2, <2>3 DEF Open
    <2>5. BesideOK'
      <3> SUFFICES ASSUME NEW g \in DOMAIN exchanges', NEW e \in 1..(g - 1)
                   PROVE  e \in exchanges'[g].beside \/ exchanges'[e].at = "answered"
        BY DEF BesideOK
      <3>1. CASE g \in DOMAIN exchanges
        <4>1. e \in DOMAIN exchanges
          BY <2>2, <3>1
        <4> QED BY <2>2, <3>1, <4>1 DEF ReplayInv, BesideOK
      <3>2. CASE g = n + 1
        <4>1. e \in DOMAIN exchanges
          BY <2>2, <3>2
        <4> QED BY <2>2, <2>3, <3>2, <4>1 DEF Open
      <3> QED BY <2>2, <3>1, <3>2
    <2>6. BodiesOK'
      BY <2>2, <2>3 DEF ReplayInv, BodiesOK
    <2>7. ReplayOK'
      <3> SUFFICES ASSUME Unbroken' PROVE (\E f : InStep(f))'
        BY DEF ReplayOK
      <3>1. Unbroken
        BY <1>1, <2>2 DEF Unbroken, Sequential
      <3>2. Open = {}
        BY <2>2, <2>3 DEF Unbroken, Sequential
      <3>3. PICK f : InStep(f)
        BY <3>1 DEF ReplayInv, ReplayOK
      <3>4. Between(mock, f[Len(capture.entries)], x)
        BY <2>3, <3>2, <3>3 DEF InStep, Between
      <3>5. InStep(f)'
        BY <1>1, <2>2, <2>4, <3>2, <3>3, <3>4 DEF InStep
      <3> QED BY <3>5
    <2>8. LimitOK'
      <3>1. Appending' = Appending
        BY <2>2, <2>3, <2>4 DEF Appending
      <3>2. Sequential' => Sequential
        BY <2>2 DEF Sequential
      <3> QED BY <1>1, <3>1, <3>2 DEF ReplayInv, LimitOK
    <2> QED BY <1>1, <2>5, <2>6, <2>7, <2>8 DEF ReplayInv
  <1> QED BY <1>2, <1>3

\* An exchange that is not recorded breaks the corpus.
LEMMA ReplayRecord ==
  ASSUME ReplayInv, NEW e \in DOMAIN exchanges, Record(e)
  PROVE  ReplayInv'
  <1> DEFINE x == exchanges[e]
             y == exchanges'[e]
  <1>1. /\ TypeOK' /\ UNCHANGED <<mock, faults>> /\ Moved(e, y) /\ x.at = "record"
        /\ capture'.entries = capture.entries
        /\ \/ y.at = "answered" /\ capture'.afterLimit = capture.afterLimit + 1
           \/ /\ y.at = "append" /\ capture'.afterLimit = capture.afterLimit
              /\ Len(capture.entries) < MaxEntries
    BY RecordIs DEF ReplayInv
  <1>2. CASE y.at = "append"
    <2>1. ASSUME NEW n, Between(mock, n, x) PROVE Between(mock', n, y)
      <3>1. y.method = x.method /\ y.path = x.path /\ y.body = x.body
        BY <1>1 DEF Moved
      <3> HIDE DEF x, y
      <3> QED BY <1>1, <1>2, <2>1, <3>1, BetweenRecord
    <2> QED BY <1>1, <1>2, <2>1, ReplayMoves
  <1>3. CASE y.at # "append"
    <2>1. capture'.afterLimit # 0
      BY <1>1, <1>3 DEF ReplayInv, TypeOK, CaptureOK
    <2>2. ReplayOK'
      BY <2>1 DEF ReplayOK, Unbroken
    <2>3. BesideOK' /\ BodiesOK'
      BY <1>1, KeptBeside
    <2>4. LimitOK'
      <3>1. Appending' \subseteq Appending /\ Sequential' = Sequential
        BY <1>1, <1>3, KeptBeside
      <3> QED BY <1>1, <3>1 DEF ReplayInv, LimitOK
    <2> QED BY <1>1, <2>2, <2>3, <2>4 DEF ReplayInv
  <1> QED BY <1>2, <1>3

LEMMA ReplayRestart ==
  ASSUME ReplayInv, Restart
  PROVE  ReplayInv'
  <1>1. /\ TypeOK' /\ faults'.restarts = faults.restarts + 1 /\ DOMAIN exchanges' = DOMAIN exchanges
        /\ \A e \in DOMAIN exchanges :
             /\ exchanges'[e].body = exchanges[e].body /\ exchanges'[e].beside = exchanges[e].beside
             /\ exchanges'[e].at = IF e \in InFlight THEN "answered" ELSE exchanges[e].at
        /\ capture'.entries = capture.entries
    BY RestartIs DEF ReplayInv
  <1>2. DOMAIN exchanges = 1..Len(exchanges) /\ Len(exchanges) \in Nat /\ faults.restarts \in Nat
    BY DEF ReplayInv, TypeOK, ExchangesOK, FaultsOK
  <1>3. BesideOK' /\ BodiesOK'
    BY <1>1, <1>2 DEF ReplayInv, BesideOK, BodiesOK
  <1>4. ReplayOK'
    BY <1>1, <1>2 DEF ReplayOK, Unbroken
  <1>5. LimitOK'
    <2>1. Appending' \subseteq Appending
      BY <1>1 DEF Appending
    <2>2. Sequential' = Sequential
      BY <1>1 DEF Sequential
    <2> QED BY <1>1, <2>1, <2>2 DEF ReplayInv, LimitOK
  <1> QED BY <1>1, <1>3, <1>4, <1>5 DEF ReplayInv

\* The entry appended is the next of the replay.
LEMMA ReplayAppend ==
  ASSUME ReplayInv, NEW e \in DOMAIN exchanges, AppendEntry(e)
  PROVE  ReplayInv'
  <1> DEFINE x == exchanges[e]
             y == exchanges'[e]
             n == Len(capture.entries)
  <1>1. /\ TypeOK' /\ UNCHANGED <<mock, faults>> /\ Moved(e, y) /\ x.at = "append" /\ y.at = "answered"
        /\ capture'.afterLimit = capture.afterLimit
    BY AppendedIs DEF ReplayInv
  <1>2. capture'.entries = Append(capture.entries, Entry(x))
    BY DEF AppendEntry, ReplayInv, TypeOK, CaptureOK
  <1>3. BesideOK' /\ BodiesOK' /\ Sequential' = Sequential /\ Open' = Open \ {e} /\ e \in Open
    BY <1>1, KeptBeside DEF Open
  <1>4. ReplayOK'
    <2> SUFFICES ASSUME Unbroken' PROVE (\E f : InStep(f))'
      BY DEF ReplayOK
    <2>1. Unbroken
      BY <1>1, <1>3 DEF Unbroken
    <2>2. PICK f : InStep(f)
      BY <2>1 DEF ReplayInv, ReplayOK
    <2>3. Open' = {}
      BY <1>3, <2>1, OneOpen DEF ReplayInv, Unbroken
    <2>4. PICK s : s = capture.entries
      OBVIOUS
    <2>5. PICK t : t = Append(s, Entry(x))
      OBVIOUS
    <2>6. PICK k : k = Len(s)
      OBVIOUS
    <2>7. /\ Len(t) = k + 1 /\ k \in Nat /\ t[k + 1] = Entry(x)
          /\ \A i \in 1..k : t[i] = s[i]
      BY <2>4, <2>5, <2>6, AppendIs DEF ReplayInv, TypeOK, CaptureOK
    <2>8. Follows(f, FreshMock, s) /\ Between(mock, f[k], x)
      BY <1>3, <2>2, <2>4, <2>6 DEF InStep
    <2>9. PICK g : g = [i \in 0..(k + 1) |-> IF i = k + 1 THEN Again(f[k], x) ELSE f[i]]
      OBVIOUS
    <2>10. g[k + 1] = Again(f[k], x) /\ \A i \in 0..k : g[i] = f[i]
      BY <2>7, <2>9
    <2>11. Follows(g, FreshMock, t)
      <3>1. g[0] = FreshMock
        BY <2>7, <2>8, <2>10 DEF Follows
      <3>2. ASSUME NEW i \in 1..(k + 1)
            PROVE  g[i] = Serve(g[i - 1], t[i].method, t[i].path, RedactBody(t[i].body))
        <4>1. CASE i = k + 1
          <5>1. g[i - 1] = f[k] /\ t[i] = Entry(x)
            BY <2>7, <2>10, <4>1
          <5>2. Entry(x).method = x.method /\ Entry(x).path = x.path
            BY DEF Entry
          <5> QED BY <2>10, <4>1, <5>1, <5>2 DEF Again, SentAgain
        <4>2. CASE i # k + 1
          <5>1. i \in 1..k /\ i - 1 \in 0..k /\ i \in 0..k
            BY <2>7, <4>2
          <5>2. f[i] = Serve(f[i - 1], s[i].method, s[i].path, RedactBody(s[i].body))
            BY <2>6, <2>8, <5>1 DEF Follows
          <5> QED BY <2>7, <2>10, <5>1, <5>2
        <4> QED BY <4>1, <4>2
      <3> QED BY <2>7, <3>1, <3>2 DEF Follows
    <2>12. Rebuilt(mock, g[k + 1])
      BY <1>1, <2>8, <2>10 DEF Between
    <2>13. capture'.entries = t /\ Len(capture'.entries) = k + 1
      BY <1>2, <2>4, <2>5, <2>7
    <2>14. InStep(g)'
      BY <1>1, <2>3, <2>11, <2>12, <2>13 DEF InStep
    <2> QED BY <2>14
  <1>5. LimitOK'
    <2>1. SUFFICES ASSUME Sequential' PROVE Len(capture'.entries) <= MaxEntries /\ Appending' = {}
      BY DEF LimitOK
    <2>2. Sequential /\ e \in Appending
      BY <1>1, <1>3, <2>1 DEF Appending
    <2>3. Open' = {}
      BY <1>3, <2>2, OneOpen DEF ReplayInv
    <2>4. Appending' = {}
      BY <2>3 DEF Appending, Open
    <2>5. n \in Nat /\ Len(capture'.entries) = n + 1 /\ n < MaxEntries
      BY <1>2, <2>2 DEF ReplayInv, LimitOK, TypeOK, CaptureOK
    <2> QED BY <2>4, <2>5, WorkflowAssumption
  <1> QED BY <1>1, <1>3, <1>4, <1>5 DEF ReplayInv

LEMMA ReplayStep == ASSUME ReplayInv, [Next]_vars PROVE ReplayInv'
  <1>1. TypeOK
    BY DEF ReplayInv
  <1>2. CASE UNCHANGED vars
    <2>1. TypeOK'
      BY <1>1, <1>2, TypeStays
    <2> QED BY <1>2, <2>1, ReplayStays DEF vars
  <1>3. ASSUME NEW c \in Clients, Start(c) \/ TimeOut(c) PROVE ReplayInv'
    <2>1. TypeOK' /\ UNCHANGED <<exchanges, mock, capture>> /\ faults'.restarts = faults.restarts
      BY <1>1, <1>3, StartIs, TimeOutIs
    <2> QED BY <2>1, ReplayStays
  <1>4. ASSUME NEW c \in Clients, Send(c) \/ Evaluate(c) PROVE ReplayInv'
    BY <1>4, ReplaySend, ReplayEvaluate
  <1>5. ASSUME NEW e \in DOMAIN exchanges, Admit(e) \/ Update(e) \/ Build(e) \/ Store(e) PROVE ReplayInv'
    <2>1. /\ TypeOK' /\ UNCHANGED <<capture, faults>> /\ Moved(e, exchanges'[e])
          /\ exchanges[e].at # "answered" /\ exchanges'[e].at \notin {"answered", "append"}
      BY <1>1, <1>5, AdmitIs, UpdateIs, BuildIs, StoredIs
    <2>2. IsBody(exchanges[e].body)
      BY DEF ReplayInv, BodiesOK
    <2>3. ASSUME NEW n, Between(mock, n, exchanges[e]) PROVE Between(mock', n, exchanges'[e])
      BY <1>1, <1>5, <2>1, <2>2, <2>3, BetweenAdmit, BetweenUpdate, BetweenBuild,
         BetweenStore
    <2> QED BY <2>1, <2>3, ReplayMoves
  <1>6. ASSUME NEW e \in DOMAIN exchanges, Record(e) \/ AppendEntry(e) PROVE ReplayInv'
    BY <1>6, ReplayRecord, ReplayAppend
  <1>7. CASE Restart
    BY <1>7, ReplayRestart
  <1> QED BY <1>2, <1>3, <1>4, <1>5, <1>6, <1>7 DEF Next

LEMMA ReplayBegins == Init => ReplayInv
  <1> SUFFICES ASSUME Init PROVE ReplayInv OBVIOUS
  <1>1. exchanges = << >> /\ mock = FreshMock /\ capture.entries = << >>
    BY DEF Init
  <1>2. Open = {} /\ BesideOK /\ BodiesOK
    BY <1>1 DEF Open, BesideOK, BodiesOK
  <1>3. PICK f : f = [k \in {0} |-> FreshMock]
    OBVIOUS
  <1>4. f[0] = FreshMock /\ Len(capture.entries) = 0
    BY <1>1, <1>3
  <1>5. Rebuilt(mock, f[0])
    BY <1>1, <1>4 DEF Rebuilt, FreshMock
  <1>6. Follows(f, FreshMock, capture.entries)
    BY <1>4 DEF Follows
  <1>7. InStep(f)
    BY <1>2, <1>4, <1>5, <1>6 DEF InStep
  <1>8. LimitOK
    <2>1. Appending = {}
      BY <1>1 DEF Appending
    <2> QED BY <1>4, <2>1, WorkflowAssumption DEF LimitOK
  <1> QED BY <1>2, <1>7, <1>8, TypeBegins DEF ReplayInv, ReplayOK

(* Once the mock is at rest, the corpus of a run whose requests never overlapped, *)
(* replayed at a fresh mock, makes the same ids and deletions and the same        *)
(* resources up to what was hidden, and it keeps its limit; however they          *)
(* overlapped it accounts for every exchange, and exceeds the limit by no more     *)
(* than overlapped.  Each entry appended is the next step of the replay, whose     *)
(* mock differs from the recorded one only in values redaction hides.             *)
THEOREM CorpusTold == Spec => []CorpusTellsTheRun
  <1>1. Init => ReplayInv
    BY ReplayBegins
  <1>2. ReplayInv /\ [Next]_vars => ReplayInv'
    BY ReplayStep
  <1>3. ReplayInv => ReplayRebuilds
    <2> SUFFICES ASSUME ReplayInv, Open = {}, Unbroken
                 PROVE  ReplayRebuilds
      BY DEF ReplayRebuilds, Unbroken
    <2> DEFINE again == Replay(FreshMock, capture.entries)
    <2>1. PICK f : InStep(f)
      BY DEF ReplayInv, ReplayOK
    <2>2. Len(capture.entries) \in Nat
      BY DEF ReplayInv, TypeOK, CaptureOK
    <2>3. again = f[Len(capture.entries)]
      BY <2>1, <2>2, ReplayIs DEF InStep
    <2>4. Rebuilt(mock, again)
      BY <2>1, <2>3 DEF InStep
    <2> HIDE DEF again
    <2>5. /\ again.count = mock.count /\ again.next = mock.next /\ again.deleted = mock.deleted
          /\ DOMAIN again.store = DOMAIN mock.store
          /\ \A at \in DOMAIN mock.store :
               /\ RedactBody(again.store[at]) = RedactBody(mock.store[at])
               /\ \A g \in DOMAIN again.store[at] \cap SensitiveFields :
                    again.store[at][g] \in {Redacted, "gen", at[2]}
      BY <2>4 DEF Rebuilt, Hidden
    <2> QED BY <2>5 DEF ReplayRebuilds, again
  <1>6. ReplayInv => CapHoldsAlone
    BY DEF ReplayInv, LimitOK, CapHoldsAlone
  <1>4. Spec => [](CapHoldsAlone /\ ReplayRebuilds)
    BY <1>1, <1>2, <1>3, <1>6, PTL DEF Spec
  <1>5. CorpusAccountsForAll /\ CapHoldsAlone /\ ReplayRebuilds <=> CorpusTellsTheRun
    BY DEF CorpusTellsTheRun
  <1> QED BY <1>4, <1>5, CorpusAccounts, PTL
===============================================================================
