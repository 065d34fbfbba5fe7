---------------------- MODULE PipelineCommands_proofs ----------------------
(* What is proved of the commands side by side, for any constants that satisfy the    *)
(* assumptions of PipelineCommands: of the checks of an MCP server, of the sweep and  *)
(* its digests, of the checks of recordings, of measurements and load runs, of the    *)
(* release gate, and of contracts of several files.  Each part holds in its stage;    *)
(* the theorems say so of the whole.                                                  *)
EXTENDS PipelineCommands, FiniteSetTheorems, SequenceTheorems, WellFoundedInduction, TLAPS

-----------------------------------------------------------------------------
(* What a listing page by page shows of a server that is redeployed meanwhile,  *)
(* for any lists of tools, page size, page cap and number of deploys, and what  *)
(* follows for the two commands that read it.  While nothing is deployed the    *)
(* pages read so far are the beginning of the list.  After one deploy either    *)
(* the first listing is whole, or the second one began after it, and is not     *)
(* capped: the first reached the end of the new list in as many pages.          *)

\* What the caller is shown of the i-th surface, and of the present one.
Shown(i) == Tools!ShownTo(job.credentialed, seen[i])

\* The pages read so far are the beginning of that list.
ReadOf(list) == /\ job.cursor <= Len(list)
                /\ job.read = SubSeq(list, 1, job.cursor)

\* A listing of it reaches its end before the cap.
Fits(list) == Len(list) <= MaxPages * server.pageSize

StateOK == /\ server \in Servers /\ served \in Surfaces
           /\ seen \in Seq(Surfaces)
           /\ job \in Tools!Jobs \cup {None}
           /\ job # None => seen # <<>> /\ seen[Len(seen)] = served

PagesOK == job # None /\ job.phase \in {"probe", "first", "second", "anonymous"} =>
             /\ job.pages < MaxPages
             /\ job.cursor = job.pages * server.pageSize
             /\ job.phase = "probe" => job.cursor = 0 /\ job.pages = 0 /\ job.read = <<>>

FirstOK == job # None /\ job.phase = "first" /\ Len(seen) = 1 => ReadOf(Shown(1))

SecondOK == job # None /\ job.phase = "second" /\ job.exhausted /\ Len(seen) <= 2 =>
              job.first = Shown(1) \/ (Len(seen) = 2 /\ Fits(Shown(2)) /\ ReadOf(Shown(2)))

ListedOK == job # None /\ job.phase \in {"anonymous", "report"} /\ job.exhausted /\ Len(seen) <= 2 =>
              job.first = Shown(1) \/ (Len(seen) = 2 /\ job.second = Shown(2))

CompareOK == job # None /\ job.phase = "compare" /\ job.exhausted /\ Len(seen) = 1 =>
               job.first = Shown(1)

\* A signature is only ever made of what is written down as reviewed.
LockOK == lock # None =>
            /\ lock = [surface |-> lock.surface, tools |-> lock.tools, signature |-> lock.signature]
            /\ lock.signature # None => lock.signature = reviewed

SurfaceInv == /\ StateOK /\ PagesOK /\ FirstOK /\ SecondOK /\ ListedOK /\ CompareOK /\ LockOK
        /\ Tools!MissingIsTrueOrUnstable /\ Tools!LockedMeansReviewed

-------------------------------------------------------------------------------
(* Lists and pages. *)

LEMMA Times ==
  ASSUME NEW k \in Nat, NEW m \in Nat, NEW n \in Nat, m <= n
  PROVE  m * k \in Nat /\ (m + 1) * k = m * k + k /\ m * k <= n * k
  <1>1. PICK d \in Nat : n = m + d
    <2>1. n - m \in Nat /\ n = m + (n - m) OBVIOUS
    <2> QED BY <2>1
  <1>2. n * k = m * k + d * k BY <1>1
  <1>3. d * k \in Nat /\ m * k \in Nat OBVIOUS
  <1> QED BY <1>2, <1>3

LEMMA ShownIsTyped ==
  ASSUME Tools!SurfaceAssumption, NEW tools \in Surfaces, NEW credentialed
  PROVE  Tools!ShownTo(credentialed, tools) \in Seq(Tools!Tools)
  <1>1. tools \in Seq(Tools!Tools) BY DEF Tools!SurfaceAssumption
  <1>2. CASE tools # <<>>
    <2>1. Head(tools) \in Tools!Tools BY <1>1, <1>2, HeadTailProperties
    <2> QED BY <1>1, <2>1 DEF Tools!ShownTo
  <1> QED BY <1>1, <1>2 DEF Tools!ShownTo

LEMMA PageIs ==
  ASSUME Tools!SurfaceAssumption, server \in Servers, NEW list \in Seq(Tools!Tools), NEW cursor \in Nat
  PROVE  LET page == Tools!Page(list, cursor)
             end == cursor + server.pageSize
         IN /\ page.tools \in Seq(Tools!Tools)
            /\ page.next = None => Len(list) <= end
            /\ page.next # None => page.next = end /\ end < Len(list)
            /\ cursor <= Len(list) =>
                 SubSeq(list, 1, cursor) \o page.tools
                   = SubSeq(list, 1, IF page.next = None THEN Len(list) ELSE end)
  <1> DEFINE end == cursor + server.pageSize
             to == IF end < Len(list) THEN end ELSE Len(list)
  <1>1. server.pageSize \in Nat \ {0} /\ end \in Nat /\ Len(list) \in Nat /\ to \in Nat
        /\ to <= Len(list) /\ cursor < end
    BY DEF Tools!SurfaceAssumption
  <1>2. Tools!Page(list, cursor).tools = SubSeq(list, cursor + 1, to)
        /\ Tools!Page(list, cursor).next = (IF end < Len(list) THEN end ELSE None)
    BY DEF Tools!Page
  <1>3. None \notin Nat BY DEF Tools!SurfaceAssumption
  <1>4. to = IF Tools!Page(list, cursor).next = None THEN Len(list) ELSE end BY <1>1, <1>2, <1>3
  <1>5. SubSeq(list, cursor + 1, to) \in Seq(Tools!Tools)
    <2>1. \A i \in (cursor + 1)..to : list[i] \in Tools!Tools BY <1>1, ElementOfSeq
    <2> QED BY <1>1, <2>1, SubSeqProperties
  <1>6. ASSUME cursor <= Len(list)
        PROVE  SubSeq(list, 1, cursor) \o SubSeq(list, cursor + 1, to) = SubSeq(list, 1, to)
    <2>1. cursor <= to BY <1>1, <1>6
    <2> HIDE DEF to
    <2> QED BY <1>1, <1>6, <2>1, ConcatAdjacentSubSeq
  <1> HIDE DEF to, end
  <1>7. Tools!Page(list, cursor).next = None => Len(list) <= end BY <1>1, <1>2, <1>3
  <1>8. Tools!Page(list, cursor).next # None => Tools!Page(list, cursor).next = end /\ end < Len(list)
    BY <1>1, <1>2, <1>3
  <1> QED BY <1>2, <1>4, <1>5, <1>6, <1>7, <1>8 DEF end

(* What a report says. *)

LEMMA CallsTellNothing ==
  ASSUME NEW tool, NEW reply, NEW f \in Tools!ResultFindings(tool, reply)
  PROVE  f.rule # "MCP-DRIFT-TOOL-MISSING"
  <1> DEFINE said == {Tools!Finding("MCP-DRIFT-CALL-ERROR-SHAPE", "WARN", tool),
                      Tools!Finding("MCP-CALL-RESULT-CREDENTIAL", "ERROR", tool),
                      Tools!Finding("MCP-CONF-CALL-CONTENT-BLOCK-UNKNOWN", "WARN", tool),
                      Tools!Finding("MCP-DRIFT-CALL-NO-STRUCTURED-CONTENT", "WARN", tool),
                      Tools!Finding("MCP-DRIFT-CALL-OUTPUT-SCHEMA", "ERROR", tool)}
  <1>1. f \in said BY Zenon DEF Tools!ResultFindings
  <1>2. \A g \in said : g.rule # "MCP-DRIFT-TOOL-MISSING" BY DEF Tools!Finding
  <1> HIDE DEF said
  <1> QED BY <1>1, <1>2

LEMMA MissingIsReported ==
  ASSUME NEW listing, NEW f \in Tools!DriftFindings(listing), f.rule = "MCP-DRIFT-TOOL-MISSING"
  PROVE  listing.exhausted /\ f.tool \in Tools!Names(manifest) \ Tools!Names(listing.first)
  <1>1. f \notin Tools!AuthPosture(listing) BY DEF Tools!AuthPosture, Tools!Finding
  <1>2. f \notin Tools!Conformance(listing.first) BY DEF Tools!Conformance, Tools!Finding
  <1>3. f \notin Tools!Stability(listing.first, listing.second) BY DEF Tools!Stability, Tools!Finding
  <1>4. f \notin Tools!ManifestFindings(listing.first) BY DEF Tools!ManifestFindings, Tools!Finding
  <1>5. f \notin Tools!SchemaDrift(manifest, listing.first) BY DEF Tools!SchemaDrift, Tools!Finding
  <1>6. f \notin Tools!Annotations(manifest, listing.first) BY DEF Tools!Annotations, Tools!Finding
  <1>7. f \in Tools!Presence(manifest, listing.first, listing.exhausted)
    BY <1>1, <1>2, <1>3, <1>4, <1>5, <1>6 DEF Tools!DriftFindings, Tools!Finding
  <1> QED BY <1>7 DEF Tools!Presence, Tools!Finding

\* A name in one listing and not in the other makes the list unstable.
\* Each command counts as everybody does.
LEMMA ToolsCount == \A S : Tools!Cardinality(S) = Cardinality(S)
  BY DEF Tools!Cardinality, Cardinality

LEMMA UnstableIsReported ==
  ASSUME NEW first \in Seq(Tools!Tools), NEW second \in Seq(Tools!Tools),
         NEW n \in Tools!Names(second) \ Tools!Names(first)
  PROVE  Tools!Stability(first, second) = {Tools!Finding("MCP-CONF-LIST-UNSTABLE", "ERROR", None)}
  <1>1. Tools!NameCount(first, n) = 0
    <2>1. n # None BY DEF Tools!Names
    <2>2. {i \in DOMAIN first : first[i].name = n} = {} BY <2>1 DEF Tools!Names
    <2> QED BY <2>2, FS_EmptySet, ToolsCount DEF Tools!NameCount
  <1>2. Tools!NameCount(second, n) # 0
    <2> DEFINE at == {i \in DOMAIN second : second[i].name = n}
    <2>1. DOMAIN second = 1..Len(second) /\ Len(second) \in Nat OBVIOUS
    <2>2. IsFiniteSet(at)
      <3>1. at \subseteq 1..Len(second) BY <2>1
      <3>2. IsFiniteSet(1..Len(second)) BY <2>1, FS_Interval
      <3> QED BY <3>1, <3>2, FS_Subset
    <2>3. at # {} BY DEF Tools!Names
    <2> QED BY <2>2, <2>3, FS_EmptySet, ToolsCount DEF Tools!NameCount
  <1> QED BY <1>1, <1>2 DEF Tools!Stability

-------------------------------------------------------------------------------
(* One action at a time. *)

\* A command that ends in an error told nobody anything.
LEMMA EndIsQuiet ==
  ASSUME NEW kind, NEW exit, exit # "ok", Tools!End(kind, exit, {}, <<>>)
  PROVE  job' = None /\ Tools!MissingIsTrueOrUnstable' /\ Tools!LockedMeansReviewed'
  BY DEF Tools!End, Tools!Answer, Tools!MissingIsTrueOrUnstable, Tools!LockedMeansReviewed

\* What the invariant says of a run in progress, said of one that has ended.
LEMMA Ended ==
  ASSUME StateOK, job' = None, UNCHANGED <<server, served, seen>>
  PROVE  StateOK' /\ PagesOK' /\ FirstOK' /\ SecondOK' /\ ListedOK' /\ CompareOK'
  BY DEF StateOK, PagesOK, FirstOK, SecondOK, ListedOK, CompareOK

\* While a command runs, the promises are about the past.
LEMMA Running ==
  ASSUME job' # None
  PROVE  Tools!MissingIsTrueOrUnstable' /\ Tools!LockedMeansReviewed'
  BY DEF Tools!MissingIsTrueOrUnstable, Tools!LockedMeansReviewed

LEMMA IdleIsTyped ==
  /\ Tools!Idle \in Tools!Jobs /\ Tools!Idle.phase = "first" /\ Tools!Idle.cursor = 0 /\ Tools!Idle.pages = 0 /\ Tools!Idle.read = <<>>
  BY EmptySeq DEF Tools!Idle, Tools!Jobs, Tools!Phases

\* A run starts with nothing read.
LEMMA Started ==
  ASSUME Tools!SurfaceAssumption, SurfaceInv, NEW command \in Tools!Jobs, Tools!Begin(command),
         command.phase \in {"probe", "first"},
         command.cursor = 0 /\ command.pages = 0 /\ command.read = <<>>
  PROVE  SurfaceInv'
  <1>1. job' = command /\ job' # None /\ seen' = <<served>> /\ served \in Surfaces
        /\ server \in Servers
        /\ UNCHANGED <<server, served, lock, reviewed>>
    BY DEF Tools!Begin, Tools!SurfaceAssumption, SurfaceInv, StateOK
  <1>2. seen' \in Seq(Surfaces) /\ seen' # <<>> /\ Len(seen') = 1 /\ seen'[1] = served'
    BY <1>1
  <1>3. StateOK' BY <1>1, <1>2 DEF StateOK
  <1>4. PagesOK'
    <2>1. MaxPages \in Nat \ {0} /\ server.pageSize \in Nat BY <1>1 DEF Tools!SurfaceAssumption
    <2>2. 0 < MaxPages /\ 0 = 0 * server.pageSize BY <2>1
    <2> QED BY <1>1, <2>2 DEF PagesOK
  <1>5. FirstOK'
    <2>1. Tools!ShownTo(job.credentialed, seen[1])' \in Seq(Tools!Tools)
      BY <1>1, <1>2, ShownIsTyped DEF Tools!ShownTo, Tools!Authorized
    <2>2. 0 <= Len(Shown(1)') BY <2>1 DEF Shown
    <2>3. SubSeq(Shown(1)', 1, 0) = <<>> BY SubSeqEmpty
    <2> QED BY <1>1, <2>2, <2>3 DEF FirstOK, ReadOf
  <1>6. SecondOK' /\ ListedOK' /\ CompareOK' BY <1>1 DEF SecondOK, ListedOK, CompareOK
  <1>7. LockOK' BY <1>1 DEF SurfaceInv, LockOK
  <1> QED BY <1>1, <1>3, <1>4, <1>5, <1>6, <1>7, Running DEF SurfaceInv

LEMMA DriftStarts == ASSUME Tools!SurfaceAssumption, SurfaceInv, Tools!StartDrift PROVE SurfaceInv'
  <1>1. PICK credentialed \in BOOLEAN, ask \in Asks :
          Tools!Begin([Tools!Idle EXCEPT !.kind = "drift", !.phase = "probe", !.credentialed = credentialed, !.ask = ask])
    BY DEF Tools!StartDrift
  <1> DEFINE command == [Tools!Idle EXCEPT !.kind = "drift", !.phase = "probe",
                                     !.credentialed = credentialed, !.ask = ask]
  <1>2. command \in Tools!Jobs /\ command.phase = "probe"
        /\ command.cursor = 0 /\ command.pages = 0 /\ command.read = <<>>
    BY IdleIsTyped DEF Tools!Jobs, Tools!Phases
  <1> QED BY <1>1, <1>2, Started

LEMMA LockStarts == ASSUME Tools!SurfaceAssumption, SurfaceInv, Tools!StartLock PROVE SurfaceInv'
  <1>1. PICK action \in {"write", "check"}, credentialed \in BOOLEAN, key \in BOOLEAN,
             sign \in BOOLEAN, force \in BOOLEAN :
          Tools!Begin([Tools!Idle EXCEPT !.action = action, !.credentialed = credentialed, !.key = key,
                             !.sign = sign, !.force = force])
    BY DEF Tools!StartLock
  <1> DEFINE command == [Tools!Idle EXCEPT !.action = action, !.credentialed = credentialed, !.key = key,
                                     !.sign = sign, !.force = force]
  <1>2. command \in Tools!Jobs
    <2> DEFINE a == [Tools!Idle EXCEPT !.action = action]
               b == [a EXCEPT !.credentialed = credentialed]
               c == [b EXCEPT !.key = key]
               d == [c EXCEPT !.sign = sign]
    <2>1. a \in Tools!Jobs BY IdleIsTyped DEF Tools!Jobs
    <2> HIDE DEF a
    <2>2. b \in Tools!Jobs BY <2>1 DEF Tools!Jobs
    <2> HIDE DEF b
    <2>3. c \in Tools!Jobs BY <2>2 DEF Tools!Jobs
    <2> HIDE DEF c
    <2>4. d \in Tools!Jobs BY <2>3 DEF Tools!Jobs
    <2> HIDE DEF d
    <2>5. [d EXCEPT !.force = force] \in Tools!Jobs BY <2>4 DEF Tools!Jobs
    <2> QED BY <2>5 DEF a, b, c, d
  <1>3. command.phase = "first" /\ command.cursor = 0 /\ command.pages = 0 /\ command.read = <<>>
    BY IdleIsTyped DEF Tools!Jobs
  <1> QED BY <1>1, <1>2, <1>3, Started

\* A step of a run that goes on.
LEMMA RunGoesOn ==
  ASSUME Tools!SurfaceAssumption, SurfaceInv, job # None, job' \in Tools!Jobs, UNCHANGED <<server, served, lock, reviewed, seen>>,
         PagesOK', FirstOK', SecondOK', ListedOK', CompareOK'
  PROVE  SurfaceInv'
  <1>1. job' # None BY DEF Tools!SurfaceAssumption
  <1>2. StateOK' BY DEF SurfaceInv, StateOK
  <1>3. LockOK' BY DEF SurfaceInv, LockOK
  <1> QED BY <1>1, <1>2, <1>3, Running DEF SurfaceInv

\* The last step of a run that failed.
LEMMA RunFails ==
  ASSUME SurfaceInv, UNCHANGED <<server, served, lock, reviewed, seen>>,
         NEW kind, NEW exit, exit # "ok", Tools!End(kind, exit, {}, <<>>)
  PROVE  SurfaceInv'
  <1>1. LockOK' BY DEF SurfaceInv, LockOK
  <1> QED BY <1>1, EndIsQuiet, Ended DEF SurfaceInv

LEMMA Probed == ASSUME Tools!SurfaceAssumption, SurfaceInv, Tools!Probe PROVE SurfaceInv'
  <1> USE DEF Tools!Probe
  <1>1. job \in Tools!Jobs /\ job # None /\ job.phase = "probe"
        /\ UNCHANGED <<server, served, lock, reviewed, seen>> BY DEF SurfaceInv, StateOK
  <1>2. CASE job' = [job EXCEPT !.phase = "first", !.legacy = server.discover = "method-not-found"]
    <2>1. /\ job' \in Tools!Jobs /\ job'.phase = "first" /\ job'.credentialed = job.credentialed
          /\ job'.cursor = job.cursor /\ job'.pages = job.pages /\ job'.read = job.read
      BY <1>1, <1>2 DEF Tools!Jobs, Tools!Phases
    <2>2. PagesOK' BY <1>1, <2>1 DEF SurfaceInv, PagesOK
    <2>3. FirstOK'
      <3> SUFFICES ASSUME Len(seen') = 1 PROVE ReadOf(Shown(1))' BY DEF FirstOK
      <3>1. seen' = seen /\ seen[1] \in Surfaces BY <1>1 DEF SurfaceInv, StateOK
      <3>2. Shown(1)' \in Seq(Tools!Tools)
        BY <1>1, <2>1, <3>1, ShownIsTyped DEF Shown, Tools!ShownTo, Tools!Authorized
      <3>3. 0 <= Len(Shown(1)') BY <3>2
      <3>4. SubSeq(Shown(1)', 1, 0) = <<>> BY SubSeqEmpty
      <3>5. job.cursor = 0 /\ job.read = <<>> BY <1>1 DEF SurfaceInv, PagesOK
      <3> QED BY <2>1, <3>3, <3>4, <3>5 DEF ReadOf
    <2>4. SecondOK' /\ ListedOK' /\ CompareOK' BY <2>1 DEF SecondOK, ListedOK, CompareOK
    <2> QED BY <1>1, <2>1, <2>2, <2>3, <2>4, RunGoesOn
  <1>3. CASE Tools!End("drift", "usage", {}, <<>>) BY <1>1, <1>3, RunFails
  <1>4. CASE Tools!End("drift", "unreachable", {}, <<>>) BY <1>1, <1>4, RunFails
  <1>5. CASE Tools!End("drift", "findings", {Tools!Finding("MCP-DRIFT-PROTOCOL-UNSUPPORTED", "ERROR", None)}, <<>>)
    <2>1. job' = None /\ Tools!MissingIsTrueOrUnstable' /\ Tools!LockedMeansReviewed'
      BY <1>5 DEF Tools!End, Tools!Answer, Tools!Finding, Tools!MissingIsTrueOrUnstable, Tools!LockedMeansReviewed
    <2>2. LockOK' BY <1>1 DEF SurfaceInv, LockOK
    <2> QED BY <1>1, <2>1, <2>2, Ended DEF SurfaceInv
  <1> QED BY <1>2, <1>3, <1>4, <1>5

\* The listing without credentials, of which only the end is recorded.
LEMMA AnonymousEnds ==
  ASSUME Tools!SurfaceAssumption, SurfaceInv, job # None, job.phase = "anonymous",
         UNCHANGED <<server, served, lock, reviewed, seen>>,
         job' \in Tools!Jobs, job'.phase = "report",
         UNCHANGED <<job.first, job.second, job.exhausted, job.credentialed>>
  PROVE  SurfaceInv'
  <1>1. PagesOK' /\ FirstOK' /\ SecondOK' /\ CompareOK' BY DEF PagesOK, FirstOK, SecondOK, CompareOK
  <1>2. ListedOK' BY DEF SurfaceInv, ListedOK, Shown, Tools!ShownTo, Tools!Authorized
  <1> QED BY <1>1, <1>2, RunGoesOn

LEMMA ConnectionLost == ASSUME Tools!SurfaceAssumption, SurfaceInv, Tools!LoseConnection PROVE SurfaceInv'
  <1> USE DEF Tools!LoseConnection, Tools!Listing
  <1>1. job \in Tools!Jobs /\ job # None /\ UNCHANGED <<server, served, lock, reviewed, seen>>
    BY DEF SurfaceInv, StateOK
  <1>2. CASE job.phase = "anonymous"
    <2>1. job' = [job EXCEPT !.anonymous = "lost", !.phase = "report"] BY <1>2
    <2>2. /\ job' \in Tools!Jobs /\ job'.phase = "report"
          /\ UNCHANGED <<job.first, job.second, job.exhausted, job.credentialed>>
      BY <1>1, <2>1 DEF Tools!Jobs, Tools!Phases
    <2> QED BY <1>1, <1>2, <2>2, AnonymousEnds
  <1>3. CASE job.phase # "anonymous"
    <2>1. Tools!End(job.kind, "unreachable", {}, <<>>) BY <1>3
    <2> QED BY <1>1, <2>1, RunFails
  <1> QED BY <1>2, <1>3

LEMMA Deployed == ASSUME Tools!SurfaceAssumption, SurfaceInv, Tools!Deploy PROVE SurfaceInv'
  <1>1. PICK tools \in Surfaces : served' = tools
                                  /\ seen' = IF job = None THEN seen ELSE Append(seen, tools)
    BY DEF Tools!Deploy
  <1>2. UNCHANGED <<server, manifest, lock, reviewed, job, answer>> BY DEF Tools!Deploy
  <1>3. LockOK' BY <1>2 DEF SurfaceInv, LockOK
  <1>4. CASE job = None
    <2>1. seen' = seen BY <1>1, <1>4
    <2>2. StateOK' BY <1>1, <1>2, <1>4, <2>1 DEF SurfaceInv, StateOK
    <2>3. PagesOK' /\ FirstOK' /\ SecondOK' /\ ListedOK' /\ CompareOK'
      BY <1>2, <1>4 DEF PagesOK, FirstOK, SecondOK, ListedOK, CompareOK
    <2>4. Tools!MissingIsTrueOrUnstable'
      BY <1>2, <2>1 DEF SurfaceInv, Tools!MissingIsTrueOrUnstable, Tools!Reports, Tools!ShownTo, Tools!Authorized
    <2>5. Tools!LockedMeansReviewed'
      BY <1>2, <2>1 DEF SurfaceInv, Tools!LockedMeansReviewed, Tools!ShownTo, Tools!Authorized
    <2> QED BY <1>3, <2>2, <2>3, <2>4, <2>5 DEF SurfaceInv
  <1>5. CASE job # None
    <2>1. seen' = Append(seen, tools) /\ seen \in Seq(Surfaces) /\ seen # <<>>
      BY <1>1, <1>5 DEF SurfaceInv, StateOK
    <2>2. /\ seen' \in Seq(Surfaces) /\ Len(seen') = Len(seen) + 1 /\ Len(seen) \in Nat
          /\ Len(seen) # 0 /\ seen'[Len(seen')] = tools
          /\ seen' # <<>> /\ \A i \in 1..Len(seen) : seen'[i] = seen[i]
      BY <2>1, AppendProperties
    <2>3. StateOK' BY <1>1, <1>2, <2>2 DEF SurfaceInv, StateOK
    <2>4. PagesOK' BY <1>2 DEF SurfaceInv, PagesOK
    <2>5. FirstOK' /\ CompareOK' BY <2>2 DEF FirstOK, CompareOK
    <2>6. Len(seen') <= 2 => Len(seen) = 1 /\ Shown(1)' = Shown(1)
      <3> SUFFICES ASSUME Len(seen') <= 2 PROVE Len(seen) = 1 /\ Shown(1)' = Shown(1) OBVIOUS
      <3>1. Len(seen) = 1
        <4>1. Len(seen) \in Nat /\ Len(seen) # 0 /\ Len(seen) + 1 <= 2 BY <2>2
        <4>2. \A n \in Nat : n # 0 /\ n + 1 <= 2 => n = 1 OBVIOUS
        <4> QED BY <4>1, <4>2
      <3>2. seen'[1] = seen[1] BY <2>2, <3>1
      <3> QED BY <1>2, <3>1, <3>2 DEF Shown, Tools!ShownTo, Tools!Authorized
    <2>7. SecondOK'
      <3> SUFFICES ASSUME job.phase = "second", job.exhausted, Len(seen') <= 2
                   PROVE  job.first = Shown(1)'
        BY <1>2 DEF SecondOK
      <3>1. Len(seen) = 1 /\ Shown(1)' = Shown(1) BY <2>6
      <3>2. SecondOK BY DEF SurfaceInv
      <3> QED BY <1>5, <3>1, <3>2 DEF SecondOK
    <2>8. ListedOK'
      <3> SUFFICES ASSUME job.phase \in {"anonymous", "report"}, job.exhausted, Len(seen') <= 2
                   PROVE  job.first = Shown(1)'
        BY <1>2 DEF ListedOK
      <3>1. Len(seen) = 1 /\ Shown(1)' = Shown(1) BY <2>6
      <3>2. ListedOK BY DEF SurfaceInv
      <3> QED BY <1>5, <3>1, <3>2 DEF ListedOK
    <2> QED BY <1>2, <1>3, <1>5, <2>3, <2>4, <2>5, <2>7, <2>8, Running DEF SurfaceInv
  <1> QED BY <1>4, <1>5

LEMMA LockEdited == ASSUME SurfaceInv, Tools!EditLock PROVE SurfaceInv'
  <1>1. job = None /\ lock # None
        /\ UNCHANGED <<server, served, manifest, reviewed, job, answer, seen>> BY DEF Tools!EditLock
  <1>2. PICK tools \in Surfaces, signature \in {None, lock.signature} :
          lock' = [lock EXCEPT !.surface = Tools!Surface(tools), !.tools = tools, !.signature = signature]
    BY DEF Tools!EditLock
  <1>3. lock = [surface |-> lock.surface, tools |-> lock.tools, signature |-> lock.signature]
    BY <1>1 DEF SurfaceInv, LockOK
  <1>4. lock' = [surface |-> Tools!Surface(tools), tools |-> tools, signature |-> signature] BY <1>2, <1>3
  <1>5. LockOK' BY <1>1, <1>4 DEF SurfaceInv, LockOK
  <1>6. StateOK' /\ PagesOK' /\ FirstOK' /\ SecondOK' /\ ListedOK' /\ CompareOK'
    BY <1>1, Ended DEF SurfaceInv
  <1>7. Tools!MissingIsTrueOrUnstable'
    BY <1>1 DEF SurfaceInv, Tools!MissingIsTrueOrUnstable, Tools!Reports, Tools!ShownTo, Tools!Authorized
  <1>8. Tools!LockedMeansReviewed'
    BY <1>1 DEF SurfaceInv, Tools!LockedMeansReviewed, Tools!ShownTo, Tools!Authorized
  <1> QED BY <1>5, <1>6, <1>7, <1>8 DEF SurfaceInv

\* A page in the middle of a listing.
LEMMA PageOnTheWay ==
  ASSUME Tools!SurfaceAssumption, SurfaceInv, Tools!Listing, UNCHANGED <<server, served, lock, reviewed, seen>>,
         NEW list, list = Tools!ShownTo(Tools!Presents, served),
         NEW page, page = Tools!Page(list, job.cursor),
         page.next # None, job.pages + 1 # MaxPages,
         job' = [job EXCEPT !.cursor = page.next, !.pages = @ + 1, !.read = job.read \o page.tools]
  PROVE  SurfaceInv'
  <1> DEFINE read == job.read \o page.tools
             end == job.cursor + server.pageSize
  <1>1. job \in Tools!Jobs /\ job # None /\ served \in Surfaces /\ server \in Servers
    BY DEF SurfaceInv, StateOK, Tools!Listing
  <1>2. list \in Seq(Tools!Tools) BY <1>1, ShownIsTyped
  <1>3. /\ page.tools \in Seq(Tools!Tools) /\ page.next = end /\ end < Len(list)
        /\ job.cursor <= Len(list) =>
             SubSeq(list, 1, job.cursor) \o page.tools = SubSeq(list, 1, end)
    <2>1. job.cursor \in Nat BY <1>1 DEF Tools!Jobs
    <2> QED BY <1>1, <1>2, <2>1, PageIs
  <1>4. server.pageSize \in Nat \ {0} /\ MaxPages \in Nat \ {0} BY <1>1 DEF Tools!SurfaceAssumption
  <1>5. job.cursor \in Nat /\ job.pages \in Nat /\ job.read \in Seq(Tools!Tools) /\ end \in Nat
    BY <1>1, <1>4 DEF Tools!Jobs
  <1>6. read \in Seq(Tools!Tools) BY <1>3, <1>5, ConcatProperties
  <1>7. job' = [job EXCEPT !.cursor = end, !.pages = job.pages + 1, !.read = read] BY <1>3
  <1> HIDE DEF read, end
  <1>8. job' \in Tools!Jobs
    <2>1. job.pages + 1 \in Nat BY <1>5
    <2> QED BY <1>1, <1>5, <1>6, <1>7, <2>1, Zenon DEF Tools!Jobs
  <1>9. /\ job'.phase = job.phase /\ job'.cursor = end /\ job'.pages = job.pages + 1 /\ job'.read = read
        /\ job'.first = job.first /\ job'.second = job.second /\ job'.exhausted = job.exhausted
        /\ job'.credentialed = job.credentialed
    BY <1>1, <1>7 DEF Tools!Jobs
  <1>10. job.phase \in {"first", "second", "anonymous"} BY DEF Tools!Listing
  <1>11. PagesOK'
    <2>1. job.pages < MaxPages /\ job.cursor = job.pages * server.pageSize BY <1>1, <1>10 DEF SurfaceInv, PagesOK
    <2>2. job.pages + 1 < MaxPages BY <1>4, <1>5, <2>1
    <2>3. (job.pages + 1) * server.pageSize = job.pages * server.pageSize + server.pageSize
      <3>1. job.pages \in Nat /\ server.pageSize \in Nat /\ job.pages <= job.pages BY <1>4, <1>5
      <3> QED BY <3>1, Times
    <2>4. (job.pages + 1) * server.pageSize = end BY <2>1, <2>3 DEF end
    <2> QED BY <1>9, <1>10, <2>2, <2>4 DEF PagesOK
  <1>12. ASSUME NEW i \in DOMAIN seen, i = Len(seen), job.phase # "anonymous"
         PROVE  Shown(i) = list /\ Shown(i)' = list
    <2>1. seen[i] = served BY <1>1, <1>12 DEF SurfaceInv, StateOK
    <2>2. Tools!Presents = job.credentialed BY <1>12 DEF Tools!Presents
    <2> QED BY <1>9, <2>1, <2>2 DEF Shown, Tools!ShownTo, Tools!Authorized
  <1>13. \A i : Shown(i)' = Shown(i) BY <1>9 DEF Shown, Tools!ShownTo, Tools!Authorized
  <1>14. seen \in Seq(Surfaces) BY DEF SurfaceInv, StateOK
  <1>15. ASSUME ReadOf(list) PROVE ReadOf(list)'
    <2>1. read = SubSeq(list, 1, end) BY <1>3, <1>15 DEF ReadOf, read
    <2>2. Len(list) \in Nat /\ end <= Len(list) BY <1>2, <1>3, <1>5
    <2> QED BY <1>9, <2>1, <2>2 DEF ReadOf
  <1>16. FirstOK'
    <2> SUFFICES ASSUME job.phase = "first", Len(seen) = 1 PROVE ReadOf(Shown(1))'
      BY <1>9 DEF FirstOK
    <2>1. 1 \in DOMAIN seen BY <1>14
    <2>2. Shown(1) = list /\ Shown(1)' = list BY <1>12, <2>1
    <2>3. ReadOf(list) BY <1>1, <2>2 DEF SurfaceInv, FirstOK
    <2> QED BY <1>15, <2>2, <2>3
  <1>17. SecondOK'
    <2> SUFFICES ASSUME job.phase = "second", job.exhausted, Len(seen) <= 2
                 PROVE  \/ job.first = Shown(1)'
                        \/ Len(seen) = 2 /\ Fits(Shown(2))' /\ ReadOf(Shown(2))'
      BY <1>9 DEF SecondOK
    <2>1. CASE job.first = Shown(1) BY <1>13, <2>1
    <2>2. CASE Len(seen) = 2 /\ Fits(Shown(2)) /\ ReadOf(Shown(2))
      <3>1. 2 \in DOMAIN seen BY <1>14, <2>2
      <3>2. Shown(2) = list /\ Shown(2)' = list BY <1>12, <2>2, <3>1
      <3> QED BY <1>15, <2>2, <3>2 DEF Fits
    <2> QED BY <1>1, <2>1, <2>2 DEF SurfaceInv, SecondOK
  <1>18. ListedOK'
    <2> SUFFICES ASSUME job.phase = "anonymous", job.exhausted, Len(seen) <= 2
                 PROVE  job.first = Shown(1)' \/ (Len(seen) = 2 /\ job.second = Shown(2)')
      BY <1>9, <1>10 DEF ListedOK
    <2> QED BY <1>1, <1>13 DEF SurfaceInv, ListedOK
  <1>19. CompareOK' BY <1>9, <1>10 DEF CompareOK
  <1> QED BY <1>1, <1>8, <1>11, <1>16, <1>17, <1>18, <1>19, RunGoesOn

\* The last page of a listing.
LEMMA PageAtTheEnd ==
  ASSUME Tools!SurfaceAssumption, SurfaceInv, Tools!Listing, UNCHANGED <<server, served, lock, reviewed, seen>>,
         NEW list, list = Tools!ShownTo(Tools!Presents, served),
         NEW page, page = Tools!Page(list, job.cursor),
         page.next = None \/ job.pages + 1 = MaxPages,
         job' = Tools!AfterListing(job.read \o page.tools, page.next = None)
  PROVE  SurfaceInv'
  <1> DEFINE read == job.read \o page.tools
             end == job.cursor + server.pageSize
             whole == page.next = None
  <1>1. job \in Tools!Jobs /\ job # None /\ served \in Surfaces /\ server \in Servers
    BY DEF SurfaceInv, StateOK, Tools!Listing
  <1>2. list \in Seq(Tools!Tools) BY <1>1, ShownIsTyped
  <1>3. /\ page.tools \in Seq(Tools!Tools)
        /\ whole => Len(list) <= end
        /\ ~whole => end < Len(list)
        /\ whole /\ job.cursor <= Len(list) => SubSeq(list, 1, job.cursor) \o page.tools = SubSeq(list, 1, Len(list))
    <2>1. job.cursor \in Nat BY <1>1 DEF Tools!Jobs
    <2> QED BY <1>1, <1>2, <2>1, PageIs
  <1>4. server.pageSize \in Nat \ {0} /\ MaxPages \in Nat \ {0} BY <1>1 DEF Tools!SurfaceAssumption
  <1>5. job.cursor \in Nat /\ job.pages \in Nat /\ job.read \in Seq(Tools!Tools) BY <1>1 DEF Tools!Jobs
  <1>6. read \in Seq(Tools!Tools) BY <1>3, <1>5, ConcatProperties
  <1>7. whole \in BOOLEAN OBVIOUS
  <1>8. job.phase \in {"first", "second", "anonymous"} BY DEF Tools!Listing
  \* The list that is there now is read to its end, and fits if it was.
  <1>9. ReadOf(list) /\ whole => read = list
    <2>1. SubSeq(list, 1, Len(list)) = list BY <1>2, SubSeqFull
    <2> QED BY <1>3, <2>1 DEF ReadOf
  <1>10. job.pages + 1 <= MaxPages /\ end = (job.pages + 1) * server.pageSize
    <2>1. job.pages < MaxPages /\ job.cursor = job.pages * server.pageSize BY <1>1, <1>8 DEF SurfaceInv, PagesOK
    <2>2. (job.pages + 1) * server.pageSize = job.pages * server.pageSize + server.pageSize
      <3>1. job.pages \in Nat /\ server.pageSize \in Nat /\ job.pages <= job.pages BY <1>4, <1>5
      <3> QED BY <3>1, Times
    <2> QED BY <1>4, <1>5, <2>1, <2>2
  <1>11. whole => Len(list) <= MaxPages * server.pageSize
    <2>1. job.pages + 1 \in Nat /\ MaxPages \in Nat /\ server.pageSize \in Nat BY <1>4, <1>5
    <2>2. (job.pages + 1) * server.pageSize <= MaxPages * server.pageSize
          /\ (job.pages + 1) * server.pageSize \in Nat /\ MaxPages * server.pageSize \in Nat
      <3>1. MaxPages <= MaxPages BY <2>1
      <3> QED BY <1>10, <2>1, <3>1, Times
    <2>3. Len(list) \in Nat BY <1>2
    <2> QED BY <1>3, <1>10, <2>2, <2>3
  <1>12. ~whole => ~(Len(list) <= MaxPages * server.pageSize)
    <2>1. ASSUME ~whole PROVE end = MaxPages * server.pageSize /\ end < Len(list)
      BY <1>3, <1>10, <2>1
    <2>2. Len(list) \in Nat /\ end \in Nat BY <1>2, <1>4, <1>5
    <2> QED BY <2>1, <2>2
  <1>13. ASSUME NEW i \in DOMAIN seen, i = Len(seen), job.phase # "anonymous"
         PROVE  Shown(i) = list
    <2>1. seen[i] = served BY <1>1, <1>13 DEF SurfaceInv, StateOK
    <2>2. Tools!Presents = job.credentialed BY <1>13 DEF Tools!Presents
    <2> QED BY <2>1, <2>2 DEF Shown
  <1>14. seen \in Seq(Surfaces) BY DEF SurfaceInv, StateOK
  <1>15. None \notin Nat BY DEF Tools!SurfaceAssumption
  <1>16. job' = Tools!AfterListing(read, whole) OBVIOUS
  <1> HIDE DEF read, whole, end
  <1>21. <<>> \in Seq(Tools!Tools) /\ 0 \in Nat /\ \A p \in {"second", "anonymous", "report", "compare"} : p \in Tools!Phases
    BY EmptySeq DEF Tools!Phases
  <1>17. CASE job.phase = "first" /\ job.kind = "lock"
    <2>1. job' = [job EXCEPT !.cursor = 0, !.pages = 0, !.read = <<>>, !.first = read, !.exhausted = whole,
                             !.phase = "compare"]
      BY <1>16, <1>17 DEF Tools!AfterListing
    <2>5. job' \in Tools!Jobs BY <1>1, <1>6, <1>7, <1>21, <2>1, Zenon DEF Tools!Jobs
    <2>2. job' \in Tools!Jobs /\ job'.phase = "compare" /\ job'.first = read /\ job'.exhausted = whole
          /\ job'.credentialed = job.credentialed
      BY <1>1, <2>1, <2>5 DEF Tools!Jobs
    <2>3. CompareOK'
      <3> SUFFICES ASSUME whole, Len(seen) = 1 PROVE read = Shown(1)' BY <2>2 DEF CompareOK
      <3>1. Shown(1) = list /\ 1 \in DOMAIN seen BY <1>13, <1>14, <1>17
      <3>2. ReadOf(list) BY <1>1, <1>17, <3>1 DEF SurfaceInv, FirstOK
      <3> QED BY <1>9, <2>2, <3>1, <3>2 DEF Shown, Tools!ShownTo, Tools!Authorized
    <2>4. PagesOK' /\ FirstOK' /\ SecondOK' /\ ListedOK' BY <2>2 DEF PagesOK, FirstOK, SecondOK, ListedOK
    <2> QED BY <1>1, <2>2, <2>3, <2>4, RunGoesOn
  <1>18. CASE job.phase = "first" /\ job.kind # "lock"
    <2>1. job' = [job EXCEPT !.cursor = 0, !.pages = 0, !.read = <<>>, !.first = read, !.exhausted = whole,
                             !.phase = "second"]
      BY <1>16, <1>18 DEF Tools!AfterListing
    <2>7. job' \in Tools!Jobs BY <1>1, <1>6, <1>7, <1>21, <2>1, Zenon DEF Tools!Jobs
    <2>2. job' \in Tools!Jobs /\ job'.phase = "second" /\ job'.first = read /\ job'.exhausted = whole
          /\ job'.credentialed = job.credentialed
          /\ job'.cursor = 0 /\ job'.pages = 0 /\ job'.read = <<>>
      BY <1>1, <2>1, <2>7 DEF Tools!Jobs
    <2>3. \A i : Shown(i)' = Shown(i) BY <2>2 DEF Shown, Tools!ShownTo, Tools!Authorized
    <2>4. SecondOK'
      <3> SUFFICES ASSUME whole, Len(seen) <= 2
                   PROVE  read = Shown(1)' \/ (Len(seen) = 2 /\ Fits(Shown(2))' /\ ReadOf(Shown(2))')
        BY <2>2 DEF SecondOK
      <3>1. Len(seen) = 1 \/ Len(seen) = 2
        <4>1. Len(seen) \in Nat /\ Len(seen) # 0 BY <1>1, <1>14, EmptySeq DEF SurfaceInv, StateOK
        <4>2. \A n \in Nat : n # 0 /\ n <= 2 => n = 1 \/ n = 2 OBVIOUS
        <4> QED BY <4>1, <4>2
      <3>2. CASE Len(seen) = 1
        <4>1. Shown(1) = list /\ 1 \in DOMAIN seen BY <1>13, <1>14, <1>18, <3>2
        <4>2. ReadOf(list) BY <1>1, <1>18, <3>2, <4>1 DEF SurfaceInv, FirstOK
        <4> QED BY <1>9, <2>3, <4>1, <4>2
      <3>3. CASE Len(seen) = 2
        <4>1. 2 \in DOMAIN seen BY <1>14, <3>3
        <4>2. Shown(2)' = list BY <1>13, <1>18, <2>3, <3>3, <4>1
        <4>3. SubSeq(list, 1, 0) = <<>> /\ 0 <= Len(list) BY <1>2, SubSeqEmpty
        <4> QED BY <1>11, <2>2, <3>3, <4>2, <4>3 DEF Fits, ReadOf
      <3> QED BY <3>1, <3>2, <3>3
    <2>5. PagesOK'
      <3>1. 0 < MaxPages /\ 0 = 0 * server.pageSize BY <1>4
      <3> QED BY <2>2, <3>1 DEF PagesOK
    <2>6. FirstOK' /\ ListedOK' /\ CompareOK' BY <2>2 DEF FirstOK, ListedOK, CompareOK
    <2> QED BY <1>1, <2>2, <2>4, <2>5, <2>6, RunGoesOn
  <1>19. CASE job.phase = "second"
    <2> DEFINE then == IF job.credentialed THEN "anonymous" ELSE "report"
    <2>1. job' = [job EXCEPT !.cursor = 0, !.pages = 0, !.read = <<>>, !.second = read, !.phase = then]
      BY <1>16, <1>19 DEF Tools!AfterListing
    <2>2. then \in {"anonymous", "report"} OBVIOUS
    <2> HIDE DEF then
    <2>8. job' \in Tools!Jobs
      <3>1. then \in Tools!Phases BY <1>21, <2>2
      <3> QED BY <1>1, <1>6, <1>21, <2>1, <3>1, Zenon DEF Tools!Jobs
    <2>3. job' \in Tools!Jobs /\ job'.phase = then /\ job'.first = job.first /\ job'.second = read
          /\ job'.exhausted = job.exhausted /\ job'.credentialed = job.credentialed
          /\ job'.cursor = 0 /\ job'.pages = 0 /\ job'.read = <<>>
      BY <1>1, <2>1, <2>8 DEF Tools!Jobs
    <2>4. \A i : Shown(i)' = Shown(i) BY <2>3 DEF Shown, Tools!ShownTo, Tools!Authorized
    <2>5. ListedOK'
      <3> SUFFICES ASSUME job.exhausted, Len(seen) <= 2
                   PROVE  job.first = Shown(1)' \/ (Len(seen) = 2 /\ read = Shown(2)')
        BY <2>3 DEF ListedOK
      <3>1. CASE job.first = Shown(1) BY <2>4, <3>1
      <3>2. CASE Len(seen) = 2 /\ Fits(Shown(2)) /\ ReadOf(Shown(2))
        <4>1. 2 \in DOMAIN seen BY <1>14, <3>2
        <4>2. Shown(2) = list BY <1>13, <1>19, <3>2, <4>1
        <4>3. whole BY <1>12, <3>2, <4>2 DEF Fits
        <4> QED BY <1>9, <2>4, <3>2, <4>2, <4>3
      <3> QED BY <1>1, <1>19, <3>1, <3>2 DEF SurfaceInv, SecondOK
    <2>6. PagesOK'
      <3>1. 0 < MaxPages /\ 0 = 0 * server.pageSize BY <1>4
      <3> QED BY <2>2, <2>3, <3>1 DEF PagesOK
    <2>7. FirstOK' /\ SecondOK' /\ CompareOK' BY <2>2, <2>3 DEF FirstOK, SecondOK, CompareOK
    <2> QED BY <1>1, <2>3, <2>5, <2>6, <2>7, RunGoesOn
  <1>20. CASE job.phase = "anonymous"
    <2> DEFINE how == IF read = <<>> THEN "empty" ELSE "served"
    <2>1. job' = [job EXCEPT !.cursor = 0, !.pages = 0, !.read = <<>>, !.anonymous = how, !.phase = "report"]
      BY <1>16, <1>20 DEF Tools!AfterListing
    <2>2. how \in {"empty", "served"} OBVIOUS
    <2> HIDE DEF how
    <2>4. job' \in Tools!Jobs BY <1>1, <1>21, <2>1, <2>2, Zenon DEF Tools!Jobs
    <2>3. job' \in Tools!Jobs /\ job'.phase = "report"
          /\ UNCHANGED <<job.first, job.second, job.exhausted, job.credentialed>>
      BY <1>1, <2>1, <2>4 DEF Tools!Jobs
    <2> QED BY <1>1, <1>20, <2>3, AnonymousEnds
  <1> QED BY <1>8, <1>17, <1>18, <1>19, <1>20

LEMMA PageRead == ASSUME Tools!SurfaceAssumption, SurfaceInv, Tools!ReadPage PROVE SurfaceInv'
  <1>1. job \in Tools!Jobs /\ job # None /\ Tools!Listing /\ UNCHANGED <<server, served, lock, reviewed, seen>>
    BY DEF SurfaceInv, StateOK, Tools!ReadPage, Tools!Listing
  <1>2. CASE Tools!Refuses(Tools!Presents)
    <2>1. CASE job.phase = "anonymous"
      <3>1. job' = [job EXCEPT !.anonymous = "refused", !.phase = "report"] BY <1>2, <2>1 DEF Tools!ReadPage
      <3>2. /\ job' \in Tools!Jobs /\ job'.phase = "report"
            /\ UNCHANGED <<job.first, job.second, job.exhausted, job.credentialed>>
        BY <1>1, <3>1 DEF Tools!Jobs, Tools!Phases
      <3> QED BY <1>1, <2>1, <3>2, AnonymousEnds
    <2>2. CASE job.phase # "anonymous"
      <3>1. Tools!End(job.kind, "unreachable", {}, <<>>) BY <1>2, <2>2 DEF Tools!ReadPage
      <3> QED BY <1>1, <3>1, RunFails
    <2> QED BY <2>1, <2>2
  <1>3. CASE ~Tools!Refuses(Tools!Presents)
    <2>1. PICK list : list = Tools!ShownTo(Tools!Presents, served) OBVIOUS
    <2>2. PICK page : page = Tools!Page(list, job.cursor) OBVIOUS
    <2>3. job' = IF page.next = None \/ job.pages + 1 = MaxPages
                 THEN Tools!AfterListing(job.read \o page.tools, page.next = None)
                 ELSE [job EXCEPT !.cursor = page.next, !.pages = @ + 1, !.read = job.read \o page.tools]
      BY <1>3, <2>1, <2>2, Zenon DEF Tools!ReadPage
    <2>4. CASE page.next = None \/ job.pages + 1 = MaxPages
      BY <1>1, <2>1, <2>2, <2>3, <2>4, PageAtTheEnd
    <2>5. CASE ~(page.next = None \/ job.pages + 1 = MaxPages)
      BY <1>1, <2>1, <2>2, <2>3, <2>5, PageOnTheWay
    <2> QED BY <2>4, <2>5
  <1> QED BY <1>2, <1>3

LEMMA DriftReported == ASSUME Tools!SurfaceAssumption, SurfaceInv, Tools!ReportDrift PROVE SurfaceInv'
  <1>1. job \in Tools!Jobs /\ job # None /\ job.phase = "report"
        /\ UNCHANGED <<server, served, manifest, lock, reviewed, seen>>
    BY DEF SurfaceInv, StateOK, Tools!ReportDrift
  <1>2. PICK replies \in [Tools!Sent(job.ask) -> Replies] :
          \/ Tools!End("drift", "usage", {}, <<>>) \/ Tools!End("drift", "unreachable", {}, <<>>)
          \/ /\ Tools!InvokeTools(replies) # None
             /\ Tools!End("drift", Tools!Gate(Tools!DriftFindings(job) \cup Tools!InvokeTools(replies)),
                    Tools!DriftFindings(job) \cup Tools!InvokeTools(replies), job.first)
    BY DEF Tools!ReportDrift
  <1>3. CASE Tools!End("drift", "usage", {}, <<>>) BY <1>1, <1>3, RunFails
  <1>4. CASE Tools!End("drift", "unreachable", {}, <<>>) BY <1>1, <1>4, RunFails
  <1>5. CASE /\ Tools!InvokeTools(replies) # None
             /\ Tools!End("drift", Tools!Gate(Tools!DriftFindings(job) \cup Tools!InvokeTools(replies)),
                    Tools!DriftFindings(job) \cup Tools!InvokeTools(replies), job.first)
    <2> DEFINE findings == Tools!DriftFindings(job) \cup Tools!InvokeTools(replies)
    <2>1. job' = None /\ answer'.kind = "drift" /\ answer'.findings = findings
          /\ answer'.credentialed = job.credentialed
      BY <1>5 DEF Tools!End, Tools!Answer
    <2>2. \A f \in Tools!InvokeTools(replies) : f.rule # "MCP-DRIFT-TOOL-MISSING"
      <3>1. Tools!InvokeTools(replies) = UNION {Tools!ResultFindings(n, replies[n]) : n \in DOMAIN replies}
        BY <1>5 DEF Tools!InvokeTools
      <3> QED BY <3>1, CallsTellNothing
    <2>3. ASSUME Len(seen) <= 2, NEW f \in findings, f.rule = "MCP-DRIFT-TOOL-MISSING"
          PROVE  \/ \E i \in DOMAIN seen : f.tool \notin Tools!Names(Shown(i))
                 \/ \E g \in findings : g.rule = "MCP-CONF-LIST-UNSTABLE"
      <3>1. job.exhausted /\ f.tool \in Tools!Names(manifest) \ Tools!Names(job.first)
        BY <2>2, <2>3, MissingIsReported
      <3>2. seen \in Seq(Surfaces) /\ seen # <<>> /\ server \in Servers BY <1>1 DEF SurfaceInv, StateOK
      <3>3. CASE job.first = Shown(1)
        <4>1. 1 \in DOMAIN seen BY <3>2
        <4> QED BY <3>1, <3>3, <4>1
      <3>4. CASE Len(seen) = 2 /\ job.second = Shown(2)
        <4>1. 2 \in DOMAIN seen BY <3>2, <3>4
        <4>2. CASE f.tool \in Tools!Names(Shown(2))
          <5>1. f.tool \in Tools!Names(job.second) \ Tools!Names(job.first) BY <3>1, <3>4, <4>2
          <5>2. job.first \in Seq(Tools!Tools) /\ job.second \in Seq(Tools!Tools) BY <1>1 DEF Tools!Jobs
          <5>3. Tools!Stability(job.first, job.second) = {Tools!Finding("MCP-CONF-LIST-UNSTABLE", "ERROR", None)}
            BY <5>1, <5>2, UnstableIsReported
          <5>4. Tools!Finding("MCP-CONF-LIST-UNSTABLE", "ERROR", None) \in findings
            BY <5>3 DEF Tools!DriftFindings
          <5>5. Tools!Finding("MCP-CONF-LIST-UNSTABLE", "ERROR", None).rule = "MCP-CONF-LIST-UNSTABLE"
            BY DEF Tools!Finding
          <5> QED BY <5>4, <5>5
        <4> QED BY <4>1, <4>2
      <3> QED BY <1>1, <2>3, <3>1, <3>3, <3>4 DEF SurfaceInv, ListedOK
    <2> HIDE DEF findings
    <2>4. Tools!MissingIsTrueOrUnstable'
      <3> SUFFICES ASSUME Len(seen) <= 2, NEW f \in findings, f.rule = "MCP-DRIFT-TOOL-MISSING"
                   PROVE  \/ \E i \in DOMAIN seen : f.tool \notin Tools!Names(Tools!ShownTo(job.credentialed, seen[i]))
                          \/ \E g \in findings : g.rule = "MCP-CONF-LIST-UNSTABLE"
        BY <1>1, <2>1 DEF Tools!MissingIsTrueOrUnstable, Tools!Reports, Tools!ShownTo, Tools!Authorized
      <3> QED BY <2>3 DEF Shown
    <2>5. Tools!LockedMeansReviewed' BY <2>1 DEF Tools!LockedMeansReviewed
    <2>6. LockOK' BY <1>1 DEF SurfaceInv, LockOK
    <2> QED BY <1>1, <2>1, <2>4, <2>5, <2>6, Ended DEF SurfaceInv
  <1> QED BY <1>2, <1>3, <1>4, <1>5

LEMMA LockWritten == ASSUME SurfaceInv, Tools!WriteLock PROVE SurfaceInv'
  <1>1. job # None /\ UNCHANGED <<server, served, seen>> BY DEF Tools!WriteLock
  <1>2. CASE Tools!End("write", "usage", {}, <<>>) /\ UNCHANGED <<lock, reviewed>> BY <1>1, <1>2, RunFails
  <1>3. CASE /\ lock' = Tools!BuildLock(job.first, job.sign)
             /\ reviewed' = Tools!Surface(job.first)
             /\ Tools!End("write", "ok", {}, job.first)
    <2>1. LockOK' BY <1>3 DEF LockOK, Tools!BuildLock
    <2>2. job' = None /\ answer'.kind = "write" BY <1>3 DEF Tools!End, Tools!Answer
    <2>3. Tools!MissingIsTrueOrUnstable' /\ Tools!LockedMeansReviewed'
      BY <2>2 DEF Tools!MissingIsTrueOrUnstable, Tools!LockedMeansReviewed
    <2> QED BY <1>1, <2>1, <2>2, <2>3, Ended DEF SurfaceInv
  <1> QED BY <1>2, <1>3 DEF Tools!WriteLock

LEMMA LockChecked == ASSUME SurfaceInv, Tools!CheckLock PROVE SurfaceInv'
  <1>1. job # None /\ job.phase = "compare" /\ UNCHANGED <<server, served, lock, reviewed, seen>>
    BY DEF Tools!CheckLock
  <1>2. CASE Tools!End("check", "usage", {}, <<>>) BY <1>1, <1>2, RunFails
  <1>3. CASE /\ ~Tools!Capped /\ lock # None
             /\ Tools!End("check", Tools!LockExit(job.key, job.first), Tools!LockFindings(job.key, job.first), job.first)
    <2>1. /\ job' = None /\ answer'.kind = "check" /\ answer'.tools = job.first
          /\ answer'.exit = Tools!LockExit(job.key, job.first) /\ answer'.credentialed = job.credentialed
          /\ answer'.verified <=> lock.signature # None /\ job.key
      BY <1>3 DEF Tools!End, Tools!Answer
    <2>2. Tools!MissingIsTrueOrUnstable' BY <2>1 DEF Tools!MissingIsTrueOrUnstable
    <2>3. ASSUME Tools!LockExit(job.key, job.first) = "ok"
          PROVE  Tools!Surface(job.first) = lock.surface /\ Tools!SignatureState(job.key) # "invalid"
      BY <2>3 DEF Tools!LockExit
    <2>4. ASSUME Tools!LockExit(job.key, job.first) = "ok", lock.signature # None, job.key
          PROVE  Tools!Surface(job.first) = reviewed
      <3>1. lock.signature = lock.surface BY <2>3, <2>4 DEF Tools!SignatureState
      <3>2. lock.signature = reviewed BY <1>3, <2>4 DEF SurfaceInv, LockOK
      <3> QED BY <2>3, <2>4, <3>1, <3>2
    <2>5. ASSUME Len(seen) = 1 PROVE job.first = Tools!ShownTo(job.credentialed, seen[1])
      BY <1>1, <1>3, <2>5 DEF SurfaceInv, CompareOK, Tools!Capped, Shown
    <2>6. Tools!LockedMeansReviewed'
      <3>1. PICK who : who = job.credentialed OBVIOUS
      <3>2. Tools!ShownTo(who, seen[1])' = Tools!ShownTo(who, seen[1]) BY <1>1 DEF Tools!ShownTo, Tools!Authorized
      <3>3. answer'.exit = "ok" /\ Len(seen') = 1 =>
              /\ Tools!Surface(answer'.tools) = Tools!Surface(Tools!ShownTo(who, seen[1]))
              /\ answer'.verified => Tools!Surface(answer'.tools) = reviewed
        BY <1>1, <2>1, <2>4, <2>5, <3>1
      <3> QED BY <1>1, <2>1, <3>1, <3>2, <3>3 DEF Tools!LockedMeansReviewed
    <2>7. LockOK' BY <1>1 DEF SurfaceInv, LockOK
    <2> QED BY <1>1, <2>1, <2>2, <2>6, <2>7, Ended DEF SurfaceInv
  <1> QED BY <1>2, <1>3 DEF Tools!CheckLock

-------------------------------------------------------------------------------
LEMMA Begins == Tools!SurfaceAssumption /\ Tools!Init => SurfaceInv
  <1> SUFFICES ASSUME Tools!SurfaceAssumption, Tools!Init PROVE SurfaceInv OBVIOUS
  <1>1. job = None /\ lock = None /\ answer.kind = None /\ seen = <<>>
        /\ server \in Servers /\ served \in Surfaces /\ answer.findings = {} /\ answer.tools = <<>>
    BY DEF Tools!Init
  <1>2. StateOK BY <1>1, EmptySeq DEF StateOK
  <1>3. PagesOK /\ FirstOK /\ SecondOK /\ ListedOK /\ CompareOK /\ LockOK
    BY <1>1 DEF PagesOK, FirstOK, SecondOK, ListedOK, CompareOK, LockOK
  <1>4. Tools!MissingIsTrueOrUnstable BY <1>1 DEF Tools!MissingIsTrueOrUnstable
  <1>5. Tools!LockedMeansReviewed
    <2>1. Len(seen) = 0 BY <1>1, EmptySeq
    <2> QED BY <2>1 DEF Tools!LockedMeansReviewed
  <1> QED BY <1>2, <1>3, <1>4, <1>5 DEF SurfaceInv

LEMMA Continues == Tools!SurfaceAssumption /\ SurfaceInv /\ [Tools!Next]_toolVars => SurfaceInv'
  <1> SUFFICES ASSUME Tools!SurfaceAssumption, SurfaceInv, [Tools!Next]_toolVars PROVE SurfaceInv' OBVIOUS
  <1>1. CASE UNCHANGED toolVars
    <2> USE <1>1 DEF toolVars
    <2>1. StateOK' BY DEF SurfaceInv, StateOK
    <2>2. PagesOK' BY DEF SurfaceInv, PagesOK
    <2>3. \A i : Shown(i)' = Shown(i) BY DEF Shown, Tools!ShownTo, Tools!Authorized
    <2>4. FirstOK' BY <2>3 DEF SurfaceInv, FirstOK, ReadOf
    <2>5. SecondOK' BY <2>3 DEF SurfaceInv, SecondOK, ReadOf, Fits
    <2>6. ListedOK' BY <2>3 DEF SurfaceInv, ListedOK
    <2>7. CompareOK' BY <2>3 DEF SurfaceInv, CompareOK
    <2>8. LockOK' BY DEF SurfaceInv, LockOK
    <2>9. Tools!MissingIsTrueOrUnstable' BY DEF SurfaceInv, Tools!MissingIsTrueOrUnstable, Tools!Reports, Tools!ShownTo, Tools!Authorized
    <2>10. Tools!LockedMeansReviewed' BY DEF SurfaceInv, Tools!LockedMeansReviewed, Tools!ShownTo, Tools!Authorized
    <2> QED BY <2>1, <2>2, <2>4, <2>5, <2>6, <2>7, <2>8, <2>9, <2>10 DEF SurfaceInv
  <1>2. CASE Tools!StartDrift BY <1>2, DriftStarts
  <1>3. CASE Tools!StartLock BY <1>3, LockStarts
  <1>4. CASE Tools!Probe BY <1>4, Probed
  <1>5. CASE Tools!ReadPage BY <1>5, PageRead
  <1>6. CASE Tools!LoseConnection BY <1>6, ConnectionLost
  <1>7. CASE Tools!ReportDrift BY <1>7, DriftReported
  <1>8. CASE Tools!WriteLock BY <1>8, LockWritten
  <1>9. CASE Tools!CheckLock BY <1>9, LockChecked
  <1>10. CASE Tools!Deploy BY <1>10, Deployed
  <1>11. CASE Tools!EditLock BY <1>11, LockEdited
  <1> QED BY <1>1, <1>2, <1>3, <1>4, <1>5, <1>6, <1>7, <1>8, <1>9, <1>10, <1>11 DEF Tools!Next

-------------------------------------------------------------------------------
(* The other commands leave what this one is about alone. *)

LEMMA ToolsHold ==
  ASSUME Tools!SurfaceAssumption
  PROVE  CommandsSpec => [](stage = "tools" => SurfaceInv)
  <1> DEFINE StageInv == stage = "tools" => SurfaceInv
  <1>1. CommandsInit => StageInv BY Begins DEF CommandsInit
  <1>2. StageInv /\ [CommandsNext]_commandVars => StageInv'
    <2> SUFFICES ASSUME StageInv, [CommandsNext]_commandVars, stage' = "tools" PROVE SurfaceInv'
      OBVIOUS
    <2>1. stage = "tools" /\ [Tools!Next]_toolVars
      BY DEF CommandsNext, commandVars, toolVars
    <2> QED BY <2>1, Continues
  <1> QED BY <1>1, <1>2, PTL DEF CommandsSpec

\* Whatever a server serves and however it pages, after one deploy at most: a tool that
\* drift reports missing was absent from something the server showed, or the report says
\* that the list is unstable (list_tools, _presence, _stability).
THEOREM MissingIsTold ==
  ASSUME Tools!SurfaceAssumption
  PROVE  CommandsSpec => []MissingIsTrueOrUnstable
  <1>1. (stage = "tools" => SurfaceInv) => MissingIsTrueOrUnstable
    BY DEF SurfaceInv, MissingIsTrueOrUnstable
  <1> QED BY <1>1, ToolsHold, PTL

\* A lock check that passes against a server at rest means that it serves what was
\* reviewed, for any lists, pages, edits of the lock and deploys before and after
\* (compare, verify_signature).
THEOREM LockHolds ==
  ASSUME Tools!SurfaceAssumption
  PROVE  CommandsSpec => []LockedMeansReviewed
  <1>1. (stage = "tools" => SurfaceInv) => LockedMeansReviewed
    BY DEF SurfaceInv, LockedMeansReviewed
  <1> QED BY <1>1, ToolsHold, PTL

-------------------------------------------------------------------------------
(* The first and the last of a set of numbers. *)

LEMMA Lowest == ASSUME NEW S \in SUBSET Nat, S # {} PROVE \E i \in S : \A j \in S : i <= j
  <1> DEFINE R == {ss \in Nat \X Nat : ss[1] < ss[2]}
  <1>1. \E x \in S : \A y \in S : ~ (<<y, x>> \in R)
    <2>1. IsWellFoundedOn(R, Nat) BY NatLessThanWellFounded DEF OpToRel
    <2> HIDE DEF R
    <2> QED BY <2>1, WFMin
  <1>2. PICK x \in S : \A y \in S : ~ (<<y, x>> \in R) BY <1>1
  <1>3. ASSUME NEW y \in S PROVE x <= y
    <2>1. <<y, x>> \in Nat \X Nat /\ <<y, x>>[1] = y /\ <<y, x>>[2] = x OBVIOUS
    <2>2. ~ (y < x) BY <1>2, <2>1
    <2> QED BY <2>2
  <1> QED BY <1>3

LEMMA Highest ==
  ASSUME NEW S \in SUBSET Int, S # {}, NEW top \in Int, \A i \in S : i <= top
  PROVE  \E i \in S : \A j \in S : j <= i
  <1> DEFINE below == {d \in Nat : top - d \in S}
  <1>1. below # {}
    <2>1. PICK i \in S : TRUE OBVIOUS
    <2>2. i \in Int /\ top - i \in Nat /\ top - (top - i) = i BY <2>1
    <2> QED BY <2>1, <2>2
  <1>2. PICK d \in below : \A e \in below : d <= e BY <1>1, Lowest
  <1>3. ASSUME NEW j \in S PROVE j <= top - d
    <2>1. j \in Int /\ top - j \in Nat /\ top - (top - j) = j OBVIOUS
    <2>2. d <= top - j BY <1>2, <2>1
    <2> QED BY <2>1, <2>2, <1>2
  <1> QED BY <1>2, <1>3

-------------------------------------------------------------------------------
(* The sweep and its digests. *)

\* What every record of a sweep says of its contract.
Sound(record) ==
  /\ record.owners \subseteq Teams
  /\ record.failing => record.status = "unreadable" \/ Sweeps!Errors(record.findings) # {}
  /\ ~record.failing => Sweeps!Errors(record.findings) = {}

AllSound(records) == \A p \in DOMAIN records : Sound(records[p])

\* A team was told of contracts that failed in the sweep its digest was made from, and
\* that were its own.
ToldOK ==
  \A t \in Sweeps!Receivers : \A p \in told[t] :
    since # None /\ p \in DOMAIN since /\ t \in Sweeps!Addressees(since[p]) /\ since[p].failing

SweepInv ==
  /\ rules \in RuleSets
  /\ sweep # None => /\ DOMAIN sweep = {"todo", "rules", "records"}
                     /\ sweep.rules \in RuleSets /\ AllSound(sweep.records)
  /\ artifact # None => AllSound(artifact)
  /\ since # None => AllSound(since)
  /\ ToldOK

LEMMA OwnersAreTeams ==
  ASSUME HealthAssumption, NEW written \in RuleSets, NEW p
  PROVE  Sweeps!OwnersOf(written, p) \subseteq Teams
  <1> DEFINE hits == {i \in DOMAIN written : p \in written[i].matches}
             Lists == [matches : SUBSET Paths, owners : (SUBSET Teams) \ {{}}]
             last == CHOOSE i \in hits : \A j \in hits : j <= i
  <1>1. written \in Seq(Lists) BY DEF HealthAssumption
  <1>2. hits \in SUBSET Int /\ Len(written) \in Int /\ \A i \in hits : i <= Len(written)
    <2> HIDE DEF Lists
    <2> QED BY <1>1
  <1>3. ASSUME NEW i \in DOMAIN written PROVE written[i].owners \subseteq Teams
    <2>1. written[i] \in Lists
      <3> HIDE DEF Lists
      <3> QED BY <1>1
    <2> QED BY <2>1
  <1>4. CASE hits = {} BY <1>4 DEF Sweeps!OwnersOf
  <1>5. CASE hits # {}
    <2>1. \E i \in hits : \A j \in hits : j <= i
      <3> HIDE DEF hits
      <3> QED BY <1>2, <1>5, Highest
    <2>2. last \in hits BY <2>1
    <2>3. last \in DOMAIN written BY <2>2
    <2>4. Sweeps!OwnersOf(written, p) = written[last].owners BY <1>5 DEF Sweeps!OwnersOf
    <2> HIDE DEF last
    <2> QED BY <2>3, <2>4, <1>3
  <1> QED BY <1>4, <1>5

LEMMA RecordsAreSound ==
  ASSUME HealthAssumption, NEW written \in RuleSets, NEW p, NEW content
  PROVE  Sound(Sweeps!Record(p, written, content))
  <1>1. Sweeps!OwnersOf(written, p) \subseteq Teams BY OwnersAreTeams
  <1>2. CASE ~content.there \/ ~content.readable
    BY <1>1, <1>2 DEF Sweeps!Record, Sweeps!Unreadable, Sound
  <1>3. CASE ~(~content.there \/ ~content.readable)
    <2> DEFINE found == content.findings \cup (IF BaseTree[p] = "readable" THEN content.breaking ELSE {})
               kept == {f \in found : f.severity \in {"ERROR", "WARN"}}
               record == Sweeps!Record(p, written, content)
    <2>1. Sweeps!Errors(kept) = Sweeps!Errors(found) BY DEF Sweeps!Errors
    <2>2. record = [owners |-> Sweeps!OwnersOf(written, p), failing |-> Sweeps!Errors(found) # {},
                    status |-> IF Sweeps!Errors(found) # {} THEN "failing" ELSE "ok", findings |-> kept]
      BY <1>3 DEF Sweeps!Record
    <2>3. record.owners = Sweeps!OwnersOf(written, p) /\ record.findings = kept
          /\ record.failing = (Sweeps!Errors(found) # {})
      <3> HIDE DEF found, kept, record
      <3> QED BY <2>2
    <2> HIDE DEF found, kept, record
    <2>4. record.failing <=> Sweeps!Errors(record.findings) # {} BY <2>1, <2>3
    <2>5. Sound(record) BY <1>1, <2>3, <2>4 DEF Sound
    <2> QED BY <2>5 DEF record
  <1> QED BY <1>2, <1>3

LEMMA SweepBegins == HealthAssumption /\ Sweeps!Init => SweepInv
  BY DEF Sweeps!Init, SweepInv, ToldOK

LEMMA SweepGoesOn ==
  ASSUME HealthAssumption, SweepInv, [Sweeps!Next]_sweepVars
  PROVE  SweepInv'
  <1>1. CASE UNCHANGED sweepVars
    BY <1>1 DEF SweepInv, ToldOK, sweepVars
  <1>2. CASE Sweeps!StartSweep
    <2>1. AllSound([p \in {} |-> Sweeps!Unreadable({})]) BY DEF AllSound
    <2> QED BY <1>2, <2>1 DEF Sweeps!StartSweep, SweepInv, ToldOK
  <1>3. CASE Sweeps!ReadContract
    <2>1. PICK p \in sweep.todo :
            sweep' = [sweep EXCEPT !.todo = @ \ {p},
                                   !.records = [q \in DOMAIN @ \cup {p} |->
                                     IF q = p THEN Sweeps!Record(p, sweep.rules, tree[p]) ELSE @[q]]]
      BY <1>3 DEF Sweeps!ReadContract
    <2>2. DOMAIN sweep = {"todo", "rules", "records"} /\ sweep.rules \in RuleSets /\ AllSound(sweep.records)
      BY <1>3 DEF Sweeps!ReadContract, SweepInv
    <2>3. Sound(Sweeps!Record(p, sweep.rules, tree[p])) BY <2>2, RecordsAreSound
    <2>4. DOMAIN sweep' = {"todo", "rules", "records"} /\ sweep'.rules = sweep.rules
          /\ sweep'.records = [q \in DOMAIN sweep.records \cup {p} |->
                                 IF q = p THEN Sweeps!Record(p, sweep.rules, tree[p]) ELSE sweep.records[q]]
      BY <2>1, <2>2
    <2>5. AllSound(sweep'.records) BY <2>2, <2>3, <2>4 DEF AllSound
    <2>6. UNCHANGED <<rules, artifact, since, told>> BY <1>3 DEF Sweeps!ReadContract
    <2> QED BY <2>2, <2>4, <2>5, <2>6 DEF SweepInv, ToldOK
  <1>4. CASE Sweeps!EndSweep
    BY <1>4 DEF Sweeps!EndSweep, SweepInv, ToldOK
  <1>5. CASE Sweeps!Digest
    <2>1. ToldOK'
      <3> SUFFICES ASSUME NEW t \in Sweeps!Receivers, NEW p \in told'[t]
                   PROVE  /\ since' # None /\ p \in DOMAIN since'
                          /\ t \in Sweeps!Addressees(since'[p]) /\ since'[p].failing
        BY DEF ToldOK, Sweeps!Receivers, Sweeps!Addressees
      <3>1. since' = artifact /\ artifact # None
            /\ told'[t] = (IF sent'[t].to THEN sent'[t].failing ELSE {})
            /\ sent'[t] = Sweeps!DigestFor(t)
        BY <1>5 DEF Sweeps!Digest
      <3>2. p \in Sweeps!Failing(artifact, t) BY <3>1 DEF Sweeps!DigestFor
      <3> QED BY <3>1, <3>2 DEF Sweeps!Failing, Sweeps!Owned
    <2> QED BY <1>5, <2>1 DEF Sweeps!Digest, SweepInv
  <1>6. CASE Sweeps!EditContract
    BY <1>6 DEF Sweeps!EditContract, SweepInv, ToldOK
  <1>7. CASE Sweeps!EditOwners
    BY <1>7 DEF Sweeps!EditOwners, SweepInv, ToldOK
  <1> QED BY <1>1, <1>2, <1>3, <1>4, <1>5, <1>6, <1>7 DEF Sweeps!Next

\* A digest that is not quiet is sent.
LEMMA DigestsSay ==
  ASSUME NEW t
  PROVE  /\ Sweeps!Failing(artifact, t) # {} \/ Sweeps!NoLongerSwept(t) # {} => Sweeps!DigestFor(t).to
         /\ \A p \in Sweeps!Owned(artifact, t) : ~Sweeps!Quiet(t) => Sweeps!DigestFor(t).to
         /\ Sweeps!DigestFor(t).failing = Sweeps!Failing(artifact, t)
         /\ Sweeps!DigestFor(t).newly = Sweeps!NewlyFailing(t)
         /\ Sweeps!DigestFor(t).fixed = Sweeps!Fixed(t)
         /\ Sweeps!DigestFor(t).gone = Sweeps!NoLongerSwept(t)
  <1>1. Sweeps!DigestFor(t).to = (Sweeps!Due(t) /\ ~Sweeps!Quiet(t)) BY DEF Sweeps!DigestFor
  <1>2. Sweeps!Failing(artifact, t) # {} => Sweeps!Due(t) /\ ~Sweeps!Quiet(t)
    BY DEF Sweeps!Due, Sweeps!Quiet, Sweeps!Failing
  <1>3. Sweeps!NoLongerSwept(t) # {} => Sweeps!Due(t) /\ ~Sweeps!Quiet(t)
    BY DEF Sweeps!Due, Sweeps!Quiet
  <1>4. \A p \in Sweeps!Owned(artifact, t) : Sweeps!Due(t) BY DEF Sweeps!Due
  <1> QED BY <1>1, <1>2, <1>3, <1>4, Zenon DEF Sweeps!DigestFor

LEMMA ToldIsFollowed ==
  ASSUME SweepInv, Sweeps!Digest, NEW t \in Sweeps!Receivers, NEW p \in told[t]
  PROVE  Sweeps!Mentions(sent'[t], p) \/ Sweeps!HandedOver(t, p) \/ Sweeps!FixedInSilence(t, p)
  <1>1. since # None /\ p \in DOMAIN since /\ t \in Sweeps!Addressees(since[p]) /\ since[p].failing
    BY DEF SweepInv, ToldOK
  <1>2. Sweeps!Before = since BY <1>1 DEF Sweeps!Before
  <1>3. sent'[t] = Sweeps!DigestFor(t) /\ AllSound(since) /\ AllSound(artifact)
    BY <1>1 DEF Sweeps!Digest, SweepInv
  <1>4. CASE p \notin DOMAIN artifact
    <2>1. p \in Sweeps!NoLongerSwept(t) BY <1>1, <1>2, <1>4 DEF Sweeps!NoLongerSwept, Sweeps!Owned
    <2> QED BY <1>3, <2>1, DigestsSay DEF Sweeps!Mentions
  <1>5. CASE p \in DOMAIN artifact /\ t \notin Sweeps!Addressees(artifact[p])
    BY <1>5 DEF Sweeps!HandedOver
  <1>6. CASE p \in DOMAIN artifact /\ t \in Sweeps!Addressees(artifact[p])
    <2>1. p \in Sweeps!Owned(artifact, t) BY <1>6 DEF Sweeps!Owned
    <2>2. CASE artifact[p].failing
      <3>1. p \in Sweeps!Failing(artifact, t) BY <2>1, <2>2 DEF Sweeps!Failing
      <3> QED BY <1>3, <3>1, DigestsSay DEF Sweeps!Mentions
    <2>3. CASE ~artifact[p].failing
      <3>1. p \in Sweeps!Compared(t) BY <1>1, <1>2, <2>1 DEF Sweeps!Compared
      <3>2. p \in Sweeps!Fixed(t) BY <1>1, <1>2, <2>3, <3>1 DEF Sweeps!Fixed
      <3>3. CASE ~Sweeps!Quiet(t)
        BY <1>3, <2>1, <3>2, <3>3, DigestsSay DEF Sweeps!Mentions
      <3>4. CASE Sweeps!Quiet(t)
        <4>1. Sound(since[p]) /\ Sound(artifact[p]) BY <1>1, <1>3, <1>6 DEF AllSound
        <4>2. since[p].findings \ artifact[p].findings = {}
          <5>1. Sweeps!Resolved(t) = {} BY <3>4 DEF Sweeps!Quiet
          <5>2. ASSUME NEW f \in since[p].findings \ artifact[p].findings PROVE <<p, f>> \in Sweeps!Resolved(t)
            BY <1>2, <3>1 DEF Sweeps!Resolved
          <5> QED BY <5>1, <5>2
        <4>3. Sweeps!Errors(since[p].findings) \subseteq Sweeps!Errors(artifact[p].findings)
          BY <4>2 DEF Sweeps!Errors
        <4>4. since[p].status = "unreadable" BY <1>1, <2>3, <4>1, <4>3 DEF Sound
        <4> QED BY <1>2, <3>2, <3>4, <4>4 DEF Sweeps!FixedInSilence
      <3> QED BY <3>3, <3>4
    <2> QED BY <2>2, <2>3
  <1> QED BY <1>4, <1>5, <1>6

LEMMA NewFailureIsReported ==
  ASSUME SweepInv, Sweeps!Digest, NEW p \in DOMAIN artifact,
         since # None, p \in DOMAIN since, artifact[p].failing, ~since[p].failing
  PROVE  Sweeps!Exit' = "findings"
  <1>1. AllSound(artifact) /\ Sweeps!Before = since
    BY DEF SweepInv, Sweeps!Digest, Sweeps!Before
  <1>2. PICK t \in Sweeps!Receivers : t \in Sweeps!Addressees(artifact[p])
    BY <1>1 DEF AllSound, Sound, Sweeps!Addressees, Sweeps!Receivers
  <1>3. p \in Sweeps!Failing(artifact, t) /\ p \in Sweeps!NewlyFailing(t)
    BY <1>1, <1>2 DEF Sweeps!Failing, Sweeps!Owned, Sweeps!NewlyFailing
  <1>4. sent'[t] = Sweeps!DigestFor(t) BY DEF Sweeps!Digest
  <1>5. sent'[t].to /\ sent'[t].newly # {} BY <1>3, <1>4, DigestsSay
  <1> QED BY <1>5 DEF Sweeps!Exit, Sweeps!Receivers

\* Whatever the tree, the owners and the edits between two sweeps: a failure a team was
\* told of is followed up in its next digest, and a contract that went bad makes `digest`
\* end with findings (digest.compare, cmd_digest).
THEOREM FailuresAreFollowed ==
  ASSUME HealthAssumption
  PROVE  CommandsSpec => FailureIsFollowed
  <1> DEFINE StageInv == stage = "sweep" => SweepInv
             Follows ==
               since' # since =>
                 /\ \A t \in Sweeps!Receivers : \A p \in told[t] :
                      Sweeps!Mentions(sent'[t], p) \/ Sweeps!HandedOver(t, p) \/ Sweeps!FixedInSilence(t, p)
                 /\ (\E p \in DOMAIN artifact :
                       since # None /\ p \in DOMAIN since /\ artifact[p].failing /\ ~since[p].failing)
                      => Sweeps!Exit' = "findings"
  <1>1. CommandsInit => StageInv BY SweepBegins DEF CommandsInit
  <1>2. ASSUME StageInv, [CommandsNext]_commandVars PROVE StageInv'
    <2> SUFFICES ASSUME stage' = "sweep" PROVE SweepInv' OBVIOUS
    <2>1. stage = "sweep" /\ [Sweeps!Next]_sweepVars
      BY <1>2 DEF CommandsNext, commandVars, sweepVars
    <2> QED BY <1>2, <2>1, SweepGoesOn
  <1>3. ASSUME StageInv, [CommandsNext]_commandVars, since' # since PROVE Follows
    <2>1. stage = "sweep" /\ Sweeps!Next
      BY <1>3 DEF CommandsNext, commandVars, sweepVars
    <2>2. Sweeps!Digest
      BY <1>3, <2>1 DEF Sweeps!Next, Sweeps!StartSweep, Sweeps!ReadContract, Sweeps!EndSweep,
                        Sweeps!EditContract, Sweeps!EditOwners
    <2> QED BY <1>3, <2>1, <2>2, ToldIsFollowed, NewFailureIsReported
  <1>4. StageInv /\ [CommandsNext]_commandVars => [Follows]_sweepVars BY <1>3 DEF sweepVars
  <1> QED BY <1>1, <1>2, <1>4, PTL DEF CommandsSpec, FailureIsFollowed, Sweeps!FailureIsFollowed,
                                        Sweeps!vars, sweepVars

-------------------------------------------------------------------------------
(* Drift against a baseline, and the call budget. *)

\* A finding is its fingerprint and a grade.
Whole(f) == f = [op |-> f.op, rule |-> f.rule, what |-> f.what, severity |-> f.severity]

AllWhole(findings) == \A f \in findings : Whole(f)

\* What a baseline file tells is of findings written to it to the end.
FilesOK ==
  /\ DOMAIN baseline = Files /\ DOMAIN recorded = Files
  /\ \A f \in Files : /\ AllWhole(recorded[f])
                      /\ \A print \in baseline[f].prints : \E g \in recorded[f] : print = Checks!Fingerprint(g)

\* A run is only where its command line sends it.
Named(phase, command) ==
  /\ phase = "read" => command.corpus # None
  /\ phase \in {"open", "write"} => command.save # None
  /\ phase = "compare" => command.baseline # None

RunningOK ==
  /\ DOMAIN running = Runners
  /\ \A r \in Runners : running[r] # None =>
       /\ DOMAIN running[r] = {"command", "phase", "todo", "findings"}
       /\ running[r].command \in Commands
       /\ AllWhole(running[r].findings)
       /\ Named(running[r].phase, running[r].command)

\* Against a file of the pipeline, when against one.
VerdictOK ==
  verdict # None /\ verdict.kind = "drift" /\ verdict.compared # None =>
    verdict.compared \in Files /\ AllWhole(verdict.findings)

\* What PassKeepsTheBudget says of a recording and a budget file.
BudgetKept(c, b, failOn) ==
  /\ \A n \in DOMAIN b.limits :
       LET l == b.limits[n]
           calls == Checks!CallsTo(c, l.op)
           at == [i \in calls |-> Corpora[c][i].at]
           dated == { i \in calls : at[i] # None }
       IN /\ \A start \in { at[i] : i \in dated } :
               Cardinality({ i \in dated : at[i] \in start .. (start + Checks!WindowOf(b, l)) }) <= l.max
          /\ failOn # "error" => dated = calls
          /\ l.max = 0 => calls = {}
  /\ b.deny =>
       \A i \in Checks!Called(Ops, Corpora[c]) : \E n \in DOMAIN b.limits :
         b.limits[n].op = Checks!KeyOf(Checks!OperationOf(Ops, Corpora[c][i]))

BudgetOK == verdict # None /\ verdict.kind = "budget" /\ verdict.exit = "ok" /\ verdict.failOn # "never"
              => BudgetKept(verdict.corpus, verdict.budget, verdict.failOn)

ChecksInv ==
  /\ FilesOK /\ RunningOK /\ VerdictOK
  /\ Checks!BaselineHoldsTheLine /\ BudgetOK

LEMMA LiveIsWhole ==
  ASSUME NEW op, NEW said, NEW forbid
  PROVE  AllWhole(Checks!LiveDrift(op, said, forbid))
  <1> SUFFICES ASSUME NEW f \in Checks!LiveDrift(op, said, forbid) PROVE Whole(f) BY DEF AllWhole
  <1>1. \E d : f = Checks!Unified(Checks!KeyOf(op), d) BY Zenon DEF Checks!LiveDrift
  <1> QED BY <1>1 DEF Whole, Checks!Unified

LEMMA CorpusIsWhole == ASSUME NEW command PROVE AllWhole(Checks!CorpusFindings(command))
  BY DEF AllWhole, Whole, Checks!CorpusFindings, Checks!UnifyAll

\* What has a fingerprint of a whole finding is that finding, up to its grade.
LEMMA PrintsTell ==
  ASSUME NEW f, NEW g, Whole(f), Whole(g), Checks!Fingerprint(f) = Checks!Fingerprint(g)
  PROVE  [g EXCEPT !.severity = f.severity] = f
  <1>1. f.op = g.op /\ f.rule = g.rule /\ f.what = g.what BY DEF Checks!Fingerprint
  <1>2. [g EXCEPT !.severity = f.severity]
          = [op |-> g.op, rule |-> g.rule, what |-> g.what, severity |-> f.severity]
    BY DEF Whole
  <1> QED BY <1>1, <1>2 DEF Whole

\* Nobody but a writer touches the files.
LEMMA FilesAreLeftAlone ==
  ASSUME FilesOK, UNCHANGED <<baseline, recorded>>
  PROVE  FilesOK'
  BY DEF FilesOK

\* A verdict that is no new one stays right while the files only gain.
LEMMA VerdictStays ==
  ASSUME FilesOK, VerdictOK, Checks!BaselineHoldsTheLine, BudgetOK,
         UNCHANGED verdict, \A f \in Files : recorded[f] \subseteq recorded'[f]
  PROVE  VerdictOK' /\ Checks!BaselineHoldsTheLine' /\ BudgetOK'
  <1>1. VerdictOK' BY DEF VerdictOK
  <1>2. Checks!BaselineHoldsTheLine'
    <2> SUFFICES ASSUME verdict # None, verdict.kind = "drift", verdict.compared # None, verdict.exit = "ok",
                        NEW f \in verdict.findings, f.severity \in Checks!Gating(verdict.failOn)
                 PROVE  \E g \in recorded'[verdict.compared] : [g EXCEPT !.severity = f.severity] = f
      BY DEF Checks!BaselineHoldsTheLine
    <2>1. PICK g \in recorded[verdict.compared] : [g EXCEPT !.severity = f.severity] = f
      BY DEF Checks!BaselineHoldsTheLine
    <2>2. verdict.compared \in Files BY DEF VerdictOK
    <2> QED BY <2>1, <2>2
  <1>3. BudgetOK' BY DEF BudgetOK
  <1> QED BY <1>1, <1>2, <1>3

\* Each command counts as everybody does.
LEMMA ChecksCount == \A S : Checks!Cardinality(S) = Cardinality(S)
  BY DEF Checks!Cardinality, Cardinality

LEMMA BudgetIsKept == BudgetOK => Checks!PassKeepsTheBudget
  BY ChecksCount, Zenon DEF BudgetOK, BudgetKept, Checks!PassKeepsTheBudget

\* A run that goes on by itself.
LEMMA RunMoves ==
  ASSUME ChecksInv, NEW r \in Runners, NEW step, running' = [running EXCEPT ![r] = step],
         UNCHANGED <<baseline, recorded, verdict>>,
         step # None =>
           /\ DOMAIN step = {"command", "phase", "todo", "findings"} /\ step.command \in Commands
           /\ AllWhole(step.findings) /\ Named(step.phase, step.command)
  PROVE  ChecksInv'
  <1>1. FilesOK' BY FilesAreLeftAlone DEF ChecksInv
  <1>2. VerdictOK' /\ Checks!BaselineHoldsTheLine' /\ BudgetOK' BY VerdictStays DEF ChecksInv
  <1>3. RunningOK' BY DEF ChecksInv, RunningOK
  <1> QED BY <1>1, <1>2, <1>3 DEF ChecksInv

\* A run ends with a verdict of its own.
LEMMA RunEnds ==
  ASSUME ChecksAssumption, ChecksInv, NEW r \in Runners, NEW exit, NEW compared,
         Checks!End(r, exit, compared), running[r] # None, UNCHANGED <<baseline, recorded>>,
         compared # None => compared \in Files,
         compared # None /\ exit = "ok" =>
           \A f \in running[r].findings : f.severity \in Checks!Gating(running[r].command.failOn) =>
             \E g \in recorded[compared] : [g EXCEPT !.severity = f.severity] = f
  PROVE  ChecksInv'
  <1>1. FilesOK' BY FilesAreLeftAlone DEF ChecksInv
  <1>2. verdict'.kind = "drift" /\ verdict'.exit = exit /\ verdict'.compared = compared
        /\ verdict'.findings = running[r].findings /\ verdict'.failOn = running[r].command.failOn
    BY DEF Checks!End
  <1>3. RunningOK' BY DEF ChecksInv, RunningOK, Checks!End
  <1>4. VerdictOK' BY <1>2 DEF ChecksInv, RunningOK, VerdictOK
  <1>5. Checks!BaselineHoldsTheLine' BY <1>2 DEF Checks!BaselineHoldsTheLine
  <1>6. BudgetOK' BY <1>2 DEF BudgetOK
  <1> QED BY <1>1, <1>3, <1>4, <1>5, <1>6 DEF ChecksInv

LEMMA DriftStarted ==
  ASSUME ChecksInv, NEW r \in Runners, Checks!StartDrift(r)
  PROVE  ChecksInv'
  <1>1. PICK c \in Commands : running' = [running EXCEPT ![r] =
           [command |-> c, phase |-> IF c.corpus = None THEN "probe" ELSE "read",
            todo |-> IF c.corpus = None THEN DOMAIN Ops ELSE {}, findings |-> {}]]
    BY DEF Checks!StartDrift
  <1>2. verdict' = None /\ UNCHANGED <<baseline, recorded>> BY DEF Checks!StartDrift
  <1>3. RunningOK' BY <1>1 DEF ChecksInv, RunningOK, AllWhole, Named
  <1>4. FilesOK' BY <1>2, FilesAreLeftAlone DEF ChecksInv
  <1> QED BY <1>2, <1>3, <1>4 DEF ChecksInv, VerdictOK, Checks!BaselineHoldsTheLine, BudgetOK

\* Where a run goes once its findings are known.
LEMMA NextPhase == ASSUME NEW command PROVE Named(Checks!AfterFindings(command), command)
  BY DEF Checks!AfterFindings, Named

LEMMA ProbeAnswered ==
  ASSUME ChecksInv, NEW r \in Runners, Checks!Probe(r)
  PROVE  ChecksInv'
  <1> DEFINE i == Checks!Least(running[r].todo)
             found == running[r].findings \cup Checks!LiveDrift(Ops[i], service[i], running[r].command.forbid)
             phase == IF running[r].todo = {i} THEN Checks!AfterFindings(running[r].command)
                      ELSE running[r].phase
             step == [running[r] EXCEPT !.todo = @ \ {i}, !.findings = found, !.phase = phase]
  <1>1. running[r] # None /\ running[r].phase = "probe" BY DEF Checks!Probe, Checks!Doing, Checks!Idle
  <1>2. running' = [running EXCEPT ![r] = step]
    BY <1>1 DEF ChecksInv, RunningOK, Checks!Probe
  <1>3. DOMAIN running[r] = {"command", "phase", "todo", "findings"} /\ running[r].command \in Commands
        /\ AllWhole(running[r].findings)
    BY <1>1 DEF ChecksInv, RunningOK
  <1>4. AllWhole(found) BY <1>3, LiveIsWhole DEF AllWhole
  <1> HIDE DEF found, i
  <1>5. DOMAIN step = {"command", "phase", "todo", "findings"} /\ step.command = running[r].command
        /\ step.findings = found /\ step.phase = phase
    BY <1>3
  <1>6. Named(phase, running[r].command) BY <1>1, NextPhase DEF Named
  <1>7. UNCHANGED <<baseline, recorded, verdict>> BY DEF Checks!Probe
  <1> HIDE DEF step, phase
  <1> QED BY <1>2, <1>3, <1>4, <1>5, <1>6, <1>7, RunMoves

LEMMA CorpusRead ==
  ASSUME ChecksAssumption, ChecksInv, NEW r \in Runners, Checks!ReadCorpus(r)
  PROVE  ChecksInv'
  <1> DEFINE command == running[r].command
             step == [running[r] EXCEPT !.findings = Checks!FindingsOf[command],
                                        !.phase = Checks!AfterFindings(command)]
  <1>1. running[r] # None /\ running[r].phase = "read" BY DEF Checks!ReadCorpus, Checks!Doing, Checks!Idle
  <1>2. DOMAIN running[r] = {"command", "phase", "todo", "findings"} /\ command \in Commands
    BY <1>1 DEF ChecksInv, RunningOK
  <1>3. UNCHANGED <<baseline, recorded>> BY DEF Checks!ReadCorpus
  <1>4. CASE Checks!Unusable(command)
    <2>1. Checks!End(r, "usage", None) BY <1>4 DEF Checks!ReadCorpus
    <2> QED BY <1>1, <1>3, <2>1, RunEnds
  <1>5. CASE ~Checks!Unusable(command)
    <2>1. running' = [running EXCEPT ![r] = step] /\ UNCHANGED verdict
      BY <1>5, <1>1, <1>2 DEF ChecksInv, RunningOK, Checks!ReadCorpus
    <2>2. AllWhole(Checks!FindingsOf[command])
      <3>1. command \in {d \in Commands : d.corpus # None /\ ~Checks!Unusable(d)}
        BY <1>1, <1>2, <1>5 DEF ChecksInv, RunningOK, Named
      <3>2. Checks!FindingsOf[command] = Checks!CorpusFindings(command) BY <3>1 DEF Checks!FindingsOf
      <3> QED BY <3>2, CorpusIsWhole
    <2>3. DOMAIN step = {"command", "phase", "todo", "findings"} /\ step.command = command
          /\ step.findings = Checks!FindingsOf[command] /\ step.phase = Checks!AfterFindings(command)
      BY <1>2
    <2> HIDE DEF step
    <2> QED BY <1>2, <1>3, <2>1, <2>2, <2>3, NextPhase, RunMoves
  <1> QED BY <1>4, <1>5

LEMMA FileOpened ==
  ASSUME ChecksAssumption, ChecksInv, NEW r \in Runners, Checks!OpenFile(r)
  PROVE  ChecksInv'
  <1> DEFINE saved == running[r].command.save
             step == [running[r] EXCEPT !.phase = "write"]
  <1>1. running[r] # None /\ running[r].phase = "open" BY DEF Checks!OpenFile, Checks!Doing, Checks!Idle
  <1>2. DOMAIN running[r] = {"command", "phase", "todo", "findings"} /\ running[r].command \in Commands
        /\ AllWhole(running[r].findings) /\ Named("open", running[r].command)
    BY <1>1 DEF ChecksInv, RunningOK
  <1>3. saved \in Files BY <1>2 DEF Named, ChecksAssumption
  <1>4. running' = [running EXCEPT ![r] = step]
    BY <1>1 DEF ChecksInv, RunningOK, Checks!OpenFile
  <1>5. DOMAIN step = {"command", "phase", "todo", "findings"} /\ step.command = running[r].command
        /\ step.findings = running[r].findings /\ step.phase = "write"
    BY <1>2
  <1>6. RunningOK'
    <2> HIDE DEF step
    <2>1. Named("write", running[r].command) BY <1>2 DEF Named
    <2> QED BY <1>2, <1>4, <1>5, <2>1 DEF ChecksInv, RunningOK
  <1>7. UNCHANGED <<recorded, verdict>> BY DEF Checks!OpenFile
  <1>8. FilesOK'
    <2>1. baseline' = [baseline EXCEPT ![saved] = Checks!Torn] BY DEF Checks!OpenFile
    <2>2. Checks!Torn.prints = {} BY DEF Checks!Torn
    <2> HIDE DEF saved
    <2> QED BY <1>3, <1>7, <2>1, <2>2 DEF ChecksInv, FilesOK
  <1>9. VerdictOK' /\ Checks!BaselineHoldsTheLine' /\ BudgetOK' BY <1>7, VerdictStays DEF ChecksInv
  <1> QED BY <1>6, <1>8, <1>9 DEF ChecksInv

LEMMA FileWritten ==
  ASSUME ChecksAssumption, ChecksInv, NEW r \in Runners, Checks!WriteFile(r)
  PROVE  ChecksInv'
  <1> DEFINE saved == running[r].command.save
             found == running[r].findings
             phase == IF running[r].command.baseline = None THEN "gate" ELSE "compare"
             step == [running[r] EXCEPT !.phase = phase]
             text == [readable |-> TRUE, prints |-> { Checks!Fingerprint(f) : f \in found }]
  <1>1. running[r] # None /\ running[r].phase = "write" BY DEF Checks!WriteFile, Checks!Doing, Checks!Idle
  <1>2. DOMAIN running[r] = {"command", "phase", "todo", "findings"} /\ running[r].command \in Commands
        /\ AllWhole(found) /\ Named("write", running[r].command)
    BY <1>1 DEF ChecksInv, RunningOK
  <1>3. saved \in Files BY <1>2 DEF Named, ChecksAssumption
  <1>4. running' = [running EXCEPT ![r] = step]
    BY <1>1 DEF ChecksInv, RunningOK, Checks!WriteFile
  <1>5. DOMAIN step = {"command", "phase", "todo", "findings"} /\ step.command = running[r].command
        /\ step.findings = found /\ step.phase = phase
    BY <1>2
  <1>6. RunningOK'
    <2> HIDE DEF step
    <2>1. Named(phase, running[r].command) BY DEF Named
    <2> HIDE DEF phase, found
    <2> QED BY <1>2, <1>4, <1>5, <2>1 DEF ChecksInv, RunningOK
  <1>7. verdict' = verdict BY DEF Checks!WriteFile
  <1>8. PICK left : /\ baseline' = [baseline EXCEPT ![saved] = left] /\ left \in {text, Checks!Torn}
                    /\ recorded' = [recorded EXCEPT ![saved] = IF left = text THEN @ \cup found ELSE @]
    BY DEF Checks!WriteFile
  <1> DEFINE gained == IF left = text THEN found ELSE {}
  <1>9. AllWhole(gained) /\ \A print \in left.prints : \E g \in gained : print = Checks!Fingerprint(g)
    <2>1. text.prints = { Checks!Fingerprint(f) : f \in found } /\ Checks!Torn.prints = {}
      BY DEF Checks!Torn
    <2> HIDE DEF text, found
    <2> QED BY <1>2, <1>8, <2>1 DEF AllWhole
  <1>10. recorded' = [recorded EXCEPT ![saved] = @ \cup gained]
    <2> HIDE DEF saved, found, text
    <2> QED BY <1>8
  <1> HIDE DEF gained
  <1>13. FilesOK'
    <2> HIDE DEF saved, found, text
    <2> QED BY <1>3, <1>8, <1>9, <1>10 DEF ChecksInv, FilesOK, AllWhole
  <1>11. \A f \in Files : recorded[f] \subseteq recorded'[f]
    <2> HIDE DEF saved
    <2> QED BY <1>3, <1>10 DEF ChecksInv, FilesOK
  <1>12. VerdictOK' /\ Checks!BaselineHoldsTheLine' /\ BudgetOK'
    BY <1>7, <1>11, VerdictStays DEF ChecksInv
  <1> QED BY <1>6, <1>13, <1>12 DEF ChecksInv

LEMMA ComparisonEnds ==
  ASSUME ChecksAssumption, ChecksInv, NEW r \in Runners, Checks!Compare(r)
  PROVE  ChecksInv'
  <1> DEFINE command == running[r].command
             content == baseline[command.baseline]
             exit == IF ~content.readable THEN Checks!Unreadable(r)
                     ELSE Checks!GateNew(Checks!New(running[r].findings, content.prints), command.failOn)
  <1>1. running[r] # None /\ running[r].phase = "compare" BY DEF Checks!Compare, Checks!Doing, Checks!Idle
  <1>2. command \in Commands /\ AllWhole(running[r].findings) /\ Named("compare", command)
    BY <1>1 DEF ChecksInv, RunningOK
  <1>3. command.baseline \in Files BY <1>2 DEF Named, ChecksAssumption
  <1>4. Checks!End(r, exit, command.baseline) /\ UNCHANGED <<baseline, recorded>> BY DEF Checks!Compare
  <1>5. ASSUME exit = "ok", NEW f \in running[r].findings, f.severity \in Checks!Gating(command.failOn)
        PROVE  \E g \in recorded[command.baseline] : [g EXCEPT !.severity = f.severity] = f
    <2>1. content.readable
      BY <1>5 DEF Checks!Unreadable, Checks!SaysNoDrift
    <2>2. command.failOn # "never" BY <1>5 DEF Checks!Gating
    <2>3. Checks!New(running[r].findings, content.prints) = {}
      BY <1>5, <2>1, <2>2 DEF Checks!GateNew
    <2>4. Checks!Fingerprint(f) \in content.prints BY <1>5, <2>3 DEF Checks!New
    <2>5. PICK g \in recorded[command.baseline] : Checks!Fingerprint(f) = Checks!Fingerprint(g)
      BY <1>3, <2>4 DEF ChecksInv, FilesOK
    <2>6. Whole(f) /\ Whole(g) BY <1>2, <1>3, <1>5, <2>5 DEF ChecksInv, FilesOK, AllWhole
    <2> QED BY <2>5, <2>6, PrintsTell
  <1> HIDE DEF exit, content
  <1> QED BY <1>1, <1>3, <1>4, <1>5, RunEnds

-------------------------------------------------------------------------------
(* The call budget. *)

\* A window has a length where the file was not refused.
LEMMA WindowsAreNumbers ==
  ASSUME NEW text, text # None => text.n \in Nat, NEW length, length = Checks!ParseWindow(text),
         text # None, length # None
  PROVE  length \in Nat
  <1>1. text.unit \in DOMAIN Checks!UnitSeconds /\ length = text.n * Checks!UnitSeconds[text.unit]
    BY DEF Checks!ParseWindow
  <1>2. Checks!UnitSeconds[text.unit] \in {1, 60, 3600, 86400} BY <1>1 DEF Checks!UnitSeconds
  <1> DEFINE k == Checks!UnitSeconds[text.unit]
  <1>3. text.n \in Nat /\ k \in Nat BY <1>2
  <1> HIDE DEF k
  <1>4. text.n * k \in Nat BY <1>3
  <1> QED BY <1>1, <1>4 DEF k

LEMMA LimitsAreRead ==
  ASSUME ChecksAssumption, NEW b \in Budgets, Checks!LoadBudget(b) # None, NEW n \in DOMAIN b.limits
  PROVE  \E limit \in Checks!LoadBudget(b).limits :
           /\ limit.op = b.limits[n].op /\ limit.max = b.limits[n].max
           /\ limit.window = Checks!WindowOf(b, b.limits[n])
           /\ limit.max \in Nat /\ limit.window \in Nat
  <1> DEFINE l == b.limits[n]
             window == Checks!WindowOf(b, l)
             limit == [l EXCEPT !.window = window]
  <1>1. Checks!DefaultWindow(b) # None /\ l.max \in Nat /\ window # None
        /\ Checks!LoadBudget(b).limits
              = { [b.limits[i] EXCEPT !.window = Checks!WindowOf(b, b.limits[i])] : i \in DOMAIN b.limits }
    <2>1. ~ ( \/ ~b.parses \/ b.version # 1 \/ Checks!DefaultWindow(b) = None
              \/ \E i \in DOMAIN b.limits : \/ b.limits[i].max \notin Nat
                                             \/ Checks!WindowOf(b, b.limits[i]) = None )
      BY DEF Checks!LoadBudget
    <2> QED BY <2>1 DEF Checks!LoadBudget
  <1>2. limit \in Checks!LoadBudget(b).limits BY <1>1
  <1>3. DOMAIN l = {"op", "max", "window"} BY DEF ChecksAssumption
  <1>4. window \in Nat
    <2>1. CASE l.window # None
      BY <1>1, <2>1, WindowsAreNumbers DEF ChecksAssumption, Checks!WindowOf
    <2>2. CASE l.window = None
      <3>1. window = Checks!DefaultWindow(b) BY <2>2 DEF Checks!WindowOf
      <3> DEFINE text == IF b.window = None THEN [n |-> 1, unit |-> "h"] ELSE b.window
      <3>2. CASE b.window # None
        BY <1>1, <3>1, <3>2, WindowsAreNumbers DEF ChecksAssumption, Checks!DefaultWindow
      <3>3. CASE b.window = None
        <4>1. window = 1 * 3600
          BY <3>1, <3>3, <1>1 DEF Checks!DefaultWindow, Checks!ParseWindow, Checks!UnitSeconds
        <4> QED BY <4>1
      <3> QED BY <3>2, <3>3
    <2> QED BY <2>1, <2>2
  <1> HIDE DEF window
  <1>5. limit.op = l.op /\ limit.max = l.max /\ limit.window = window BY <1>3
  <1> QED BY <1>1, <1>2, <1>4, <1>5 DEF window

\* The busiest window is at least as busy as any that ends with a call.
LEMMA BusiestIsMost ==
  ASSUME NEW instants, IsFiniteSet(DOMAIN instants), NEW window, NEW e \in DOMAIN instants
  PROVE  /\ Checks!BusiestWindow(instants, window) \in Int
         /\ Cardinality({ i \in DOMAIN instants : instants[i] <= instants[e] /\ instants[e] - instants[i] <= window })
              <= Checks!BusiestWindow(instants, window)
  <1> DEFINE during(c) == { i \in DOMAIN instants :
                              instants[i] <= instants[c] /\ instants[c] - instants[i] <= window }
             counts == { Cardinality(during(c)) : c \in DOMAIN instants }
             most == CHOOSE x \in counts : \A y \in counts : y <= x
  <1>1. \A c \in DOMAIN instants : IsFiniteSet(during(c)) /\ Cardinality(during(c)) \in Nat
                                    /\ Cardinality(during(c)) <= Cardinality(DOMAIN instants)
    <2> TAKE c \in DOMAIN instants
    <2>1. during(c) \subseteq DOMAIN instants OBVIOUS
    <2> HIDE DEF during
    <2> QED BY <2>1, FS_Subset, FS_CardinalityType
  <1>2. counts \in SUBSET Int /\ counts # {}
    <2> HIDE DEF during
    <2> QED BY <1>1
  <1>3. Cardinality(DOMAIN instants) \in Int /\ \A y \in counts : y <= Cardinality(DOMAIN instants)
    <2> HIDE DEF during
    <2> QED BY <1>1, FS_CardinalityType
  <1>4. \E x \in counts : \A y \in counts : y <= x
    <2> HIDE DEF counts
    <2> QED BY <1>2, <1>3, Highest
  <1>5. Cardinality(during(e)) \in counts OBVIOUS
  <1>6. Cardinality(during(e)) <= most /\ most \in Int
    <2> HIDE DEF counts, during
    <2> QED BY <1>2, <1>4, <1>5
  <1>7. Checks!BusiestWindow(instants, window) = most
    <2>1. DOMAIN instants # {} OBVIOUS
    <2> QED BY <2>1, ChecksCount, Zenon DEF Checks!BusiestWindow, Checks!Most
  <1> HIDE DEF most
  <1> QED BY <1>6, <1>7

\* The calls of the window that starts with a call.
From(instants, window, i0) == { i \in DOMAIN instants : instants[i] \in instants[i0] .. (instants[i0] + window) }

\* ... or as any at all, wherever it starts: what it holds is in the one that ends with
\* its latest call.
LEMMA BusiestIsMostAnywhere ==
  ASSUME NEW instants, IsFiniteSet(DOMAIN instants), \A i \in DOMAIN instants : instants[i] \in Int,
         NEW window \in Nat, NEW i0 \in DOMAIN instants, NEW limit \in Nat,
         Checks!BusiestWindow(instants, window) <= limit
  PROVE  Cardinality(From(instants, window, i0)) <= limit
  <1> DEFINE start == instants[i0]
             S == { i \in DOMAIN instants : instants[i] \in start .. (start + window) }
             ats == { instants[i] : i \in S }
  <1>1. start \in Int /\ start \in start .. (start + window) OBVIOUS
  <1> HIDE DEF start
  <1>2. PICK e \in S : \A i \in S : instants[i] <= instants[e]
    <2>1. ats \in SUBSET Int /\ ats # {} /\ start + window \in Int /\ \A x \in ats : x <= start + window
      BY <1>1 DEF start
    <2>2. \E x \in ats : \A y \in ats : y <= x
      <3> HIDE DEF ats
      <3> QED BY <2>1, Highest
    <2> QED BY <2>2
  <1> DEFINE during == { i \in DOMAIN instants : instants[i] <= instants[e] /\ instants[e] - instants[i] <= window }
  <1>3. S \subseteq during /\ e \in DOMAIN instants
    <2>1. ASSUME NEW i \in S PROVE i \in during
      <3>1. instants[i] \in start .. (start + window) /\ instants[e] \in start .. (start + window)
            /\ instants[i] <= instants[e]
        BY <1>2
      <3>2. instants[e] - instants[i] <= window BY <1>1, <3>1
      <3> QED BY <3>1, <3>2
    <2> QED BY <2>1
  <1>4. Cardinality(S) <= Cardinality(during) /\ Cardinality(S) \in Nat /\ Cardinality(during) \in Nat
    <2>1. during \subseteq DOMAIN instants OBVIOUS
    <2> HIDE DEF S, during
    <2> QED BY <1>3, <2>1, FS_Subset, FS_CardinalityType
  <1>5. /\ Checks!BusiestWindow(instants, window) \in Int
        /\ Cardinality(during) <= Checks!BusiestWindow(instants, window)
    BY <1>3, BusiestIsMost
  <1>6. Cardinality(S) <= limit
    <2> HIDE DEF S, during
    <2> QED BY <1>4, <1>5
  <1> QED BY <1>6 DEF S, start, From

\* A limit that was used and over which no error is found: it allows a call, and no window that
\* ends with one holds more than it allows; without a warning every call says when it was made.
LEMMA NothingFound ==
  ASSUME NEW limit, limit.max \in Nat, NEW calls, IsFiniteSet(DOMAIN calls),
         \A f \in Checks!LimitFindings(limit, calls) : f.severity # "ERROR",
         NEW i0 \in DOMAIN calls, calls[i0].op = limit.op
  PROVE  /\ limit.max # 0
         /\ ~(Checks!BusiestWindow(Checks!Instants(calls, limit.op), limit.window) > limit.max)
         /\ (\A f \in Checks!LimitFindings(limit, calls) : f.severity # "WARN") =>
              \A i \in DOMAIN calls : calls[i].op = limit.op => calls[i].at # None
  <1> DEFINE all == { i \in DOMAIN calls : calls[i].op = limit.op }
             dated == { i \in DOMAIN calls : calls[i].op = limit.op /\ calls[i].at # None }
             instants == Checks!Instants(calls, limit.op)
             total == Checks!Total(calls, limit.op)
             busiest == Checks!BusiestWindow(instants, limit.window)
  <1>1. IsFiniteSet(all) /\ IsFiniteSet(dated) /\ dated \subseteq all /\ i0 \in all
    BY FS_Subset
  <1>2. total = Cardinality(all) BY ChecksCount DEF Checks!Total
  <1>3. total \in Nat /\ total > 0
    <2> HIDE DEF all, total
    <2> QED BY <1>1, <1>2, FS_CardinalityType, FS_EmptySet
  <1>4. DOMAIN instants = dated BY DEF Checks!Instants
  <1> HIDE DEF all, dated, instants, total, busiest
  <1>5. limit.max # 0
    <2> SUFFICES ASSUME limit.max = 0 PROVE FALSE OBVIOUS
    <2>1. Checks!LimitFindings(limit, calls) = {Checks!BudgetFinding("BUDGET-FORBIDDEN", "ERROR", limit.op)}
      BY <1>3 DEF Checks!LimitFindings, total
    <2> QED BY <2>1 DEF Checks!BudgetFinding
  <1>6. Checks!LimitFindings(limit, calls)
          = (IF busiest > limit.max THEN {Checks!BudgetFinding("BUDGET-EXCEEDED", "ERROR", limit.op)} ELSE {})
            \cup (IF Checks!Cardinality(DOMAIN instants) < total
                  THEN {Checks!BudgetFinding("BUDGET-UNDATED-CALLS", "WARN", limit.op)} ELSE {})
    BY <1>3, <1>5 DEF Checks!LimitFindings, total, busiest, instants
  <1>7. ~(busiest > limit.max)
    <2> SUFFICES ASSUME busiest > limit.max PROVE FALSE OBVIOUS
    <2> DEFINE f == Checks!BudgetFinding("BUDGET-EXCEEDED", "ERROR", limit.op)
    <2>1. f.severity = "ERROR" BY DEF Checks!BudgetFinding
    <2> HIDE DEF f
    <2>2. f \in Checks!LimitFindings(limit, calls) BY <1>6 DEF f
    <2> QED BY <2>1, <2>2
  <1>8. ASSUME \A f \in Checks!LimitFindings(limit, calls) : f.severity # "WARN"
        PROVE  \A i \in DOMAIN calls : calls[i].op = limit.op => calls[i].at # None
    <2>1. ~(Cardinality(dated) < Cardinality(all))
      <3> SUFFICES ASSUME Cardinality(dated) < Cardinality(all) PROVE FALSE OBVIOUS
      <3> DEFINE f == Checks!BudgetFinding("BUDGET-UNDATED-CALLS", "WARN", limit.op)
      <3>1. f.severity = "WARN" BY DEF Checks!BudgetFinding
      <3>2. Checks!Cardinality(DOMAIN instants) < total BY <1>2, <1>4, ChecksCount
      <3> HIDE DEF f
      <3>3. f \in Checks!LimitFindings(limit, calls) BY <1>6, <3>2 DEF f
      <3> QED BY <1>8, <3>1, <3>3
    <2>2. dated = all
      <3>1. Cardinality(dated) \in Nat /\ Cardinality(all) \in Nat /\ Cardinality(dated) <= Cardinality(all)
        BY <1>1, FS_Subset, FS_CardinalityType
      <3> QED BY <1>1, <2>1, <3>1, FS_Subset
    <2>3. \A i \in all : calls[i].at # None BY <2>2 DEF dated
    <2> QED BY <2>3 DEF all
  <1> QED BY <1>5, <1>7, <1>8 DEF busiest, instants

\* The calls of a recording, as evaluate is given them.
LEMMA CallsAre ==
  ASSUME ChecksAssumption, NEW c \in Checks!Readable, NEW calls, calls = Checks!CallsOf(Ops, Corpora[c])
  PROVE  /\ DOMAIN calls = Checks!Called(Ops, Corpora[c]) /\ IsFiniteSet(DOMAIN calls)
         /\ \A i \in DOMAIN calls : /\ calls[i].op = Checks!KeyOf(Checks!OperationOf(Ops, Corpora[c][i]))
                                    /\ calls[i].at = Corpora[c][i].at /\ calls[i].at \in Int \cup {None}
         /\ \A key : Checks!CallsTo(c, key) = { i \in DOMAIN calls : calls[i].op = key }
  <1>1. c \in DOMAIN Corpora /\ Corpora[c] # None BY DEF Checks!Readable
  <1>2. /\ DOMAIN calls = Checks!Called(Ops, Corpora[c])
        /\ \A i \in DOMAIN calls : /\ calls[i].op = Checks!KeyOf(Checks!OperationOf(Ops, Corpora[c][i]))
                                   /\ calls[i].at = Corpora[c][i].at
    BY DEF Checks!CallsOf
  <1>3. DOMAIN calls \subseteq DOMAIN Corpora[c] BY <1>2 DEF Checks!Called
  <1>4. IsFiniteSet(DOMAIN Corpora[c]) /\ \A i \in DOMAIN Corpora[c] : Corpora[c][i].at \in Int \cup {None}
    BY <1>1 DEF ChecksAssumption
  <1>5. IsFiniteSet(DOMAIN calls) BY <1>3, <1>4, FS_Subset
  <1>6. \A i \in DOMAIN calls : calls[i].at \in Int \cup {None} BY <1>2, <1>3, <1>4
  <1>7. \A key : Checks!CallsTo(c, key) = { i \in DOMAIN calls : calls[i].op = key }
    BY <1>2 DEF Checks!CallsTo
  <1> QED BY <1>2, <1>5, <1>6, <1>7

\* One limit of a file that passes.
LEMMA PassedLimit ==
  ASSUME ChecksAssumption, NEW c \in Checks!Readable, NEW b \in Budgets, Checks!LoadBudget(b) # None,
         NEW failOn, NEW n \in DOMAIN b.limits,
         \A limit \in Checks!LoadBudget(b).limits :
           \A f \in Checks!LimitFindings(limit, Checks!CallsOf(Ops, Corpora[c])) :
             f.severity # "ERROR" /\ (failOn # "error" => f.severity # "WARN")
  PROVE  LET l == b.limits[n]
             all == Checks!CallsTo(c, l.op)
             at == [i \in all |-> Corpora[c][i].at]
             dated == { i \in all : at[i] # None }
         IN /\ \A start \in { at[i] : i \in dated } :
                 Cardinality({ i \in dated : at[i] \in start .. (start + Checks!WindowOf(b, l)) }) <= l.max
            /\ failOn # "error" => dated = all
            /\ l.max = 0 => all = {}
  <1> DEFINE calls == Checks!CallsOf(Ops, Corpora[c])
             op == b.limits[n].op
             max == b.limits[n].max
             window == Checks!WindowOf(b, b.limits[n])
             all == Checks!CallsTo(c, op)
             at == [i \in all |-> Corpora[c][i].at]
             dated == { i \in all : at[i] # None }
             instants == Checks!Instants(calls, op)
  <1>1. /\ IsFiniteSet(DOMAIN calls) /\ all = { i \in DOMAIN calls : calls[i].op = op }
        /\ \A i \in DOMAIN calls : calls[i].at = Corpora[c][i].at /\ calls[i].at \in Int \cup {None}
    <2> HIDE DEF op, calls
    <2> QED BY CallsAre DEF calls
  <1>2. PICK limit \in Checks!LoadBudget(b).limits :
          limit.op = op /\ limit.max = max /\ limit.window = window /\ limit.max \in Nat /\ limit.window \in Nat
    BY LimitsAreRead
  <1>3. \A f \in Checks!LimitFindings(limit, calls) : f.severity # "ERROR" /\ (failOn # "error" => f.severity # "WARN")
    OBVIOUS
  <1> HIDE DEF calls, op, max, window, all, instants
  <1>4. ASSUME NEW i0 \in all
        PROVE  /\ max # 0 /\ ~(Checks!BusiestWindow(instants, window) > max)
               /\ failOn # "error" => \A i \in all : calls[i].at # None
    <2>1. i0 \in DOMAIN calls /\ calls[i0].op = limit.op BY <1>1, <1>2
    <2>2. /\ limit.max # 0
          /\ ~(Checks!BusiestWindow(Checks!Instants(calls, limit.op), limit.window) > limit.max)
          /\ (\A f \in Checks!LimitFindings(limit, calls) : f.severity # "WARN") =>
               \A i \in DOMAIN calls : calls[i].op = limit.op => calls[i].at # None
      BY <1>1, <1>2, <1>3, <2>1, NothingFound
    <2> QED BY <1>1, <1>2, <1>3, <2>2 DEF instants
  <1>5. DOMAIN instants = dated /\ \A i \in dated : instants[i] = Corpora[c][i].at /\ instants[i] \in Int
    <2>1. dated = { i \in DOMAIN calls : calls[i].op = op /\ calls[i].at # None } BY <1>1
    <2>2. instants = [i \in dated |-> calls[i].at] BY <2>1 DEF instants, Checks!Instants
    <2> QED BY <1>1, <2>1, <2>2
  <1>6. failOn # "error" => dated = all BY <1>1, <1>4
  <1>7. max = 0 => all = {} BY <1>4
  <1>8. ASSUME NEW i0 \in dated
        PROVE  Cardinality({ i \in dated : at[i] \in at[i0] .. (at[i0] + window) }) <= max
    <2>1. IsFiniteSet(dated) BY <1>1, FS_Subset
    <2>2. Checks!BusiestWindow(instants, window) \in Int BY <1>5, <2>1, BusiestIsMost
    <2>3. Checks!BusiestWindow(instants, window) <= max BY <1>2, <1>4, <2>2
    <2>4. From(instants, window, i0) = { i \in dated : at[i] \in at[i0] .. (at[i0] + window) }
      BY <1>5 DEF From
    <2>5. Cardinality(From(instants, window, i0)) <= max
      <3> HIDE DEF dated
      <3> QED BY <1>2, <1>5, <2>1, <2>3, BusiestIsMostAnywhere
    <2> HIDE DEF dated, at
    <2> QED BY <2>4, <2>5
  <1> QED BY <1>6, <1>7, <1>8 DEF op, max, window, all

\* A file that passes keeps its budget, wherever a window starts.
LEMMA PassedBudget ==
  ASSUME ChecksAssumption, NEW c \in Checks!Readable, NEW b \in Budgets, Checks!LoadBudget(b) # None,
         NEW failOn \in Checks!FailOns, failOn # "never",
         Checks!Gate(Checks!BudgetFindings[<<c, b>>], failOn) = "ok"
  PROVE  BudgetKept(c, b, failOn)
  <1> DEFINE calls == Checks!CallsOf(Ops, Corpora[c])
             declared == { Checks!KeyOf(Ops[i]) : i \in DOMAIN Ops }
             budget == Checks!LoadBudget(b)
             findings == Checks!EvaluateBudget(budget, calls, declared)
             unlimited == { calls[i].op : i \in DOMAIN calls } \ { l.op : l \in budget.limits }
  <1>1. \A f \in findings : f.severity # "ERROR" /\ (failOn # "error" => f.severity # "WARN")
    <2>1. Checks!BudgetFindings[<<c, b>>] = findings BY DEF Checks!BudgetFindings
    <2> HIDE DEF findings
    <2>2. Checks!Gating(failOn) = IF failOn = "error" THEN {"ERROR"} ELSE {"WARN", "ERROR"}
      BY DEF Checks!Gating, Checks!FailOns
    <2> QED BY <2>1, <2>2 DEF Checks!Gate
  <1>2. /\ \A limit \in budget.limits : Checks!LimitFindings(limit, calls) \subseteq findings
        /\ \A op \in unlimited :
             Checks!BudgetFinding("BUDGET-UNBUDGETED", IF budget.deny THEN "ERROR" ELSE "INFO", op) \in findings
    <2> HIDE DEF calls, declared, budget
    <2> QED BY DEF Checks!EvaluateBudget
  <1> HIDE DEF findings
  <1>3. \A limit \in budget.limits : \A f \in Checks!LimitFindings(limit, calls) :
          f.severity # "ERROR" /\ (failOn # "error" => f.severity # "WARN")
    <2> HIDE DEF budget, calls
    <2> QED BY <1>1, <1>2
  <1>4. b.deny => \A i \in Checks!Called(Ops, Corpora[c]) : \E n \in DOMAIN b.limits :
                    b.limits[n].op = Checks!KeyOf(Checks!OperationOf(Ops, Corpora[c][i]))
    <2> SUFFICES ASSUME b.deny, NEW i \in Checks!Called(Ops, Corpora[c])
                 PROVE  \E n \in DOMAIN b.limits :
                          b.limits[n].op = Checks!KeyOf(Checks!OperationOf(Ops, Corpora[c][i]))
      OBVIOUS
    <2>1. i \in DOMAIN calls /\ calls[i].op = Checks!KeyOf(Checks!OperationOf(Ops, Corpora[c][i]))
      BY CallsAre
    <2>2. budget.deny
      BY DEF Checks!LoadBudget
    <2>3. budget.limits = { [b.limits[k] EXCEPT !.window = Checks!WindowOf(b, b.limits[k])] : k \in DOMAIN b.limits }
      BY DEF Checks!LoadBudget
    <2> HIDE DEF calls, budget
    <2>4. \A op : Checks!BudgetFinding("BUDGET-UNBUDGETED", "ERROR", op).severity = "ERROR"
      BY DEF Checks!BudgetFinding
    <2>5. unlimited = {}
      <3> SUFFICES ASSUME NEW op \in unlimited PROVE FALSE OBVIOUS
      <3> QED BY <1>1, <1>2, <2>2, <2>4
    <2>6. PICK limit \in budget.limits : limit.op = calls[i].op BY <2>1, <2>5
    <2>7. PICK n \in DOMAIN b.limits : limit = [b.limits[n] EXCEPT !.window = Checks!WindowOf(b, b.limits[n])]
      BY <2>3
    <2>8. DOMAIN b.limits[n] = {"op", "max", "window"} BY DEF ChecksAssumption
    <2>9. limit.op = b.limits[n].op BY <2>7, <2>8
    <2> QED BY <2>1, <2>6, <2>9
  <1> HIDE DEF calls
  <1> QED BY <1>3, <1>4, PassedLimit DEF BudgetKept, calls

-------------------------------------------------------------------------------
(* The steps of the checks, together. *)

LEMMA JustGated ==
  ASSUME ChecksAssumption, ChecksInv, NEW r \in Runners, Checks!JustGate(r)
  PROVE  ChecksInv'
  <1>1. running[r] # None BY DEF Checks!JustGate, Checks!Doing, Checks!Idle
  <1>2. UNCHANGED <<baseline, recorded>> BY DEF Checks!JustGate
  <1>3. PICK exit : Checks!End(r, exit, None) BY DEF Checks!JustGate
  <1> QED BY <1>1, <1>2, <1>3, RunEnds

LEMMA Killed ==
  ASSUME ChecksInv, NEW r \in Runners, Checks!Kill(r)
  PROVE  ChecksInv'
  <1>1. running' = [running EXCEPT ![r] = None] /\ UNCHANGED <<baseline, recorded, verdict>>
    BY DEF Checks!Kill
  <1> QED BY <1>1, RunMoves

\* A verdict on something else than drift.
LEMMA OtherVerdict ==
  ASSUME ChecksInv, UNCHANGED <<baseline, recorded, running>>, verdict'.kind # "drift", BudgetOK'
  PROVE  ChecksInv'
  <1>1. FilesOK' BY FilesAreLeftAlone DEF ChecksInv
  <1>2. RunningOK' BY DEF ChecksInv, RunningOK
  <1> QED BY <1>1, <1>2 DEF ChecksInv, VerdictOK, Checks!BaselineHoldsTheLine

LEMMA BudgetJudged ==
  ASSUME ChecksAssumption, ChecksInv, Checks!Budget
  PROVE  ChecksInv'
  <1>1. PICK c \in Checks!Readable, b \in Budgets, failOn \in Checks!FailOns :
          verdict' = [kind |-> "budget", corpus |-> c, budget |-> b, failOn |-> failOn,
                      exit |-> IF Checks!LoadBudget(b) = None THEN "usage"
                               ELSE Checks!Gate(Checks!BudgetFindings[<<c, b>>], failOn)]
    BY DEF Checks!Budget
  <1>2. verdict'.kind = "budget" /\ verdict'.corpus = c /\ verdict'.budget = b /\ verdict'.failOn = failOn
    BY <1>1
  <1>3. verdict'.exit = "ok" /\ failOn # "never" => BudgetKept(c, b, failOn)
    <2> SUFFICES ASSUME verdict'.exit = "ok", failOn # "never" PROVE BudgetKept(c, b, failOn) OBVIOUS
    <2>1. Checks!LoadBudget(b) # None /\ Checks!Gate(Checks!BudgetFindings[<<c, b>>], failOn) = "ok" BY <1>1
    <2> QED BY <2>1, PassedBudget
  <1>4. BudgetOK'
    <2> SUFFICES ASSUME verdict'.exit = "ok", verdict'.failOn # "never"
                 PROVE  BudgetKept(verdict.corpus, verdict.budget, verdict.failOn)'
      BY DEF BudgetOK
    <2>1. BudgetKept(verdict'.corpus, verdict'.budget, verdict'.failOn) BY <1>2, <1>3
    <2> QED BY <2>1 DEF BudgetKept
  <1>5. UNCHANGED <<baseline, recorded, running>> BY DEF Checks!Budget
  <1>6. verdict'.kind # "drift" BY <1>2
  <1> QED BY <1>4, <1>5, <1>6, OtherVerdict

LEMMA GhostsProbed ==
  ASSUME ChecksInv, Checks!Ghosts
  PROVE  ChecksInv'
  <1>1. \E found, exit : verdict' = [kind |-> "ghosts", exit |-> exit, findings |-> found]
    BY Zenon DEF Checks!Ghosts
  <1>2. UNCHANGED <<baseline, recorded, running>> BY DEF Checks!Ghosts
  <1>3. verdict'.kind = "ghosts" BY <1>1
  <1> QED BY <1>2, <1>3, OtherVerdict DEF BudgetOK

LEMMA NothingMoved ==
  ASSUME ChecksInv, UNCHANGED <<baseline, recorded, running, verdict>>
  PROVE  ChecksInv'
  <1>1. FilesOK' BY FilesAreLeftAlone DEF ChecksInv
  <1>2. VerdictOK' /\ Checks!BaselineHoldsTheLine' /\ BudgetOK' BY VerdictStays DEF ChecksInv
  <1>3. RunningOK' BY DEF ChecksInv, RunningOK
  <1> QED BY <1>1, <1>2, <1>3 DEF ChecksInv

LEMMA ChecksBegin == Checks!Init => ChecksInv
  BY DEF Checks!Init, ChecksInv, FilesOK, AllWhole, RunningOK, VerdictOK, BudgetOK,
         Checks!BaselineHoldsTheLine, Checks!Torn

LEMMA ChecksGoOn ==
  ASSUME ChecksAssumption
  PROVE  ChecksInv /\ [Checks!Next]_checkVars => ChecksInv'
  <1> SUFFICES ASSUME ChecksInv, [Checks!Next]_checkVars PROVE ChecksInv' OBVIOUS
  <1>1. ASSUME NEW r \in Runners, Checks!StartDrift(r) PROVE ChecksInv' BY <1>1, DriftStarted
  <1>2. ASSUME NEW r \in Runners, Checks!Probe(r) PROVE ChecksInv' BY <1>2, ProbeAnswered
  <1>3. ASSUME NEW r \in Runners, Checks!ReadCorpus(r) PROVE ChecksInv' BY <1>3, CorpusRead
  <1>4. ASSUME NEW r \in Runners, Checks!OpenFile(r) PROVE ChecksInv' BY <1>4, FileOpened
  <1>5. ASSUME NEW r \in Runners, Checks!WriteFile(r) PROVE ChecksInv' BY <1>5, FileWritten
  <1>6. ASSUME NEW r \in Runners, Checks!Compare(r) PROVE ChecksInv' BY <1>6, ComparisonEnds
  <1>7. ASSUME NEW r \in Runners, Checks!JustGate(r) PROVE ChecksInv' BY <1>7, JustGated
  <1>8. ASSUME NEW r \in Runners, Checks!Kill(r) PROVE ChecksInv' BY <1>8, Killed
  <1>9. CASE Checks!Budget BY <1>9, BudgetJudged
  <1>10. CASE Checks!Ghosts BY <1>10, GhostsProbed
  <1>11. CASE Checks!Rollout BY <1>11, NothingMoved DEF Checks!Rollout
  <1>12. CASE UNCHANGED checkVars BY <1>12, NothingMoved DEF checkVars
  <1> QED BY <1>1, <1>2, <1>3, <1>4, <1>5, <1>6, <1>7, <1>8, <1>9, <1>10, <1>11, <1>12 DEF Checks!Next

\* However many jobs of a pipeline share the baseline files, and whichever of them are
\* cancelled halfway: what passes against a baseline was completely recorded in it before;
\* and what passes a budget keeps it, whatever the project lets a run fail on: in every
\* window, wherever that starts, for every call that is dated, and all are unless only
\* errors fail (_gate, _with_baseline, classify, fingerprint, load_budget, evaluate).
THEOREM PassesAreEarned ==
  ASSUME ChecksAssumption
  PROVE  CommandsSpec => []PassIsEarned
  <1> DEFINE StageInv == stage = "checks" => ChecksInv
  <1>1. CommandsInit => StageInv BY ChecksBegin DEF CommandsInit
  <1>2. StageInv /\ [CommandsNext]_commandVars => StageInv'
    <2> SUFFICES ASSUME StageInv, [CommandsNext]_commandVars, stage' = "checks" PROVE ChecksInv' OBVIOUS
    <2>1. stage = "checks" /\ [Checks!Next]_checkVars BY DEF CommandsNext, commandVars, checkVars
    <2> QED BY <2>1, ChecksGoOn
  <1>3. StageInv => PassIsEarned BY BudgetIsKept DEF ChecksInv, PassIsEarned
  <1> QED BY <1>1, <1>2, <1>3, PTL DEF CommandsSpec

-------------------------------------------------------------------------------
(* Load runs. *)

LEMMA LoadsCount == \A S : Loads!Cardinality(S) = Cardinality(S)
  BY DEF Loads!Cardinality, Cardinality

\* A load run between two steps: what began was handed over before and was due by then.
\* A request waits in the queue only while every thread is out.
LoadOK(l, now) ==
  /\ DOMAIN l = {"due", "late", "woken", "began", "out", "sent", "errors", "crowded"}
  /\ l.due \in Seq(Nat) /\ l.late \in Seq(Int) /\ l.began \in Seq(Nat)
  /\ l.sent \in Nat /\ l.errors \in Nat
  /\ Len(l.began) <= Len(l.late) /\ Len(l.late) <= Len(l.due)
  /\ l.out \subseteq 1..Len(l.began)
  /\ l.sent + l.errors + Cardinality(l.out) = Len(l.began)
  /\ Cardinality(l.out) <= PoolSize
  /\ Len(l.began) < Len(l.late) => Cardinality(l.out) = PoolSize
  /\ \A r \in 1..Len(l.late) : l.due[r] <= now
  /\ \A r \in 1..Len(l.began) : l.due[r] <= l.began[r]
  /\ l.crowded = {} => Len(l.began) = Len(l.late)
                       /\ \A r \in 1..Len(l.began) : l.began[r] = l.due[r] + l.late[r]

\* What LoadIsAsAsked says of a report.
AsAsked(l) ==
  LET begun(t) == Cardinality({ r \in DOMAIN l.began : l.began[r] <= t })
      due(t) == Cardinality({ r \in DOMAIN l.due : l.due[r] <= t })
  IN /\ l.sent + l.errors = Len(l.due)
     /\ \A t \in 0..MaxClock :
          /\ begun(t) <= due(t)
          /\ Loads!KeptUp(l) /\ l.crowded = {} => begun(t) >= due(t - TicksPerSlot)

ReportOK == ended # None /\ ended.command = "shape" /\ ended.exit # Loads!USAGE => AsAsked(ended.report)

LoadInv == /\ clock \in Nat
           /\ load # None => LoadOK(load, clock)
           /\ ReportOK

LEMMA ReportIsAsAsked == ReportOK => Loads!LoadIsAsAsked
  BY LoadsCount, Zenon DEF ReportOK, AsAsked, Loads!LoadIsAsAsked

\* The requests before a time, of two runs.
LEMMA FewerBy ==
  ASSUME NEW a \in Seq(Int), NEW b \in Seq(Int), NEW s \in Int, NEW t \in Int,
         \A r \in 1..Len(a) : a[r] <= s => r \in 1..Len(b) /\ b[r] <= t
  PROVE  Cardinality({ r \in DOMAIN a : a[r] <= s }) <= Cardinality({ r \in DOMAIN b : b[r] <= t })
  <1> DEFINE A == { r \in DOMAIN a : a[r] <= s }
             B == { r \in DOMAIN b : b[r] <= t }
  <1>1. IsFiniteSet(1..Len(b)) /\ B \subseteq 1..Len(b) BY FS_Interval
  <1>2. A \subseteq B OBVIOUS
  <1> HIDE DEF A, B
  <1>3. IsFiniteSet(B) BY <1>1, FS_Subset
  <1>4. Cardinality(A) <= Cardinality(B) BY <1>2, <1>3, FS_Subset
  <1> QED BY <1>4 DEF A, B

LEMMA CountsAreNumbers ==
  ASSUME NEW a \in Seq(Int), NEW s PROVE Cardinality({ r \in DOMAIN a : a[r] <= s }) \in Nat
  <1> DEFINE A == { r \in DOMAIN a : a[r] <= s }
  <1>1. IsFiniteSet(1..Len(a)) /\ A \subseteq 1..Len(a) BY FS_Interval
  <1> HIDE DEF A
  <1>2. Cardinality(A) \in Nat BY <1>1, FS_Subset, FS_CardinalityType
  <1> QED BY <1>2 DEF A

\* Everything was handed over and came back.
LEMMA FinishedIsAsAsked ==
  ASSUME PerformanceAssumption, NEW l, NEW now, LoadOK(l, now), Len(l.late) = Len(l.due), l.out = {}
  PROVE  AsAsked(l)
  <1>1. Cardinality(l.out) = 0 BY FS_EmptySet
  <1>2. Len(l.began) = Len(l.due) /\ l.sent + l.errors = Len(l.due)
    <2>1. l.sent \in Nat /\ l.errors \in Nat /\ l.sent + l.errors + 0 = Len(l.began) /\ Len(l.began) \in Nat
          /\ Len(l.began) <= Len(l.late) /\ Len(l.late) \in Nat /\ ~(Len(l.began) < Len(l.late))
      BY <1>1 DEF LoadOK, PerformanceAssumption
    <2> QED BY <2>1
  <1>3. l.due \in Seq(Int) /\ l.began \in Seq(Int) /\ l.late \in Seq(Int) BY SMTT(30) DEF LoadOK
  <1>4. ASSUME NEW t \in 0..MaxClock
        PROVE  Cardinality({ r \in DOMAIN l.began : l.began[r] <= t })
                 <= Cardinality({ r \in DOMAIN l.due : l.due[r] <= t })
    <2>1. t \in Int BY DEF PerformanceAssumption
    <2>2. \A r \in 1..Len(l.began) : l.began[r] <= t => r \in 1..Len(l.due) /\ l.due[r] <= t
      <3> TAKE r \in 1..Len(l.began)
      <3>1. l.due[r] <= l.began[r] BY DEF LoadOK
      <3>2. l.due[r] \in Int /\ l.began[r] \in Int BY <1>2, <1>3
      <3> QED BY <3>1, <3>2, <2>1, <1>2
    <2> QED BY <1>3, <2>1, <2>2, FewerBy
  <1>5. ASSUME NEW t \in 0..MaxClock, Loads!KeptUp(l), l.crowded = {}
        PROVE  Cardinality({ r \in DOMAIN l.due : l.due[r] <= t - TicksPerSlot })
                 <= Cardinality({ r \in DOMAIN l.began : l.began[r] <= t })
    <2>1. t \in Int /\ TicksPerSlot \in Int /\ t - TicksPerSlot \in Int BY DEF PerformanceAssumption
    <2>2. \A r \in 1..Len(l.due) : l.due[r] <= t - TicksPerSlot => r \in 1..Len(l.began) /\ l.began[r] <= t
      <3> TAKE r \in 1..Len(l.due)
      <3>1. r \in DOMAIN l.late BY <1>3
      <3>2. l.late[r] <= TicksPerSlot BY <1>5, <3>1 DEF Loads!KeptUp
      <3>3. l.began[r] = l.due[r] + l.late[r] BY <1>2, <1>5 DEF LoadOK
      <3>4. l.due[r] \in Int /\ l.late[r] \in Int BY <1>3
      <3> QED BY <3>2, <3>3, <3>4, <2>1, <1>2
    <2> QED BY <1>3, <2>1, <2>2, FewerBy
  <1>6. \A t \in 0..MaxClock : Cardinality({ r \in DOMAIN l.due : l.due[r] <= t - TicksPerSlot }) \in Nat
          /\ Cardinality({ r \in DOMAIN l.began : l.began[r] <= t }) \in Nat
    BY CountsAreNumbers, <1>3
  <1> QED BY <1>2, <1>4, <1>5, <1>6 DEF AsAsked

\* A schedule begins with nothing handed over.
LEMMA LoadStarts ==
  ASSUME PerformanceAssumption, NEW p \in Profiles, NEW times \in Loads!Schedules(p)
  PROVE  LoadOK([due |-> times, late |-> <<>>, woken |-> 0, began |-> <<>>, out |-> {},
                 sent |-> 0, errors |-> 0, crowded |-> {}], 0)
  <1> DEFINE l == [due |-> times, late |-> <<>>, woken |-> 0, began |-> <<>>, out |-> {},
                   sent |-> 0, errors |-> 0, crowded |-> {}]
  <1>1. times \in Seq(Nat)
    <2> DEFINE top == p.slots * TicksPerSlot - 1
               most == p.slots * MaxBurst
    <2>1. PICK n \in 0..most : times \in [1..n -> 0..top] BY DEF Loads!Schedules
    <2>2. top \in Int /\ most \in Int
      <3> DEFINE k == p.slots
      <3>1. k \in Nat /\ TicksPerSlot \in Nat /\ MaxBurst \in Nat BY DEF PerformanceAssumption
      <3> HIDE DEF k
      <3>2. k * TicksPerSlot \in Nat /\ k * MaxBurst \in Nat BY <3>1
      <3>3. k * TicksPerSlot - 1 \in Int BY <3>2
      <3> QED BY <3>2, <3>3 DEF k
    <2> HIDE DEF top, most
    <2>3. n \in Nat /\ 0..top \subseteq Nat BY <2>1, <2>2
    <2>4. times \in [1..n -> Nat] BY <2>1, <2>3
    <2> QED BY <2>3, <2>4
  <1>2. Cardinality({}) = 0 /\ PoolSize \in Nat BY FS_EmptySet DEF PerformanceAssumption
  <1>3. Len(times) \in Nat BY <1>1
  <1> QED BY <1>1, <1>2, <1>3 DEF LoadOK

\* The pool holds the requests that are out, and each of them has begun.
LEMMA PoolIsFinite ==
  ASSUME NEW l, NEW now, LoadOK(l, now)
  PROVE  IsFiniteSet(l.out) /\ Cardinality(l.out) \in Nat
  <1>1. IsFiniteSet(1..Len(l.began)) BY FS_Interval DEF LoadOK
  <1> QED BY <1>1, FS_Subset, FS_CardinalityType DEF LoadOK

LEMMA Dispatched ==
  ASSUME PerformanceAssumption, clock \in Nat, LoadOK(load, clock), Loads!Dispatch
  PROVE  LoadOK(load, clock)'
  <1> DEFINE r == Len(load.late) + 1
             idle == Cardinality(load.out) < PoolSize
             late == Append(load.late, clock - load.due[r])
  <1>1. /\ r \in DOMAIN load.due /\ load.due[r] <= clock /\ clock' = clock
        /\ load' = [load EXCEPT !.late = late, !.woken = clock,
                                !.began = IF idle THEN Append(@, clock) ELSE @,
                                !.out = IF idle THEN @ \cup {r} ELSE @,
                                !.crowded = IF idle THEN @ ELSE @ \cup {r}]
    BY LoadsCount DEF Loads!Dispatch, Loads!Lateness
  <1>2. /\ DOMAIN load = {"due", "late", "woken", "began", "out", "sent", "errors", "crowded"}
        /\ load.due \in Seq(Nat) /\ load.late \in Seq(Int) /\ load.began \in Seq(Nat)
        /\ load.sent \in Nat /\ load.errors \in Nat /\ load.out \subseteq 1..Len(load.began)
        /\ Len(load.began) <= Len(load.late) /\ Len(load.late) <= Len(load.due)
    BY DEF LoadOK
  <1>3. /\ load'.due = load.due /\ load'.late = late
        /\ load'.sent = load.sent /\ load'.errors = load.errors
        /\ load'.began = (IF idle THEN Append(load.began, clock) ELSE load.began)
        /\ load'.out = (IF idle THEN load.out \cup {r} ELSE load.out)
        /\ load'.crowded = (IF idle THEN load.crowded ELSE load.crowded \cup {r})
        /\ DOMAIN load' = DOMAIN load
    BY <1>1, <1>2
  <1>4. /\ late \in Seq(Int) /\ Len(late) = Len(load.late) + 1 /\ late[r] = clock - load.due[r]
        /\ \A i \in 1..Len(load.late) : late[i] = load.late[i]
        /\ load.due[r] \in Nat
    <2>1. load.due \in Seq(Nat) /\ load.late \in Seq(Int) BY <1>2
    <2>2. load.due[r] \in Nat BY <1>1, <2>1, SMTT(30)
    <2>3. clock - load.due[r] \in Int BY <2>2
    <2> QED BY <2>1, <2>2, <2>3, SMTT(30)
  <1>5. \A i \in 1..Len(late) : load.due[i] <= clock
    <2>1. \A i \in 1..Len(load.late) : load.due[i] <= clock BY DEF LoadOK
    <2>2. Len(load.late) \in Nat BY <1>2
    <2>3. load.due[r] <= clock BY <1>1
    <2> HIDE DEF late
    <2> QED BY <1>4, <2>1, <2>2, <2>3
  <1>6. IsFiniteSet(load.out) /\ Cardinality(load.out) \in Nat /\ PoolSize \in Nat
    BY PoolIsFinite DEF PerformanceAssumption
  <1>7. Len(late) <= Len(load.due) BY <1>1, <1>2, <1>4
  <1> HIDE DEF late
  <1>8. CASE idle
    <2>1. Len(load.began) = Len(load.late) BY <1>2, <1>6, <1>8 DEF LoadOK
    <2> DEFINE began == Append(load.began, clock)
    <2>2. /\ began \in Seq(Nat) /\ Len(began) = r /\ began[r] = clock
          /\ \A i \in 1..Len(load.began) : began[i] = load.began[i]
      BY <1>2, <2>1
    <2>3. r \notin load.out /\ load.out \cup {r} \subseteq 1..r BY <1>2, <2>1
    <2>4. Cardinality(load.out \cup {r}) = Cardinality(load.out) + 1 BY <1>6, <2>3, FS_AddElement
    <2> HIDE DEF began
    <2>5. load'.began = began /\ load'.out = load.out \cup {r} /\ load'.crowded = load.crowded
      BY <1>3, <1>8 DEF began
    <2>6. load.sent + load.errors + (Cardinality(load.out) + 1) = Len(began)
      <3>1. load.sent + load.errors + Cardinality(load.out) = Len(load.began) BY DEF LoadOK
      <3>2. Len(load.began) \in Nat /\ Len(began) = Len(load.began) + 1 BY <1>2, <2>1, <2>2
      <3> DEFINE good == load.sent
                 errors == load.errors
                 out == Cardinality(load.out)
                 n == Len(load.began)
                 m == Len(began)
      <3>3. good \in Nat /\ errors \in Nat /\ out \in Nat /\ n \in Nat BY <1>2, <1>6, <3>2
      <3>4. good + errors + out = n /\ m = n + 1 BY <3>1, <3>2
      <3> HIDE DEF good, errors, out, n, m
      <3>5. good + errors + (out + 1) = m BY <3>3, <3>4
      <3> QED BY <3>5 DEF good, errors, out, m
    <2>7. \A i \in 1..Len(began) : load.due[i] <= began[i]
      <3> TAKE i \in 1..Len(began)
      <3>1. CASE i = r BY <1>1, <2>2, <3>1
      <3>2. CASE i # r
        <4>1. i \in 1..Len(load.began) BY <1>2, <2>1, <2>2, <3>2
        <4> QED BY <2>2, <4>1 DEF LoadOK
      <3> QED BY <3>1, <3>2
    <2>8. load.crowded = {} => \A i \in 1..Len(began) : began[i] = load.due[i] + late[i]
      <3> SUFFICES ASSUME load.crowded = {}, NEW i \in 1..Len(began)
                   PROVE  began[i] = load.due[i] + late[i]
        OBVIOUS
      <3>1. CASE i = r BY <1>4, <2>2, <3>1
      <3>2. CASE i # r
        <4>1. i \in 1..Len(load.began) BY <1>2, <2>1, <2>2, <3>2
        <4>2. load.began[i] = load.due[i] + load.late[i] BY <4>1 DEF LoadOK
        <4> QED BY <1>4, <2>1, <2>2, <4>1, <4>2
      <3> QED BY <3>1, <3>2
    <2>9. Len(began) = Len(late) /\ Cardinality(load.out) + 1 <= PoolSize BY <1>4, <1>6, <1>8, <2>2
    <2>10. /\ load'.due \in Seq(Nat) /\ load'.late \in Seq(Int) /\ load'.began \in Seq(Nat)
           /\ load'.sent \in Nat /\ load'.errors \in Nat
           /\ DOMAIN load' = {"due", "late", "woken", "began", "out", "sent", "errors", "crowded"}
      BY <1>2, <1>3, <1>4, <2>2, <2>5
    <2>11. load'.out \subseteq 1..Len(load'.began) BY <2>2, <2>3, <2>5
    <2>12. /\ load'.sent + load'.errors + Cardinality(load'.out) = Len(load'.began)
           /\ Cardinality(load'.out) <= PoolSize
      BY <1>3, <2>4, <2>5, <2>6, <2>9
    <2>13. /\ Len(load'.began) <= Len(load'.late) /\ Len(load'.late) <= Len(load'.due)
           /\ ~(Len(load'.began) < Len(load'.late))
      <3>1. Len(load'.began) = Len(late) /\ Len(load'.late) = Len(late) /\ Len(load'.due) = Len(load.due)
        BY <1>3, <2>5, <2>9
      <3>2. Len(late) \in Nat BY <1>4
      <3> QED BY <1>7, <3>1, <3>2
    <2>14. /\ \A i \in 1..Len(load'.late) : load'.due[i] <= clock'
           /\ \A i \in 1..Len(load'.began) : load'.due[i] <= load'.began[i]
      BY <1>1, <1>3, <1>5, <2>5, <2>7
    <2>15. load'.crowded = {} => /\ Len(load'.began) = Len(load'.late)
                                 /\ \A i \in 1..Len(load'.began) : load'.began[i] = load'.due[i] + load'.late[i]
      BY <1>3, <2>5, <2>8, <2>9
    <2> QED BY <2>10, <2>11, <2>12, <2>13, <2>14, <2>15 DEF LoadOK
  <1>9. CASE ~idle
    <2>1. load'.began = load.began /\ load'.out = load.out /\ load'.crowded # {} BY <1>3, <1>9
    <2>2. Cardinality(load.out) = PoolSize BY <1>6, <1>9 DEF LoadOK
    <2>3. Len(load.began) <= Len(late) BY <1>2, <1>4
    <2> QED BY <1>1, <1>2, <1>3, <1>4, <1>5, <1>7, <2>1, <2>2, <2>3 DEF LoadOK
  <1> QED BY <1>8, <1>9

LEMMA Answered ==
  ASSUME PerformanceAssumption, clock \in Nat, LoadOK(load, clock), NEW r \in load.out, Loads!Answer(r)
  PROVE  LoadOK(load, clock)'
  <1> DEFINE next == Len(load.began) + 1
             queued == next <= Len(load.late)
             left == load.out \ {r}
             began == Append(load.began, clock)
  <1>1. PICK raised \in BOOLEAN :
          load' = [load EXCEPT !.out = (@ \ {r}) \cup (IF queued THEN {next} ELSE {}),
                               !.began = IF queued THEN began ELSE @,
                               !.sent = IF raised THEN @ ELSE @ + 1,
                               !.errors = IF raised THEN @ + 1 ELSE @]
    BY DEF Loads!Answer
  <1>2. /\ DOMAIN load = {"due", "late", "woken", "began", "out", "sent", "errors", "crowded"}
        /\ load.due \in Seq(Nat) /\ load.late \in Seq(Int) /\ load.began \in Seq(Nat)
        /\ load.sent \in Nat /\ load.errors \in Nat /\ load.out \subseteq 1..Len(load.began)
        /\ Len(load.began) <= Len(load.late) /\ Len(load.late) <= Len(load.due)
    BY DEF LoadOK
  <1>3. /\ load'.due = load.due /\ load'.late = load.late /\ load'.crowded = load.crowded
        /\ load'.sent = (IF raised THEN load.sent ELSE load.sent + 1)
        /\ load'.errors = (IF raised THEN load.errors + 1 ELSE load.errors)
        /\ load'.began = (IF queued THEN began ELSE load.began)
        /\ load'.out = (IF queued THEN left \cup {next} ELSE left)
        /\ DOMAIN load' = DOMAIN load /\ clock' = clock
    BY <1>1, <1>2 DEF Loads!Answer
  <1>4. load'.sent \in Nat /\ load'.errors \in Nat /\ load'.sent + load'.errors = load.sent + load.errors + 1
    <2>1. load.sent \in Nat /\ load.errors \in Nat BY <1>2
    <2>2. CASE raised BY <1>3, <2>1, <2>2
    <2>3. CASE ~raised BY <1>3, <2>1, <2>3
    <2> QED BY <2>2, <2>3
  <1>5. IsFiniteSet(load.out) /\ Cardinality(load.out) \in Nat /\ PoolSize \in Nat
    BY PoolIsFinite DEF PerformanceAssumption
  <1>6. IsFiniteSet(left) /\ Cardinality(left) = Cardinality(load.out) - 1 BY <1>5, FS_RemoveElement
  <1>7. load.sent + load.errors + Cardinality(load.out) = Len(load.began) /\ Cardinality(load.out) <= PoolSize
    BY DEF LoadOK
  <1>8. \A i \in 1..Len(load'.late) : load'.due[i] <= clock' BY <1>3 DEF LoadOK
  <1>9. Len(load.began) \in Nat /\ Len(load.late) \in Nat BY <1>2, SMTT(30)
  <1>10. CASE queued
    <2>1. /\ began \in Seq(Nat) /\ Len(began) = next /\ began[next] = clock
          /\ \A i \in 1..Len(load.began) : began[i] = load.began[i]
      BY <1>2
    <2>2. next \notin left /\ left \cup {next} \subseteq 1..next
      <3> DEFINE n == Len(load.began)
      <3>1. left \subseteq 1..n /\ n \in Nat BY <1>2, <1>9
      <3> HIDE DEF n, left
      <3>2. n + 1 \notin 1..n /\ n + 1 \in 1..(n + 1) /\ 1..n \subseteq 1..(n + 1) BY <3>1
      <3>3. n + 1 \notin left /\ left \cup {n + 1} \subseteq 1..(n + 1) BY <3>1, <3>2
      <3> QED BY <3>3 DEF n
    <2>3. Cardinality(left \cup {next}) = Cardinality(load.out)
      <3>1. Cardinality(left \cup {next}) = Cardinality(left) + 1 BY <1>6, <2>2, FS_AddElement
      <3> QED BY <1>5, <1>6, <3>1
    <2>4. load'.began = began /\ load'.out = left \cup {next} BY <1>3, <1>10
    <2>5. Len(load.began) < Len(load.late) BY <1>9, <1>10
    <2>6. Cardinality(load.out) = PoolSize BY <2>5 DEF LoadOK
    <2>7. load.crowded # {} BY <2>5, <1>9 DEF LoadOK
    <2>8. \A i \in 1..Len(began) : load.due[i] <= began[i]
      <3> TAKE i \in 1..Len(began)
      <3>1. CASE i = next
        <4>1. next \in 1..Len(load.late) BY <1>9, <1>10
        <4>2. load.due[next] <= clock BY <4>1 DEF LoadOK
        <4> QED BY <2>1, <3>1, <4>2
      <3>2. CASE i # next
        <4>1. i \in 1..Len(load.began) BY <1>9, <2>1, <3>2
        <4> QED BY <2>1, <4>1 DEF LoadOK
      <3> QED BY <3>1, <3>2
    <2>9. load'.sent + load'.errors + Cardinality(load'.out) = Len(load'.began)
      <3> DEFINE good == load.sent
                 errors == load.errors
                 out == Cardinality(load.out)
                 n == Len(load.began)
                 total == load'.sent + load'.errors
      <3>1. good \in Nat /\ errors \in Nat /\ out \in Nat /\ n \in Nat /\ good + errors + out = n
            /\ total = good + errors + 1
        BY <1>2, <1>4, <1>5, <1>7, <1>9
      <3>2. Cardinality(load'.out) = out /\ Len(load'.began) = n + 1 BY <2>1, <2>3, <2>4
      <3> HIDE DEF good, errors, out, n, total
      <3>3. total + out = n + 1 BY <3>1
      <3> QED BY <3>2, <3>3 DEF total
    <2> HIDE DEF began, left
    <2>10. /\ load'.began \in Seq(Nat) /\ load'.out \subseteq 1..Len(load'.began)
           /\ Cardinality(load'.out) = PoolSize
           /\ Len(load'.began) <= Len(load'.late) /\ Len(load'.late) <= Len(load'.due)
      BY <1>2, <1>3, <1>10, <2>1, <2>2, <2>3, <2>4, <2>6
    <2>11. load'.crowded # {} /\ \A i \in 1..Len(load'.began) : load'.due[i] <= load'.began[i]
      BY <1>3, <2>4, <2>7, <2>8
    <2>12. /\ load'.due \in Seq(Nat) /\ load'.late \in Seq(Int)
           /\ DOMAIN load' = {"due", "late", "woken", "began", "out", "sent", "errors", "crowded"}
      BY <1>2, <1>3
    <2>13. Cardinality(load'.out) <= PoolSize BY <1>5, <2>10
    <2> QED BY <1>4, <1>8, <2>9, <2>10, <2>11, <2>12, <2>13 DEF LoadOK
  <1>11. CASE ~queued
    <2>1. Len(load.began) = Len(load.late) BY <1>2, <1>9, <1>11
    <2>2. load'.began = load.began /\ load'.out = left BY <1>3, <1>11
    <2> HIDE DEF left
    <2>3. load'.out \subseteq 1..Len(load'.began) BY <1>2, <2>2 DEF left
    <2>4. load'.sent + load'.errors + Cardinality(load'.out) = Len(load'.began)
      <3> DEFINE good == load.sent
                 errors == load.errors
                 out == Cardinality(load.out)
                 n == Len(load.began)
                 total == load'.sent + load'.errors
      <3>1. good \in Nat /\ errors \in Nat /\ out \in Nat /\ n \in Nat /\ good + errors + out = n
            /\ total = good + errors + 1
        BY <1>2, <1>4, <1>5, <1>7, <1>9
      <3>2. Cardinality(load'.out) = out - 1 /\ Len(load'.began) = n BY <1>6, <2>2
      <3> HIDE DEF good, errors, out, n, total
      <3>3. total + (out - 1) = n BY <3>1
      <3> QED BY <3>2, <3>3 DEF total
    <2>5. Cardinality(load'.out) <= PoolSize BY <1>5, <1>6, <1>7, <2>2
    <2>6. /\ \A i \in 1..Len(load'.began) : load'.due[i] <= load'.began[i]
          /\ load'.crowded = {} =>
               \A i \in 1..Len(load'.began) : load'.began[i] = load'.due[i] + load'.late[i]
      BY <1>3, <2>2 DEF LoadOK
    <2>7. load'.began \in Seq(Nat) /\ Len(load'.began) = Len(load'.late) /\ ~(Len(load'.began) < Len(load'.late))
          /\ Len(load'.late) <= Len(load'.due) /\ Len(load'.began) <= Len(load'.late)
      BY <1>2, <1>3, <1>9, <2>1, <2>2
    <2> QED BY <1>2, <1>3, <1>4, <1>8, <2>3, <2>4, <2>5, <2>6, <2>7 DEF LoadOK
  <1> QED BY <1>10, <1>11

LEMMA LoadsBegin == Loads!Init => LoadInv
  BY DEF Loads!Init, LoadInv, ReportOK

LEMMA LoadsGoOn ==
  ASSUME PerformanceAssumption
  PROVE  LoadInv /\ [Loads!Next]_loadVars => LoadInv'
  <1> SUFFICES ASSUME LoadInv, [Loads!Next]_loadVars PROVE LoadInv' OBVIOUS
  <1> USE DEF LoadInv
  <1>1. CASE Loads!Command
    <2>1. load = None BY <1>1 DEF Loads!Command
    <2>2. ASSUME UNCHANGED <<load, clock>>, ended'.command # "shape" PROVE LoadInv'
      BY <2>1, <2>2 DEF ReportOK
    <2>3. ASSUME NEW report, Loads!Baseline(report) PROVE LoadInv'
      <3>1. ended'.command = "baseline" /\ UNCHANGED <<load, clock>> BY <2>3 DEF Loads!Baseline, Loads!Ended
      <3> QED BY <2>2, <3>1
    <2>4. ASSUME NEW c, NEW report, NEW args, NEW policies, NEW slo, NEW compared,
                 Loads!Regression(c, report, args, policies, slo, compared)
          PROVE  LoadInv'
      <3>1. PICK exit : ended' = Loads!Ended(IF compared THEN "compared" ELSE "measured", exit, report)
        BY <2>4, Zenon DEF Loads!Regression
      <3>2. ended'.command \in {"compared", "measured"} BY <3>1 DEF Loads!Ended
      <3>3. UNCHANGED <<load, clock>> BY <2>4 DEF Loads!Regression
      <3> QED BY <2>2, <3>2, <3>3
    <2>5. ASSUME NEW p \in Profiles, NEW path, NEW method, NEW mutations,
                 Loads!StartLoad(p, path, method, mutations)
          PROVE  LoadInv'
      <3>1. CASE ended' = Loads!Ended("shape", Loads!USAGE, None) /\ UNCHANGED <<load, clock>>
        <4>1. ended'.exit = Loads!USAGE BY <3>1 DEF Loads!Ended
        <4> QED BY <2>1, <3>1, <4>1 DEF ReportOK
      <3>2. CASE \E times \in Loads!Schedules(p) :
                   /\ clock' = 0
                   /\ load' = [due |-> times, late |-> <<>>, woken |-> 0, began |-> <<>>, out |-> {},
                               sent |-> 0, errors |-> 0, crowded |-> {}]
                   /\ ended' = None
        BY <3>2, LoadStarts DEF ReportOK
      <3> QED BY <2>5, <3>1, <3>2 DEF Loads!StartLoad
    <2> QED BY <1>1, <2>3, <2>4, <2>5 DEF Loads!Command
  <1>2. CASE Loads!Dispatch
    <2>1. load # None /\ UNCHANGED <<ended, clock>> BY <1>2 DEF Loads!Dispatch
    <2>2. LoadOK(load, clock)' BY <1>2, <2>1, Dispatched
    <2> QED BY <2>1, <2>2 DEF ReportOK
  <1>3. ASSUME load # None, NEW r \in load.out, Loads!Answer(r) PROVE LoadInv'
    <2>1. UNCHANGED <<ended, clock>> BY <1>3 DEF Loads!Answer
    <2>2. LoadOK(load, clock)' BY <1>3, Answered
    <2> QED BY <2>1, <2>2 DEF ReportOK
  <1>4. CASE Loads!EndLoad
    <2>1. load # None /\ Len(load.late) = Len(load.due) /\ load.out = {}
      BY <1>4 DEF Loads!EndLoad, Loads!Finished
    <2>2. AsAsked(load) BY <2>1, FinishedIsAsAsked
    <2>3. ended'.report = load /\ load' = None /\ clock' = 0 BY <1>4 DEF Loads!EndLoad
    <2>4. ReportOK' BY <2>2, <2>3 DEF ReportOK, AsAsked, Loads!KeptUp
    <2> QED BY <2>3, <2>4
  <1>5. CASE Loads!Tick
    <2>1. load # None /\ clock' = clock + 1 /\ UNCHANGED <<load, ended>> BY <1>5 DEF Loads!Tick
    <2>2. LoadOK(load, clock)'
      <3>1. \A r \in 1..Len(load.late) : load.due[r] <= clock + 1
        <4> TAKE r \in 1..Len(load.late)
        <4>1. load.due[r] <= clock BY <2>1 DEF LoadOK
        <4>2. load.due \in Seq(Nat) /\ load.late \in Seq(Int) /\ Len(load.late) <= Len(load.due)
          BY <2>1 DEF LoadOK
        <4>3. load.due[r] \in Nat BY <4>2
        <4> QED BY <4>1, <4>3
      <3> QED BY <2>1, <3>1 DEF LoadOK
    <2> QED BY <2>1, <2>2 DEF ReportOK
  <1>6. CASE UNCHANGED loadVars BY <1>6 DEF loadVars, ReportOK, LoadOK
  <1> QED BY <1>1, <1>2, <1>3, <1>4, <1>5, <1>6 DEF Loads!Next

\* For any profile, size of the pool and burst, and however requests and ticks of the clock
\* alternate: a load run that ends has sent what its profile asked for, no request before
\* its time, and, when it says it kept up and no thread was missing, none of them later
\* than a slot after it (schedule, execute).
THEOREM LoadsAreAsAsked ==
  ASSUME PerformanceAssumption
  PROVE  CommandsSpec => []LoadIsAsAsked
  <1> DEFINE StageInv == stage = "loads" => LoadInv
  <1>1. CommandsInit => StageInv BY LoadsBegin DEF CommandsInit
  <1>2. StageInv /\ [CommandsNext]_commandVars => StageInv'
    <2> SUFFICES ASSUME StageInv, [CommandsNext]_commandVars, stage' = "loads" PROVE LoadInv' OBVIOUS
    <2>1. stage = "loads" /\ [Loads!Next]_loadVars BY DEF CommandsNext, commandVars, loadVars
    <2> QED BY <2>1, LoadsGoOn
  <1>3. StageInv => LoadIsAsAsked BY ReportIsAsAsked DEF LoadInv, LoadIsAsAsked
  <1> QED BY <1>1, <1>2, <1>3, PTL DEF CommandsSpec

-------------------------------------------------------------------------------
(* Measurements. *)

LEMMA TimesMore == ASSUME NEW a \in Int, NEW b \in Int, NEW k \in Nat, k > 0, a * k <= b * k PROVE a <= b
  OBVIOUS

\* A rate at which the failed part of the requests is impossible: k stands for how far off
\* it is, and q for the other part of a hundred.
LEMMA TooFarOff ==
  ASSUME NEW n \in Nat, n > 3, NEW p \in 0..100, NEW q \in 0..100, p + q = 100, p >= 50,
         NEW k \in Nat, k = n * p
  PROVE  ~ (10000 * k * k <= 38415 * q * k)
  <1>1. k >= 4 * p
    <2>1. (n - 4) * p >= 0 OBVIOUS
    <2>2. (n - 4) * p = n * p - 4 * p OBVIOUS
    <2> QED BY <2>1, <2>2
  <1>2. 10000 * k > 38415 * q
    <2>1. q <= p OBVIOUS
    <2> QED BY <1>1, <2>1
  <1>3. k > 0 BY <1>1
  <1>4. SUFFICES ASSUME 10000 * k * k <= 38415 * q * k PROVE FALSE OBVIOUS
  <1> DEFINE a == 10000 * k
             b == 38415 * q
  <1>5. a \in Int /\ b \in Int /\ a * k <= b * k /\ a > b BY <1>2, <1>4
  <1> HIDE DEF a, b
  <1>6. a <= b BY <1>3, <1>5, TimesMore
  <1> QED BY <1>5, <1>6

\* The rates Wilson's interval spans.
Within(failed, n) ==
  { p \in 0..100 : 10000 * (100 * failed - n * p) * (100 * failed - n * p) <= 38415 * n * p * (100 - p) }

LEMMA WhenAllFailed == ASSUME NEW n \in Nat, n > 3, NEW p \in Within(n, n) PROVE p > 50
  <1> SUFFICES ASSUME p <= 50 PROVE FALSE BY DEF Within
  <1> DEFINE q == 100 - p
             k == n * q
  <1>1. p \in 0..100 /\ q \in 0..100 /\ q + p = 100 /\ q >= 50 BY DEF Within
  <1>2. k \in Nat /\ 100 * n - n * p = k BY <1>1
  <1>3. 10000 * k * k <= 38415 * n * p * q BY <1>2 DEF Within
  <1>4. 38415 * n * p * q = 38415 * p * k BY <1>1
  <1> HIDE DEF q, k
  <1>5. k = n * q BY DEF k
  <1> QED BY <1>1, <1>2, <1>3, <1>4, <1>5, TooFarOff

LEMMA WhenNoneFailed == ASSUME NEW n \in Nat, n > 3, NEW p \in Within(0, n) PROVE p < 50
  <1> SUFFICES ASSUME p >= 50 PROVE FALSE BY DEF Within
  <1> DEFINE q == 100 - p
             k == n * p
             off == 100 * 0 - n * p
  <1>1. p \in 0..100 /\ q \in 0..100 /\ p + q = 100 BY DEF Within
  <1>2. k \in Nat /\ off = -k BY <1>1
  <1>3. 10000 * off * off <= 38415 * n * p * q BY DEF Within
  <1>4. 38415 * n * p * q = 38415 * q * k BY <1>1
  <1> HIDE DEF off
  <1>5. 10000 * off * off = 10000 * k * k BY <1>2
  <1> HIDE DEF q, k
  <1>6. k = n * p BY DEF k
  <1> QED BY <1>1, <1>2, <1>3, <1>4, <1>5, <1>6, TooFarOff

\* The interval of a rate lies within it.
LEMMA IntervalIsWithin ==
  ASSUME NEW failed \in Nat, NEW n \in Nat, NEW p0 \in Within(failed, n)
  PROVE  /\ Loads!RateInterval(failed, n)[1] \in Within(failed, n)
         /\ Loads!RateInterval(failed, n)[2] \in Within(failed, n)
  <1> DEFINE within == Within(failed, n)
  <1>1. within \in SUBSET Nat /\ within \in SUBSET Int /\ within # {} /\ 100 \in Int /\ \A p \in within : p <= 100
    <2>1. p0 \in within /\ within \subseteq 0..100 BY DEF Within
    <2> HIDE DEF within
    <2> QED BY <2>1
  <1>2. Loads!RateInterval(failed, n) = <<Loads!Min(within), Loads!Max(within)>>
    BY DEF Loads!RateInterval, Within
  <1> HIDE DEF within
  <1>3. Loads!Min(within) \in within
    <2>1. \E i \in within : \A j \in within : i <= j BY <1>1, Lowest
    <2> QED BY <2>1 DEF Loads!Min
  <1>4. Loads!Max(within) \in within
    <2>1. \E i \in within : \A j \in within : j <= i BY <1>1, Highest
    <2>2. \E i \in within : \A j \in within : i >= j BY <1>1, <2>1
    <2> QED BY <2>2 DEF Loads!Max
  <1> QED BY <1>2, <1>3, <1>4 DEF within

\* Four samples tell a service that answers everything from one that answers nothing.
LEMMA RatesAreToldApart ==
  ASSUME NEW n \in Nat, n > 3, NEW m \in Nat, m > 3
  PROVE  ~ Loads!Overlaps(Loads!RateInterval(n, n), Loads!RateInterval(0, m))
  <1>1. 100 \in Within(n, n)
    <2>1. 100 * n - n * 100 = 0 /\ 38415 * n * 100 * (100 - 100) = 0 OBVIOUS
    <2> QED BY <2>1 DEF Within
  <1>2. 0 \in Within(0, m)
    <2>1. 100 * 0 - m * 0 = 0 /\ 38415 * m * 0 * (100 - 0) = 0 OBVIOUS
    <2> QED BY <2>1 DEF Within
  <1> DEFINE a == Loads!RateInterval(n, n)[1]
             b == Loads!RateInterval(0, m)[2]
  <1>3. a \in Within(n, n) /\ b \in Within(0, m) BY <1>1, <1>2, IntervalIsWithin
  <1> HIDE DEF a, b
  <1>4. a > 50 /\ b < 50 BY <1>3, WhenAllFailed, WhenNoneFailed
  <1>5. a \in Int /\ b \in Int BY <1>3 DEF Within
  <1>6. ~ (a <= b) BY <1>4, <1>5
  <1> QED BY <1>6 DEF Loads!Overlaps, a, b

\* What a measurement keeps.
LEMMA StatsSay ==
  ASSUME Warmup \in Nat, NEW samples, IsList(samples)
  PROVE  /\ RateIsTold(Loads!Stats(samples))
         /\ LET stats == Loads!Stats(samples)
            IN stats.errors = 0 /\ stats.errors + stats.timeouts >= stats.samples /\ stats.samples > 0 =>
                 /\ stats.value["error_rate"] = 100
                 /\ Loads!Interval(stats, "error_rate") = Loads!RateInterval(stats.samples, stats.samples)
  <1> DEFINE stats == Loads!Stats(samples)
             having(outcomes) == { i \in DOMAIN samples : samples[i].outcome \in outcomes }
             n == Len(samples)
             errors == Cardinality(having({"error", "unreachable"}))
             timeouts == Cardinality(having({"timeout"}))
             failed == Cardinality(having({"error", "unreachable", "timeout"}))
  <1>1. /\ stats.errors = errors /\ stats.timeouts = timeouts /\ stats.samples = n
        /\ DOMAIN stats.value = Loads!Metrics /\ DOMAIN stats.ci = Loads!Metrics
        /\ stats.value["error_rate"] = (100 * failed) \div n
        /\ stats.ci["error_rate"] = Loads!RateInterval(failed, n)
    BY LoadsCount DEF Loads!Stats, Loads!Metrics
  <1>2. n \in Nat /\ IsFiniteSet(1..n) /\ Cardinality(1..n) = n
    <2>1. n \in Nat BY DEF IsList
    <2> HIDE DEF n
    <2> QED BY <2>1, FS_Interval
  <1>3. \A outcomes : having(outcomes) \subseteq 1..n BY DEF IsList
  <1>4. /\ having({"error", "unreachable"}) \subseteq having({"error", "unreachable", "timeout"})
        /\ having({"timeout"}) \subseteq having({"error", "unreachable", "timeout"})
        /\ having({"error", "unreachable", "timeout"})
              = having({"error", "unreachable"}) \cup having({"timeout"})
    OBVIOUS
  <1> HIDE DEF stats, having, n
  <1>5. \A outcomes : IsFiniteSet(having(outcomes)) /\ Cardinality(having(outcomes)) \in Nat
                      /\ Cardinality(having(outcomes)) <= n
    BY <1>2, <1>3, FS_Subset, FS_CardinalityType
  <1>6. errors \in Nat /\ timeouts \in Nat /\ failed \in Nat /\ failed <= n BY <1>5
  <1>7. timeouts <= failed BY <1>4, <1>5, FS_Subset
  <1>8. errors + timeouts = 0 => failed = 0
    <2> SUFFICES ASSUME errors + timeouts = 0 PROVE failed = 0 OBVIOUS
    <2>1. errors = 0 /\ timeouts = 0 BY <1>6
    <2>2. having({"error", "unreachable"}) = {} /\ having({"timeout"}) = {} BY <1>5, <2>1, FS_EmptySet
    <2> QED BY <1>4, <2>2, FS_EmptySet
  <1>9. Loads!Interval(stats, "error_rate") = Loads!RateInterval(failed, n)
    BY <1>1 DEF Loads!Interval, Loads!Metrics
  <1> HIDE DEF errors, timeouts, failed
  <1>10. RateIsTold(stats)
    <2>1. "error_rate" \in DOMAIN stats.value BY <1>1 DEF Loads!Metrics
    <2>2. ASSUME n > 0, errors + timeouts = 0
          PROVE  stats.value["error_rate"] = 0 /\ Loads!Interval(stats, "error_rate") = Loads!RateInterval(0, n)
      <3>1. failed = 0 BY <1>8, <2>2
      <3>2. (100 * 0) \div n = 0 BY <1>2, <2>2
      <3> QED BY <1>1, <1>9, <3>1, <3>2
    <2> QED BY <1>1, <1>2, <1>6, <2>1, <2>2 DEF RateIsTold
  <1>11. ASSUME errors = 0, errors + timeouts >= n, n > 0
         PROVE  /\ stats.value["error_rate"] = 100
                /\ Loads!Interval(stats, "error_rate") = Loads!RateInterval(n, n)
    <2>1. failed = n BY <1>2, <1>6, <1>7, <1>11
    <2>2. (100 * n) \div n = 100 BY <1>2, <1>11
    <2> QED BY <1>1, <1>9, <2>1, <2>2
  <1> QED BY <1>1, <1>10, <1>11 DEF stats

\* A tolerance is a number for every metric.
LEMMA TolerancesAreNumbers ==
  ASSUME PerformanceAssumption, NEW args \in Tolerances
  PROVE  Loads!Tolerance(args)["error_rate"] \in Int
  <1> DEFINE given == { i \in DOMAIN args : args[i].metric = "error_rate" }
             bare == { i \in DOMAIN args : args[i].metric = None }
  <1>1. IsList(args) /\ \A i \in DOMAIN args : args[i].pct \in Int BY DEF PerformanceAssumption
  <1>2. given \subseteq DOMAIN args /\ bare \subseteq DOMAIN args OBVIOUS
  <1>3. Loads!Tolerance(args)["error_rate"]
          = IF given # {} THEN args[Loads!Max(given)].pct ELSE IF bare # {} THEN args[Loads!Max(bare)].pct ELSE 20
    BY DEF Loads!Tolerance, Loads!Metrics
  <1> HIDE DEF given, bare
  <1>4. ASSUME NEW S, S \subseteq DOMAIN args, S # {} PROVE Loads!Max(S) \in S
    <2>1. S \in SUBSET Int /\ Len(args) \in Int /\ \A i \in S : i <= Len(args) BY <1>1, <1>4 DEF IsList
    <2>2. \E i \in S : \A j \in S : j <= i BY <1>4, <2>1, Highest
    <2>3. \E i \in S : \A j \in S : i >= j BY <2>1, <2>2
    <2> QED BY <2>3 DEF Loads!Max
  <1>5. CASE given # {} BY <1>1, <1>2, <1>3, <1>4, <1>5
  <1>6. CASE given = {} /\ bare # {} BY <1>1, <1>2, <1>3, <1>4, <1>6
  <1>7. CASE given = {} /\ bare = {} BY <1>3, <1>7
  <1> QED BY <1>5, <1>6, <1>7

\* What DeadIsNeverGreen says of one operation.
Alive(now, then) ==
  then.errors + then.timeouts = 0 /\ then.samples > 3 /\ now.samples > 3 =>
    now.errors + now.timeouts < now.samples

\* An operation that died is among the regressions.
LEMMA DeathIsRegression ==
  ASSUME PerformanceAssumption, NEW c \in Contracts, NEW t \in Targets, NEW args \in Tolerances, NEW then,
         NEW op \in c.ops \cap DOMAIN then, RateIsTold(then[op]),
         Loads!Regressions(Loads!Measure(c, t), then, Loads!Tolerance(args)) = {}
  PROVE  Alive(Loads!Measure(c, t)[op], then[op])
  <1> DEFINE report == Loads!Measure(c, t)
             now == report[op]
             before == then[op]
             tolerance == Loads!Tolerance(args)
  <1> Loads!Regressions(report, then, tolerance) = {} OBVIOUS
  <1>1. DOMAIN report = c.ops /\ now = Loads!Stats(t[op]) BY DEF Loads!Measure
  <1>2. Warmup \in Nat /\ IsList(t[op]) BY DEF PerformanceAssumption
  <1>3. RateIsTold(now) BY <1>1, <1>2, StatsSay
  <1>4. now.errors \in Nat /\ now.timeouts \in Nat /\ now.samples \in Nat BY <1>3 DEF RateIsTold
  <1>5. before.errors \in Nat /\ before.timeouts \in Nat /\ before.samples \in Nat BY DEF RateIsTold
  <1> SUFFICES ASSUME before.errors + before.timeouts = 0, before.samples > 3, now.samples > 3,
                      ~ (now.errors + now.timeouts < now.samples)
               PROVE  FALSE
    BY DEF Alive
  <1>6. op \in DOMAIN report \cap DOMAIN then BY <1>1
  <1>7. tolerance["error_rate"] \in Int BY TolerancesAreNumbers
  <1>8. now.errors = 0
    <2> SUFFICES ASSUME now.errors > 0 PROVE FALSE BY <1>4
    <2>1. before.errors = 0 BY <1>5
    <2>2. <<op, "errors">> \in Loads!Regressions(report, then, tolerance)
      <3> HIDE DEF report, tolerance
      <3> QED BY <1>6, <2>1 DEF Loads!Regressions
    <2> QED BY <2>2
  <1>9. now.value["error_rate"] = 100
        /\ Loads!Interval(now, "error_rate") = Loads!RateInterval(now.samples, now.samples)
    <2>1. now.errors + now.timeouts >= now.samples /\ now.samples > 0 BY <1>4
    <2> HIDE DEF now
    <2> QED BY <1>1, <1>2, <1>8, <2>1, StatsSay
  <1>10. /\ "error_rate" \in DOMAIN before.value /\ before.value["error_rate"] = 0
         /\ \/ Loads!Interval(before, "error_rate") = None
            \/ Loads!Interval(before, "error_rate") = Loads!RateInterval(0, before.samples)
    BY <1>5 DEF RateIsTold
  <1>11. <<op, "error_rate">> \in Loads!Moved(report, then, tolerance)
    <2>1. Loads!Over(0, 100, "error_rate", tolerance["error_rate"])
      <3> DEFINE pct == tolerance["error_rate"]
      <3> HIDE DEF tolerance, pct
      <3>1. pct \in Int BY <1>7 DEF pct
      <3>2. 100 * 100 > 0 * (100 + pct) BY <3>1
      <3> QED BY <3>2 DEF Loads!Over, pct
    <2> HIDE DEF report, tolerance
    <2>2. "error_rate" \in { m \in Loads!Metrics \cap DOMAIN then[op].value :
                                Loads!Over(then[op].value[m], report[op].value[m], m, tolerance[m]) }
      BY <1>9, <1>10, <2>1 DEF Loads!Metrics
    <2> QED BY <1>6, <2>2 DEF Loads!Moved
  <1>12. <<op, "error_rate">> \notin Loads!Undecided(report, then, tolerance)
    <2> SUFFICES ASSUME <<op, "error_rate">> \in Loads!Undecided(report, then, tolerance) PROVE FALSE OBVIOUS
    <2> HIDE DEF report, tolerance
    <2>1. /\ Loads!Interval(then[op], "error_rate") # None
          /\ Loads!Overlaps(Loads!Interval(report[op], "error_rate"), Loads!Interval(then[op], "error_rate"))
      BY DEF Loads!Undecided
    <2>2. Loads!Overlaps(Loads!RateInterval(now.samples, now.samples), Loads!RateInterval(0, before.samples))
      BY <1>9, <1>10, <2>1
    <2> HIDE DEF now, before
    <2> QED BY <1>4, <1>5, <2>2, RatesAreToldApart
  <1> HIDE DEF report, tolerance
  <1> QED BY <1>11, <1>12 DEF Loads!Regressions

\* What was compared is still stored, and nothing in it died unsaid.
GreenOK == ended # None /\ ended.command = "compared" /\ ended.exit = Loads!OK =>
             \A op \in DOMAIN ended.report \cap DOMAIN stored : Alive(ended.report[op], stored[op])

StoredOK == stored # None => \A op \in DOMAIN stored : RateIsTold(stored[op])

GreenInv == StoredOK /\ GreenOK

LEMMA DeathIsTold == GreenOK => Loads!DeadIsNeverGreen
  BY DEF GreenOK, Alive, Loads!DeadIsNeverGreen

LEMMA GreenGoesOn ==
  ASSUME PerformanceAssumption
  PROVE  GreenInv /\ [Loads!Next]_loadVars => GreenInv'
  <1> SUFFICES ASSUME GreenInv, [Loads!Next]_loadVars PROVE GreenInv' OBVIOUS
  <1> USE DEF GreenInv
  <1>1. ASSUME UNCHANGED stored, ended' = ended \/ ended'.command # "compared" PROVE GreenInv'
    BY <1>1 DEF StoredOK, GreenOK
  <1>2. ASSUME NEW c \in Contracts, NEW t \in Targets, Loads!Baseline(Loads!Measure(c, t)) PROVE GreenInv'
    <2> DEFINE report == Loads!Measure(c, t)
    <2>1. \A op \in DOMAIN report : RateIsTold(report[op])
      <3> TAKE op \in DOMAIN report
      <3>1. op \in c.ops /\ report[op] = Loads!Stats(t[op]) BY DEF Loads!Measure
      <3>2. Warmup \in Nat /\ IsList(t[op]) BY <3>1 DEF PerformanceAssumption
      <3> QED BY <3>1, <3>2, StatsSay
    <2>2. stored' = report \/ stored' = stored BY <1>2 DEF Loads!Baseline
    <2>3. ended'.command = "baseline" BY <1>2 DEF Loads!Baseline, Loads!Ended
    <2> HIDE DEF report
    <2>4. StoredOK' BY <2>1, <2>2 DEF StoredOK
    <2> QED BY <2>3, <2>4 DEF GreenOK
  <1>3. ASSUME NEW c \in Contracts, NEW t \in Targets, NEW args \in Tolerances, NEW policies,
               NEW slo \in BOOLEAN, NEW compared \in BOOLEAN,
               Loads!Regression(c, Loads!Measure(c, t), args, policies, slo, compared)
        PROVE  GreenInv'
    <2> DEFINE report == Loads!Measure(c, t)
               worse == IF compared THEN Loads!Regressions(report, stored, Loads!Tolerance(args)) ELSE {}
               objectives == IF slo THEN Loads!Evaluated(c, report) ELSE {}
               exit == IF ~Loads!Understood(args) THEN Loads!USAGE
                       ELSE IF Loads!NothingAnswered(report) THEN Loads!UNREACHABLE
                       ELSE IF \/ Loads!Violations(report, policies) # {} \/ worse # {}
                               \/ \E f \in objectives : f.severity = "ERROR"
                       THEN Loads!FINDINGS ELSE Loads!OK
    <2>1. ended' = Loads!Ended(IF compared THEN "compared" ELSE "measured", exit, report)
      BY <1>3 DEF Loads!Regression
    <2>2. /\ ended'.command = (IF compared THEN "compared" ELSE "measured")
          /\ ended'.exit = exit /\ ended'.report = report
      <3> HIDE DEF exit, report
      <3> QED BY <2>1 DEF Loads!Ended
    <2>3. UNCHANGED stored BY <1>3 DEF Loads!Regression
    <2>4. CASE ~compared BY <1>1, <2>2, <2>3, <2>4
    <2>5. CASE compared
      <3>1. stored # None BY <1>3, <2>5 DEF Loads!Regression
      <3> SUFFICES ASSUME exit = Loads!OK, NEW op \in DOMAIN report \cap DOMAIN stored
                   PROVE  Alive(report[op], stored[op])
        BY <2>2, <2>3, <3>1 DEF StoredOK, GreenOK, Alive
      <3>2. worse = {}
        <4> HIDE DEF worse, report, objectives
        <4> QED BY DEF Loads!OK, Loads!FINDINGS, Loads!USAGE, Loads!UNREACHABLE
      <3>3. Loads!Regressions(report, stored, Loads!Tolerance(args)) = {} BY <2>5, <3>2
      <3>4. DOMAIN report = c.ops BY DEF Loads!Measure
      <3>5. RateIsTold(stored[op]) BY <3>1 DEF StoredOK
      <3> QED BY <3>3, <3>4, <3>5, DeathIsRegression
    <2> QED BY <2>4, <2>5
  <1>4. ASSUME NEW p, NEW path, NEW method, NEW mutations, Loads!StartLoad(p, path, method, mutations)
        PROVE  GreenInv'
    <2>1. UNCHANGED stored BY <1>4 DEF Loads!StartLoad
    <2>2. ended' = Loads!Ended("shape", Loads!USAGE, None) \/ ended' = None BY <1>4 DEF Loads!StartLoad
    <2>3. ended' # None => ended'.command = "shape" BY <2>2 DEF Loads!Ended
    <2> QED BY <2>1, <2>3 DEF StoredOK, GreenOK
  <1>5. CASE Loads!Command BY <1>2, <1>3, <1>4, <1>5 DEF Loads!Command
  <1>6. CASE Loads!Dispatch BY <1>1, <1>6 DEF Loads!Dispatch
  <1>7. ASSUME NEW r \in load.out, Loads!Answer(r) PROVE GreenInv' BY <1>1, <1>7 DEF Loads!Answer
  <1>8. CASE Loads!EndLoad
    <2>1. ended'.command = "shape" /\ UNCHANGED stored BY <1>8 DEF Loads!EndLoad
    <2> QED BY <1>1, <2>1
  <1>9. CASE Loads!Tick BY <1>1, <1>9 DEF Loads!Tick
  <1>10. CASE UNCHANGED loadVars BY <1>1, <1>10 DEF loadVars
  <1> QED BY <1>5, <1>6, <1>7, <1>8, <1>9, <1>10 DEF Loads!Next

\* Whatever is measured, tolerated and asked for: an operation that answered all of at least
\* four requests in the stored run and none of at least four now fails the comparison,
\* also when it lets them hang and when the stored run has no intervals (compare_baseline,
\* wilson_interval, cmd_regression).
THEOREM DeadFailsTheComparison ==
  ASSUME PerformanceAssumption
  PROVE  CommandsSpec => []DeadIsNeverGreen
  <1> DEFINE StageInv == stage = "loads" => GreenInv
  <1>1. CommandsInit => StageInv
    <2>1. Loads!Init => GreenInv
      BY DEF PerformanceAssumption, Loads!Init, GreenInv, GreenOK, StoredOK
    <2> QED BY <2>1 DEF CommandsInit
  <1>2. StageInv /\ [CommandsNext]_commandVars => StageInv'
    <2> SUFFICES ASSUME StageInv, [CommandsNext]_commandVars, stage' = "loads" PROVE GreenInv' OBVIOUS
    <2>1. stage = "loads" /\ [Loads!Next]_loadVars BY DEF CommandsNext, commandVars, loadVars
    <2> QED BY <2>1, GreenGoesOn
  <1>3. StageInv => DeadIsNeverGreen BY DeathIsTold DEF GreenInv, DeadIsNeverGreen
  <1> QED BY <1>1, <1>2, <1>3, PTL DEF CommandsSpec
-------------------------------------------------------------------------------
(* The release gate.  A lost call is a change with an error rule, or an error of the  *)
(* contract as a whole; it stays one through the overrides, the suppressions and the  *)
(* registry unless somebody answers for its operation; and an open error is an exit   *)
(* code.                                                                              *)

\* The rules of what takes a call away from who makes it.
Breakers == {"BRK-OP-REMOVED", "BRK-RPC-REMOVED", "BRK-PARAM-REMOVED", "BRK-PARAM-ADDED-REQUIRED",
             "BRK-PARAM-REQUIRED", "BRK-REQ-BODY-REMOVED", "BRK-REQ-BODY-REQUIRED", "BRK-SECURITY-CHANGED"}

LEMMA BreakersAreErrors ==
  ASSUME NEW r \in Breakers, NEW overrides
  PROVE  SeverityFor(r, overrides) = IF r \in DOMAIN overrides THEN overrides[r] ELSE "ERROR"
  <1>1. \A s \in Severities : r \in Catalog[s] <=> s = "ERROR"
    BY DEF Breakers, Severities, Catalog, StreamAndRpcCatalog, ParameterCatalog, FieldCatalog, KeywordCatalog, ToolCatalog
  <1>2. (CHOOSE s \in Severities : r \in Catalog[s]) = "ERROR" BY <1>1 DEF Severities
  <1> QED BY <1>2 DEF SeverityFor
Told(old, new, op) ==
  \/ \E c \in ContractChanges(old, new) : c.op = op /\ RulesOf(c) \cap Breakers # {}
  \/ \E rule, about : Finding(rule, "ERROR", None, about) \in CompatFindings(old, new)

LEMMA SimpleKinds ==
  /\ SimpleRule["OPERATION_REMOVED"] = "BRK-OP-REMOVED" /\ "OPERATION_REMOVED" \in DOMAIN SimpleRule
  /\ SimpleRule["RPC_REMOVED"] = "BRK-RPC-REMOVED" /\ "RPC_REMOVED" \in DOMAIN SimpleRule
  /\ SimpleRule["SECURITY_CHANGED"] = "BRK-SECURITY-CHANGED" /\ "SECURITY_CHANGED" \in DOMAIN SimpleRule
  /\ \A k \in {"PARAMETER_REMOVED", "PARAMETER_ADDED", "PARAMETER_REQUIREDNESS", "REQUEST_SCHEMA_CHANGED"} :
       k \notin DOMAIN SimpleRule
  BY DEF SimpleRule

\* The rule of a kind that has one.
LEMMA SimpleIsTold ==
  ASSUME NEW c, c.kind \in {"OPERATION_REMOVED", "RPC_REMOVED", "SECURITY_CHANGED"}
  PROVE  RulesOf(c) \cap Breakers # {}
  <1>1. c.kind \in DOMAIN SimpleRule /\ SimpleRule[c.kind] \in Breakers BY SimpleKinds DEF Breakers
  <1>2. RulesOf(c) = {SimpleRule[c.kind]} BY <1>1 DEF RulesOf
  <1> QED BY <1>1, <1>2

LEMMA FieldIsTold ==
  ASSUME NEW c,
         \/ c.kind = "PARAMETER_REMOVED" /\ c.note = "parameter removed"
         \/ c.kind = "PARAMETER_ADDED" /\ c.note = "parameter added (required)"
         \/ c.kind = "PARAMETER_REQUIREDNESS" /\ c.note = "parameter requiredness" /\ c.delta.flag
  PROVE  RulesOf(c) \cap Breakers # {}
  <1>1. RulesOf(c) = FieldRules(c) BY SimpleKinds DEF RulesOf
  <1>2. ~IsBodyField(c) BY DEF IsBodyField
  <1> QED BY <1>1, <1>2 DEF FieldRules, Breakers

LEMMA BodyIsTold ==
  ASSUME NEW c, c.kind = "REQUEST_SCHEMA_CHANGED",
         c.note \in {"request body removed", "request media type removed", "request body became required"}
  PROVE  RulesOf(c) \cap Breakers # {}
  <1>1. RulesOf(c) = SchemaTextRules(c) BY SimpleKinds DEF RulesOf
  <1> QED BY <1>1 DEF SchemaTextRules, Breakers

\* A contract that ends an operation is told to its callers.
LEMMA RemovedIsTold ==
  ASSUME NEW old, NEW new, NEW op \in DOMAIN old.ops \ DOMAIN new.ops
  PROVE  Told(old, new, op)
  <1> DEFINE c == OpChange(op, IF old.ops[op].kind # "http" THEN "RPC_REMOVED" ELSE "OPERATION_REMOVED",
                           "meta", <<>>, "operation", NoDelta)
  <1>1. c \in ContractChanges(old, new) BY DEF ContractChanges
  <1>2. c.op = op /\ c.kind \in {"RPC_REMOVED", "OPERATION_REMOVED"} BY DEF OpChange
  <1> HIDE DEF c
  <1>3. RulesOf(c) \cap Breakers # {} BY <1>2, SimpleIsTold
  <1> QED BY <1>1, <1>2, <1>3 DEF Told

LEMMA ChangeIsTold ==
  ASSUME NEW old, NEW new, NEW op \in Both(old, new),
         NEW c \in OperationChanges(old, new, op), c.op = op, RulesOf(c) \cap Breakers # {}
  PROVE  Told(old, new, op)
  <1>1. c \in ContractChanges(old, new) BY DEF ContractChanges, Both
  <1> QED BY <1>1 DEF Told

\* A parameter that is asked for now and was not, or is not known any more.
LEMMA ParameterIsTold ==
  ASSUME NEW old, NEW new, NEW op \in Both(old, new),
         \/ \E x \in DOMAIN new.ops[op].params :
              /\ new.ops[op].params[x].required
              /\ x \in DOMAIN old.ops[op].params => ~old.ops[op].params[x].required
         \/ \E x \in DOMAIN old.ops[op].params : x \notin DOMAIN new.ops[op].params
  PROVE  Told(old, new, op)
  <1> DEFINE o == old.ops[op]
             n == new.ops[op]
             Is(x, kind, note, delta) == OpChange(op, kind, "request", <<<<"param", x>>>>, note, delta)
  <1>1. ParameterChanges(o, n, op) \subseteq OperationChanges(old, new, op) BY DEF OperationChanges
  <1>2. ASSUME NEW x \in DOMAIN o.params, x \notin DOMAIN n.params PROVE Told(old, new, op)
    <2> DEFINE c == Is(x, "PARAMETER_REMOVED", "parameter removed", NoDelta)
    <2>1. c \in ParameterChanges(o, n, op) BY <1>2 DEF ParameterChanges
    <2>2. c.op = op /\ c.kind = "PARAMETER_REMOVED" /\ c.note = "parameter removed" BY DEF OpChange
    <2> HIDE DEF c
    <2> QED BY <1>1, <2>1, <2>2, FieldIsTold, ChangeIsTold
  <1>3. ASSUME NEW x \in DOMAIN n.params, n.params[x].required, x \notin DOMAIN o.params
        PROVE  Told(old, new, op)
    <2> DEFINE c == Is(x, "PARAMETER_ADDED", IF n.params[x].required THEN "parameter added (required)" ELSE "parameter added", NoDelta)
    <2>1. c \in ParameterChanges(o, n, op) BY <1>3 DEF ParameterChanges
    <2>2. c.op = op /\ c.kind = "PARAMETER_ADDED" /\ c.note = "parameter added (required)"
      BY <1>3 DEF OpChange
    <2> HIDE DEF c
    <2> QED BY <1>1, <2>1, <2>2, FieldIsTold, ChangeIsTold
  <1>4. ASSUME NEW x \in DOMAIN n.params \cap DOMAIN o.params, n.params[x].required, ~o.params[x].required
        PROVE  Told(old, new, op)
    <2> DEFINE c == Is(x, "PARAMETER_REQUIREDNESS", "parameter requiredness", [flag |-> n.params[x].required])
    <2>1. o.params[x].required # n.params[x].required BY <1>4
    <2>2. c \in ParameterChanges(o, n, op) BY <2>1 DEF ParameterChanges
    <2>3. c.op = op /\ c.kind = "PARAMETER_REQUIREDNESS" /\ c.note = "parameter requiredness" /\ c.delta.flag
      BY <1>4 DEF OpChange
    <2> HIDE DEF c
    <2> QED BY <1>1, <2>2, <2>3, FieldIsTold, ChangeIsTold
  <1> QED BY <1>2, <1>3, <1>4

\* A body that is gone, or in another format, or asked for now.
LEMMA LostBodyIsTold ==
  ASSUME NEW old, NEW new, NEW op \in Both(old, new), old.ops[op].body # None,
         \/ new.ops[op].body = None
         \/ /\ new.ops[op].body # None
            /\ \E m \in DOMAIN old.ops[op].body.content : m \notin DOMAIN new.ops[op].body.content
         \/ /\ new.ops[op].body # None
            /\ new.ops[op].body.required /\ ~old.ops[op].body.required
  PROVE  Told(old, new, op)
  <1> DEFINE o == old.ops[op]
             n == new.ops[op]
             Is(at, note) == OpChange(op, "REQUEST_SCHEMA_CHANGED", "request", at, note, NoDelta)
  <1>1. BodyChanges(o, n, op) \subseteq OperationChanges(old, new, op) BY DEF OperationChanges
  <1>2. ASSUME NEW at, NEW note \in {"request body removed", "request media type removed", "request body became required"},
               Is(at, note) \in BodyChanges(o, n, op)
        PROVE  Told(old, new, op)
    <2> DEFINE c == Is(at, note)
    <2>1. c.op = op /\ c.kind = "REQUEST_SCHEMA_CHANGED" /\ c.note = note BY DEF OpChange
    <2>2. c \in OperationChanges(old, new, op) BY <1>1, <1>2
    <2> HIDE DEF c
    <2> QED BY <2>1, <2>2, BodyIsTold, ChangeIsTold
  <1>3. CASE n.body = None
    <2>1. Is(<<>>, "request body removed") \in BodyChanges(o, n, op) BY <1>3 DEF BodyChanges
    <2> QED BY <1>2, <2>1
  <1>4. ASSUME n.body # None, NEW m \in DOMAIN o.body.content, m \notin DOMAIN n.body.content
        PROVE  Told(old, new, op)
    <2>1. {Is(<<<<"body", x>>>>, "request media type removed") : x \in DOMAIN o.body.content \ DOMAIN n.body.content}
            \subseteq BodyChanges(o, n, op)
      <3> HIDE DEF Is
      <3> QED BY <1>4, ZenonT(30) DEF BodyChanges, Is
    <2>2. Is(<<<<"body", m>>>>, "request media type removed") \in BodyChanges(o, n, op) BY <1>4, <2>1
    <2> QED BY <1>2, <2>2
  <1>5. ASSUME n.body # None, n.body.required, ~o.body.required PROVE Told(old, new, op)
    <2>1. o.body.required # n.body.required BY <1>5
    <2>2. Is(<<>>, "request body became required") \in BodyChanges(o, n, op)
      <3>1. When(o.body.required # n.body.required,
                 Is(<<>>, IF n.body.required THEN "request body became required" ELSE "request body became optional"))
              \subseteq BodyChanges(o, n, op)
        BY <1>5, ZenonT(30) DEF BodyChanges
      <3> QED BY <1>5, <2>1, <3>1 DEF When
    <2> QED BY <1>2, <2>2
  <1> QED BY <1>3, <1>4, <1>5

\* A scheme that is asked for now, is gone, or of another type.
LEMMA SchemeIsTold ==
  ASSUME NEW old, NEW new, NEW op \in Both(old, new), NEW x \in SchemesOf(new, new.ops[op]),
         x \in SchemesOf(old, old.ops[op]) =>
           /\ x \in DOMAIN old.schemes
           /\ x \in DOMAIN new.schemes => new.schemes[x] # old.schemes[x]
  PROVE  Told(old, new, op)
  <1>1. CASE x \notin SchemesOf(old, old.ops[op])
    <2> DEFINE c == OpChange(op, "SECURITY_CHANGED", "security", <<>>, "security", NoDelta)
    <2>1. SchemesOf(old, old.ops[op]) # SchemesOf(new, new.ops[op]) BY <1>1
    <2>2. c \in OperationChanges(old, new, op) BY <2>1 DEF OperationChanges, When
    <2>3. c.op = op /\ c.kind = "SECURITY_CHANGED" BY DEF OpChange
    <2> HIDE DEF c
    <2> QED BY <2>2, <2>3, SimpleIsTold, ChangeIsTold
  <1>2. CASE x \in DOMAIN old.schemes /\ (x \in DOMAIN new.schemes => new.schemes[x] # old.schemes[x])
    <2> DEFINE rule == IF x \in DOMAIN new.schemes THEN "COMPAT-SECURITY-TYPE-CHANGED"
                       ELSE "COMPAT-SECURITY-SCHEME-REMOVED"
    <2>1. Finding(rule, "ERROR", None, x) \in SchemeFindings(old, new) BY <1>2 DEF SchemeFindings
    <2> QED BY <2>1 DEF CompatFindings, Told
  <1> QED BY <1>1, <1>2

\* Whatever two contracts are: an operation whose calls are lost has an error, or the
\* contract as a whole has one.

LEMMA LossIsTold ==
  ASSUME NEW old, NEW new, NEW call, Serves(old, call), ~Serves(new, call), ~BodyIsNew(old, new, call.op)
  PROVE  Told(old, new, call.op)
  <1> DEFINE op == call.op
             o == old.ops[op]
             n == new.ops[op]
  <1>1. CASE op \notin DOMAIN new.ops BY <1>1, RemovedIsTold DEF Serves
  <1>2. CASE op \in DOMAIN new.ops
    <2>1. op \in Both(old, new) BY <1>2 DEF Serves, Both
    <2>2. CASE \E x \in DOMAIN n.params : n.params[x].required /\ x \notin call.params
      <3>1. PICK x \in DOMAIN n.params : n.params[x].required /\ x \notin call.params BY <2>2
      <3>2. x \in DOMAIN o.params => ~o.params[x].required BY <3>1 DEF Serves
      <3> QED BY <2>1, <3>1, <3>2, ParameterIsTold
    <2>3. CASE ~(call.params \subseteq DOMAIN n.params)
      <3>1. call.params \subseteq DOMAIN o.params BY DEF Serves
      <3> QED BY <2>1, <2>3, <3>1, ParameterIsTold
    <2>4. CASE call.body = None /\ n.body # None /\ n.body.required
      <3>1. o.body # None /\ ~o.body.required BY <2>1, <2>4 DEF Serves, BodyIsNew
      <3> QED BY <2>1, <2>4, <3>1, LostBodyIsTold
    <2>5. CASE call.body # None /\ (n.body = None \/ call.body \notin DOMAIN n.body.content)
      <3>1. o.body # None /\ call.body \in DOMAIN o.body.content BY <2>5 DEF Serves
      <3> QED BY <2>1, <2>5, <3>1, LostBodyIsTold
    <2>6. CASE \E x \in SchemesOf(new, n) :
                 ~(x \in DOMAIN call.credentials /\ x \in DOMAIN new.schemes
                   /\ call.credentials[x] = new.schemes[x])
      <3>1. PICK x \in SchemesOf(new, n) :
                 ~(x \in DOMAIN call.credentials /\ x \in DOMAIN new.schemes
                   /\ call.credentials[x] = new.schemes[x]) BY <2>6
      <3>2. x \in SchemesOf(old, o) => x \in DOMAIN call.credentials /\ x \in DOMAIN old.schemes
                                       /\ call.credentials[x] = old.schemes[x]
        BY DEF Serves
      <3> QED BY <2>1, <3>1, <3>2, SchemeIsTold
    <2> QED BY <1>2, <2>2, <2>3, <2>4, <2>5, <2>6 DEF Serves
  <1> QED BY <1>1, <1>2

-------------------------------------------------------------------------------
(* From an error to an exit code. *)

\* The config and the command line leave errors errors.
Strict(cfg, flags) == DOMAIN flags = {} /\ \A r \in DOMAIN cfg.overrides : cfg.overrides[r] = "ERROR"

LEMMA StaysError ==
  ASSUME NEW cfg, NEW flags, Strict(cfg, flags), NEW r \in DOMAIN MergedOverrides(cfg, flags)
  PROVE  MergedOverrides(cfg, flags)[r] = "ERROR"
  <1>1. \A q \in DOMAIN ProfileOverrides(cfg.profile) : ProfileOverrides(cfg.profile)[q] = "ERROR"
    BY DEF ProfileOverrides
  <1> QED BY <1>1 DEF Strict, MergedOverrides, Over

LEMMA ErrorIsKept ==
  ASSUME NEW findings, NEW cfg, NEW flags, Strict(cfg, flags),
         NEW rule, NEW op, NEW about, Finding(rule, "ERROR", op, about) \in findings
  PROVE  Finding(rule, "ERROR", op, about) \in ApplyOverrides(findings, MergedOverrides(cfg, flags))
  <1> DEFINE overrides == MergedOverrides(cfg, flags)
             f == Finding(rule, "ERROR", op, about)
  <1>1. Get(overrides, rule, "ERROR") = "ERROR" BY StaysError DEF Get
  <1> HIDE DEF overrides
  <1>2. f.rule = rule /\ f.severity = "ERROR" BY DEF Finding
  <1>3. [f EXCEPT !.severity = "ERROR"] = f BY DEF Finding
  <1>4. f \in findings OBVIOUS
  <1> HIDE DEF f
  <1>5. [f EXCEPT !.severity = Get(overrides, f.rule, f.severity)] = f BY <1>1, <1>2, <1>3
  <1>6. f \in ApplyOverrides(findings, overrides) BY <1>4, <1>5 DEF ApplyOverrides
  <1> QED BY <1>6 DEF overrides, f

\* What `breaking` finds of a lost call before anybody has a say.
LEMMA LossIsFound ==
  ASSUME NEW p \in Comparable, NEW setup \in Projects, NEW call,
         Serves(Revisions[p[1]], call), ~Serves(Revisions[p[2]], call),
         ~BodyIsNew(Revisions[p[1]], Revisions[p[2]], call.op),
         Strict(setup.config, setup.flags)
  PROVE  \E rule, about : \E op \in {call.op, None} :
           Finding(rule, "ERROR", op, about) \in ChangeFindings[p][setup]
  <1> DEFINE old == Revisions[p[1]]
             new == Revisions[p[2]]
             overrides == MergedOverrides(setup.config, setup.flags)
             Of(f) == Finding(f.rule, f.severity, f.change.op, f.change.at)
  <1>1. ChangesBetween[p] = ContractChanges(old, new) BY DEF ChangesBetween
  <1>2. CompatFindings(old, new) \subseteq WholeContractFindings[p] BY DEF WholeContractFindings
  <1>3. { Of(f) : f \in Evaluate(ChangesBetween[p], overrides) } \subseteq ChangeFindings[p][setup]
    BY DEF ChangeFindings, Finding
  <1>4. ApplyOverrides(WholeContractFindings[p], overrides) \subseteq ChangeFindings[p][setup]
    BY DEF ChangeFindings
  <1>5. Told(old, new, call.op) BY LossIsTold
  <1>6. ASSUME NEW c \in ContractChanges(old, new), c.op = call.op, NEW r \in RulesOf(c) \cap Breakers
        PROVE  Finding(r, "ERROR", call.op, c.at) \in ChangeFindings[p][setup]
    <2> DEFINE f == [rule |-> r, severity |-> SeverityFor(r, overrides), change |-> c]
    <2>1. SeverityFor(r, overrides) = "ERROR" BY <1>6, BreakersAreErrors, StaysError
    <2>2. f \in Evaluate(ChangesBetween[p], overrides) BY <1>1, <1>6 DEF Evaluate
    <2>3. f.rule = r /\ f.severity = "ERROR" /\ f.change.op = call.op /\ f.change.at = c.at BY <1>6, <2>1
    <2> HIDE DEF f
    <2> QED BY <1>3, <2>2, <2>3
  <1>7. ASSUME NEW rule, NEW about, Finding(rule, "ERROR", None, about) \in CompatFindings(old, new)
        PROVE  Finding(rule, "ERROR", None, about) \in ChangeFindings[p][setup]
    BY <1>2, <1>4, <1>7, ErrorIsKept
  <1> HIDE DEF old, new, overrides, Of
  <1> QED BY <1>5, <1>6, <1>7 DEF Told

\* Revisions of one protocol, and days that are numbers.
TrainInv ==
  /\ project \in Projects
  /\ <<released, candidate>> \in Comparable
  /\ steps \in 0..MaxSteps /\ today \in 0..steps
  /\ file = [readable |-> file.readable, entries |-> file.entries]
  /\ \A e \in file.entries : e.expires \in Int \cup {None, NotADate}

LEMMA DaysAreNumbers == ASSUME TrainAssumption, TrainInv PROVE today \in Nat /\ MaxDays(config) \in Int
  <1>1. today \in Nat BY DEF TrainInv, TrainAssumption
  <1>2. config.maxDays \in Int \cup {None} BY DEF TrainInv, TrainAssumption, config
  <1> QED BY <1>1, <1>2 DEF MaxDays, DefaultMaxDays

\* An error that nobody answers for is not suppressed.
LEMMA ErrorIsActive ==
  ASSUME TrainAssumption, TrainInv, NEW findings, NEW rule, NEW about, NEW k, NEW op \in {k, None}, ~VouchedFor(k),
         Finding(rule, "ERROR", op, about) \in findings
  PROVE  Finding(rule, "ERROR", op, about) \in Suppressed(findings, config, file.entries, today)
  <1> DEFINE f == Finding(rule, "ERROR", op, about)
             result == ApplySuppressions(findings, file.entries, today, MaxDays(config), config.approver)
  <1>1. CASE ~config.suppressions BY <1>1 DEF Suppressed
  <1>2. CASE config.suppressions
    <2>1. ASSUME NEW e \in file.entries, Problems(e, today, MaxDays(config), config.approver) = {},
                 ~IsExpired(e, today), Covers(e, f)
          PROVE  FALSE
      <3>1. /\ "owner" \notin Problems(e, today, MaxDays(config), config.approver)
            /\ "reason" \notin Problems(e, today, MaxDays(config), config.approver)
            /\ "expires" \notin Problems(e, today, MaxDays(config), config.approver)
            /\ "date" \notin Problems(e, today, MaxDays(config), config.approver)
            /\ "bound" \notin Problems(e, today, MaxDays(config), config.approver)
        BY <2>1
      <3>2. /\ e.owner /\ e.reason /\ e.expires # None /\ e.expires # NotADate
            /\ ~(e.expires > today + MaxDays(config))
        BY <3>1 DEF Problems
      <3>3. ~(e.expires < today) BY <2>1, <3>2 DEF IsExpired
      <3>4. e.expires \in Int /\ today \in Int /\ MaxDays(config) \in Int
        BY <3>2, DaysAreNumbers DEF TrainInv
      <3>5. e.expires \in today .. today + MaxDays(config) BY <3>2, <3>3, <3>4
      <3>6. e.op \in {k, None} BY <2>1 DEF Covers, Finding
      <3> QED BY <1>2, <3>2, <3>5, <3>6 DEF VouchedFor
    <2>2. f \in result.active BY <2>1 DEF ApplySuppressions
    <2>3. Suppressed(findings, config, file.entries, today) = result.active \cup FileFindings(result)
      BY <1>2 DEF Suppressed
    <2> HIDE DEF f, result
    <2>4. f \in Suppressed(findings, config, file.entries, today) BY <2>2, <2>3
    <2> QED BY <2>4 DEF f
  <1> QED BY <1>1, <1>2

\* The registry of this project.
LEMMA RegistryIs ==
  ASSUME TrainAssumption, TrainInv
  PROVE  /\ RegistryOf[project] = registry
         /\ project.registry = None <=> registry = None
  <1>1. project \in Projects BY DEF TrainInv
  <1>2. RegistryOf[project] = registry BY <1>1 DEF RegistryOf, registry
  <1>3. project.registry # None => RegistryOf[project] # None BY <1>1 DEF TrainAssumption
  <1> QED BY <1>2, <1>3 DEF registry

\* What `breaking` reports before the version check.
LEMMA OpenIs ==
  ASSUME NEW o, NEW n, NEW setup, NEW entries, NEW day
  PROVE  LET left == Suppressed(ChangeFindings[<<o, n>>][setup], setup.config, entries, day)
             declared == DOMAIN Revisions[o].ops \cup DOMAIN Revisions[n].ops
         IN OpenFindings(o, n, setup, entries, day) =
              IF setup.registry = None THEN left
              ELSE Annotate(left \cup UnknownUses(RegistryOf[setup], declared), RegistryOf[setup], setup.bySeverity)
  <1> DEFINE left == Suppressed(ChangeFindings[<<o, n>>][setup], setup.config, entries, day)
  <1>1. \A S : UNION {S} = S OBVIOUS
  <1> QED BY <1>1 DEF OpenFindings

LEMMA ErrorIsNotSoftened ==
  ASSUME TrainAssumption, TrainInv, NEW findings, NEW f \in findings, NEW k, f.op \in {k, None}, ~VouchedFor(k),
         project.registry # None
  PROVE  f \in Annotate(findings, registry, project.bySeverity)
  <1>1. ASSUME project.bySeverity, Softened(f, registry) PROVE FALSE
    <2>1. f.op = k /\ Affected(registry, k) = {} /\ registry.complete BY <1>1 DEF Softened
    <2>2. k \notin UNION { registry.uses[c] : c \in DOMAIN registry.uses } BY <2>1 DEF Affected
    <2>3. registry # None BY RegistryIs
    <2> QED BY <1>1, <2>1, <2>2, <2>3 DEF VouchedFor
  <1> QED BY <1>1 DEF Annotate

\* A lost call is an open error, unless somebody answers for its operation.
LEMMA LossIsOpen ==
  ASSUME TrainAssumption, TrainInv, NEW call,
         Serves(Revisions[released], call), ~Serves(Revisions[candidate], call),
         ~BodyIsNew(Revisions[released], Revisions[candidate], call.op), ~VouchedFor(call.op)
  PROVE  \E f \in OpenFindings(released, candidate, project, file.entries, today) :
           f.severity = "ERROR" /\ f.op \in {call.op, None}
  <1> DEFINE p == <<released, candidate>>
             k == call.op
             found == ChangeFindings[p][project]
             left == Suppressed(found, config, file.entries, today)
             declared == DOMAIN Revisions[released].ops \cup DOMAIN Revisions[candidate].ops
             open == OpenFindings(released, candidate, project, file.entries, today)
  <1>1. p \in Comparable /\ project \in Projects BY DEF TrainInv
  <1>2. p[1] = released /\ p[2] = candidate OBVIOUS
  <1>3. Strict(project.config, project.flags) BY DEF VouchedFor, Strict, config
  <1>4. \E rule, about : \E op \in {k, None} : Finding(rule, "ERROR", op, about) \in found
    <2> HIDE DEF p
    <2> QED BY <1>1, <1>2, <1>3, LossIsFound
  <1>5. PICK rule, about, op : op \in {k, None} /\ Finding(rule, "ERROR", op, about) \in found BY <1>4
  <1> DEFINE f == Finding(rule, "ERROR", op, about)
  <1>6. f.severity = "ERROR" /\ f.op \in {k, None} BY <1>5 DEF Finding
  <1> HIDE DEF found
  <1>7. f \in left BY <1>5, ErrorIsActive
  <1>8. open = IF project.registry = None THEN left
               ELSE Annotate(left \cup UnknownUses(registry, declared), registry, project.bySeverity)
    <2>1. open = IF project.registry = None THEN left
                 ELSE Annotate(left \cup UnknownUses(RegistryOf[project], declared),
                               RegistryOf[project], project.bySeverity)
      BY OpenIs DEF config, found
    <2> QED BY <2>1, RegistryIs
  <1> HIDE DEF left, f, declared, open
  <1>9. f \in open BY <1>6, <1>7, <1>8, ErrorIsNotSoftened
  <1> QED BY <1>6, <1>9 DEF open

\* A run that exits 0 has no error left, unless the project never fails.
LEMMA OkHasNoError ==
  ASSUME NEW findings, NEW cfg, ExitFor(findings, cfg) = "ok", FailOn(cfg) # "never"
  PROVE  \A f \in findings : f.severity # "ERROR"
  <1>1. "ERROR" \in Blocking(FailOn(cfg)) BY DEF Blocking
  <1> QED BY <1>1 DEF ExitFor

LEMMA ReleaseBreaksNobody == ASSUME TrainAssumption, TrainInv, Release PROVE BreaksNobody
  <1> SUFFICES ASSUME NEW call \in Calls, Serves(Revisions[released], call), ~Serves(Revisions[candidate], call),
                      ~VouchedFor(call.op), ~BodyIsNew(Revisions[released], Revisions[candidate], call.op)
               PROVE  FALSE
    BY DEF BreaksNobody, Release
  <1> DEFINE open == OpenFindings(released, candidate, project, file.entries, today)
             all == BreakingFindings(released, candidate, project, file.entries, today)
  <1>1. PICK f \in open : f.severity = "ERROR" BY LossIsOpen
  <1>2. f \in all
    <2> HIDE DEF open
    <2>1. all = open \cup VersionFindings(released, candidate, project, open, ChangesBetween[<<released, candidate>>])
      <3>1. \A S : UNION {S} = S OBVIOUS
      <3> QED BY <3>1 DEF BreakingFindings, open
    <2> QED BY <1>1, <2>1
  <1>3. ExitFor(all, config) = "ok"
    <2> HIDE DEF all
    <2>1. Breaking(released, candidate, project, file, today) = "ok" BY DEF Release
    <2>2. Breaking(released, candidate, project, file, today) \in {"usage", ExitFor(all, config)}
      BY DEF Breaking, all, config
    <2> QED BY <2>1, <2>2
  <1>4. FailOn(config) # "never" BY DEF VouchedFor
  <1> QED BY <1>1, <1>2, <1>3, <1>4, OkHasNoError

LEMMA NamesCallers == ASSUME TrainAssumption, TrainInv PROVE CallersAreNamed
  <1> DEFINE findings == OpenFindings(released, candidate, project, file.entries, today)
             radius == BlastRadius(findings, registry)
  <1> SUFFICES ASSUME NEW call \in Calls, Serves(Revisions[released], call), ~Serves(Revisions[candidate], call),
                      ~VouchedFor(call.op), ~BodyIsNew(Revisions[released], Revisions[candidate], call.op),
                      ~\E f \in findings : f.severity = "ERROR" /\ f.op = None
               PROVE  /\ \A c \in Affected(registry, call.op) :
                           c \in DOMAIN radius.by_consumer /\ call.op \in radius.by_consumer[c]
                      /\ Affected(registry, call.op) = {} => call.op \in radius.unclaimed
    BY DEF CallersAreNamed
  <1> DEFINE breaking == { f.op : f \in { g \in findings : g.severity = "ERROR" /\ g.op # None } }
  <1>1. PICK f \in findings : f.severity = "ERROR" /\ f.op \in {call.op, None} BY LossIsOpen
  <1> HIDE DEF findings
  <1>2. call.op \in breaking BY <1>1
  <1>3. radius = [unclaimed |-> { op \in breaking : Affected(registry, op) = {} },
                by_consumer |-> [c \in UNION { Affected(registry, op) : op \in breaking } |->
                                   registry.uses[c] \cap breaking]]
    BY DEF BlastRadius
  <1> HIDE DEF breaking, radius
  <1>4. ASSUME NEW c \in Affected(registry, call.op)
        PROVE  c \in DOMAIN radius.by_consumer /\ call.op \in radius.by_consumer[c]
    <2>1. call.op \in registry.uses[c] BY DEF Affected
    <2>2. c \in UNION { Affected(registry, op) : op \in breaking } BY <1>2
    <2> QED BY <1>2, <1>3, <2>1, <2>2
  <1>5. Affected(registry, call.op) = {} => call.op \in radius.unclaimed BY <1>2, <1>3
  <1> QED BY <1>4, <1>5

(* The project's own promises. *)

LEMMA LeastOf == ASSUME NEW S \in SUBSET Nat, S # {} PROVE \E i \in S : \A j \in S : i <= j
  <1> DEFINE R == {ss \in Nat \X Nat : ss[1] < ss[2]}
  <1>1. IsWellFoundedOn(R, Nat) BY NatLessThanWellFounded DEF OpToRel
  <1>2. \E x \in S : \A y \in S : ~ (<<y, x>> \in R)
    <2> HIDE DEF R
    <2> QED BY <1>1, WFMin
  <1>3. PICK x \in S : \A y \in S : ~ (<<y, x>> \in R) BY <1>2
  <1>4. ASSUME NEW y \in S PROVE x <= y
    <2>1. <<y, x>> \in Nat \X Nat /\ <<y, x>>[1] = y /\ <<y, x>>[2] = x OBVIOUS
    <2>2. ~ (y < x) BY <1>3, <2>1
    <2> QED BY <2>2
  <1> QED BY <1>4

\* What is found first is found no later than anything else.
LEMMA FirstIs ==
  ASSUME NEW said, NEW silence, DOMAIN said \subseteq Nat, NEW i \in DOMAIN said, said[i] \notin silence
  PROVE  \E j \in DOMAIN said : j <= i /\ said[j] \notin silence /\ First(said, silence) = said[j]
  <1> DEFINE at == {j \in DOMAIN said : said[j] \notin silence}
  <1>1. at \subseteq Nat /\ i \in at OBVIOUS
  <1>2. First(said, silence) = IF at = {} THEN None ELSE said[Min(at)] BY DEF First
  <1>3. \A j \in at : j \in DOMAIN said /\ said[j] \notin silence OBVIOUS
  <1> HIDE DEF at
  <1>4. Min(at) \in at /\ \A j \in at : Min(at) <= j BY <1>1, LeastOf DEF Min
  <1> QED BY <1>1, <1>2, <1>3, <1>4

\* A date is declared that one of the two places states, when one states any.
LEMMA DeclaredIs ==
  ASSUME NEW op, NEW header, Len(op.plan) = 2, DOMAIN op.plan = 1..2,
         NEW p \in 1..2, op.plan[p].sunset \notin {None, NotADate}
  PROVE  \E q \in 1..2 : /\ op.plan[q].sunset \notin {None, NotADate}
                         /\ DeclaredDate(op, "sunset", header) = op.plan[q].sunset
  <1> DEFINE plan == [i \in DOMAIN op.plan |-> op.plan[i]["sunset"]]
             first == <<Deprecation(op)["sunset"]>>
             last == IF header \in DOMAIN op.retirement THEN <<op.retirement[header].example>> ELSE <<>>
             flat == [i \in 1..(Len(op.plan) - 1) |-> op.plan[i + 1]["sunset"]]
             said == first \o flat \o last
             All == {Deprecation(op)["sunset"], plan[1], plan[2], op.retirement[header].example}
  <1>1. \A i \in 1..2 : plan[i] = op.plan[i].sunset OBVIOUS
  <1>2. DOMAIN plan = 1..2 OBVIOUS
  <1>3. PICK q \in 1..p : Deprecation(op)["sunset"] = plan[q] /\ plan[q] # None
    <2>1. Deprecation(op)["sunset"] = First(plan, {None}) BY DEF Deprecation
    <2>2. plan[p] \notin {None} BY <1>1
    <2> HIDE DEF plan
    <2>3. \E j \in DOMAIN plan : j <= p /\ plan[j] \notin {None} /\ First(plan, {None}) = plan[j]
      BY <1>2, <2>2, FirstIs
    <2> QED BY <1>2, <2>1, <2>3
  <1>4. DeclaredDate(op, "sunset", header) = First(said, {None, NotADate}) BY DEF DeclaredDate
  <1>5. plan[p] \notin {None, NotADate} BY <1>1
  <1>6. first \in Seq(All) /\ Len(first) = 1 /\ first[1] = Deprecation(op)["sunset"] OBVIOUS
  <1>7. flat \in Seq(All) /\ Len(flat) = 1 /\ flat[1] = plan[2]
    <2>1. flat = [i \in 1..1 |-> plan[i + 1]] OBVIOUS
    <2>2. \A i \in 1..1 : i + 1 = 2 OBVIOUS
    <2> HIDE DEF plan, flat
    <2>3. flat = [i \in 1..1 |-> plan[2]] BY <2>1, <2>2
    <2> QED BY <2>3
  <1>8. last \in Seq(All) /\ Len(last) \in Nat
    <2> DEFINE example == op.retirement[header].example
    <2>1. example \in All OBVIOUS
    <2> HIDE DEF All, example
    <2>2. <<example>> \in Seq(All) /\ Len(<<example>>) = 1 BY <2>1
    <2>3. <<>> \in Seq(All) /\ Len(<<>>) = 0 OBVIOUS
    <2>4. last \in {<<example>>, <<>>} BY DEF example
    <2> QED BY <2>2, <2>3, <2>4
  <1> HIDE DEF plan, first, flat, last, All
  <1>9. /\ first \o flat \in Seq(All) /\ Len(first \o flat) = 2
        /\ \A i \in 1..2 : (first \o flat)[i] = IF i <= 1 THEN first[i] ELSE flat[i - 1]
    BY <1>6, <1>7, ConcatProperties
  <1>10. /\ said \in Seq(All) /\ Len(said) = 2 + Len(last)
         /\ \A i \in 1..(2 + Len(last)) : said[i] = IF i <= 2 THEN (first \o flat)[i] ELSE last[i - 2]
    BY <1>8, <1>9, ConcatProperties
  <1>11. /\ \A i \in 1..2 : i \in DOMAIN said
         /\ said[1] = plan[q] /\ said[2] = plan[2]
    BY <1>3, <1>6, <1>7, <1>8, <1>9, <1>10
  <1>12. DOMAIN said \subseteq Nat BY <1>10
  <1> HIDE DEF said
  \* The first place is the first that is written in, and the flat ones are read again.
  <1>13. said[p] = plan[p]
    <2>1. CASE p = 1 BY <2>1, <1>3, <1>11
    <2>2. CASE p = 2 BY <2>2, <1>11
    <2> QED BY <2>1, <2>2
  <1>14. PICK j \in DOMAIN said : /\ j <= p /\ said[j] \notin {None, NotADate}
                                  /\ First(said, {None, NotADate}) = said[j]
    BY <1>5, <1>11, <1>12, <1>13, FirstIs
  <1>15. j \in 1..2
    <2>1. DOMAIN said = 1..Len(said) BY <1>10
    <2> QED BY <1>14, <2>1, <1>10, <1>8
  <1>16. \E i \in 1..2 : said[j] = plan[i]
    <2>1. q \in 1..2 BY <1>3
    <2>2. CASE j = 1 BY <1>11, <2>1, <2>2
    <2>3. CASE j = 2 BY <1>11, <2>3
    <2> QED BY <1>15, <2>2, <2>3
  <1> QED BY <1>1, <1>4, <1>14, <1>16

\* `validate` stops at an error about an operation that nobody answers for.
LEMMA OkIsValid ==
  ASSUME TrainAssumption, TrainInv, Release, NEW k, ~VouchedFor(k),
         NEW found, NEW rule, NEW about, Finding(rule, "ERROR", k, about) \in found,
         ApplyOverrides(found, MergedOverrides(config, [r \in {} |-> "ERROR"]))
           \subseteq LintBefore[candidate][project][today]
  PROVE  FALSE
  <1> DEFINE f == Finding(rule, "ERROR", k, about)
             none == [r \in {} |-> "ERROR"]
             before == LintBefore[candidate][project][today]
             all == Suppressed(before, config, file.entries, today)
  <1>1. Strict(config, none) BY DEF VouchedFor, Strict
  <1>2. f \in before
    <2> HIDE DEF none
    <2>1. f \in ApplyOverrides(found, MergedOverrides(config, none)) BY <1>1, ErrorIsKept
    <2> QED BY <2>1 DEF none
  <1> HIDE DEF before
  <1>3. f \in all BY <1>2, ErrorIsActive
  <1>4. f.severity = "ERROR" BY DEF Finding
  <1> HIDE DEF f, all
  <1>5. ExitFor(all, config) = "ok"
    <2>1. Validate(candidate, project, file, today) = "ok" BY DEF Release
    <2>2. Validate(candidate, project, file, today) \in {"usage", ExitFor(all, config)}
      BY DEF Validate, ValidateFindings, all, before, config
    <2> QED BY <2>1, <2>2
  <1>6. FailOn(config) # "never" BY DEF VouchedFor
  <1> QED BY <1>3, <1>4, <1>5, <1>6, OkHasNoError

\* What `validate` looks at before anybody has a say.
LEMMA LintIs ==
  ASSUME TrainAssumption, TrainInv
  PROVE  LET contract == Revisions[candidate]
         IN \E found : /\ LintBefore[candidate][project][today] =
                            ApplyOverrides(found, MergedOverrides(config, [r \in {} |-> "ERROR"]))
                       /\ LifecycleFindings(contract, today) \subseteq found
                       /\ project.policy # None =>
                            RunPacks({PolicyPack(project.policy, contract, Protocols)}, contract.protocol)
                              \subseteq found
  <1>1. candidate \in DOMAIN Revisions /\ project \in Projects BY DEF TrainInv, Comparable
  <1>2. today \in 0..MaxSteps BY DEF TrainInv, TrainAssumption
  <1> DEFINE contract == Revisions[candidate]
             found == LintFindings(contract) \cup LifecycleFindings(contract, today)
                  \cup AuthenticationFindings(contract) \cup UnknownSchemes(contract)
                  \cup InconsistentSchemes(contract)
                  \cup RunPacks({DefaultPack(contract, Protocols)}, contract.protocol)
                  \cup (IF project.policy = None THEN {}
                        ELSE RunPacks({PolicyPack(project.policy, contract, Protocols)}, contract.protocol))
  <1>3. LintBefore[candidate][project][today] =
          ApplyOverrides(found, MergedOverrides(config, [r \in {} |-> "ERROR"]))
    BY <1>1, <1>2 DEF LintBefore, config
  <1>4. LifecycleFindings(contract, today) \subseteq found OBVIOUS
  <1>5. project.policy # None =>
          RunPacks({PolicyPack(project.policy, contract, Protocols)}, contract.protocol) \subseteq found
    OBVIOUS
  <1> HIDE DEF found
  <1> QED BY <1>3, <1>4, <1>5

\* An operation past every date of its retirement is an error.
LEMMA SunsetIsFound ==
  ASSUME TrainAssumption, TrainInv, NEW k \in DOMAIN Revisions[candidate].ops,
         NEW p \in 1..2, Revisions[candidate].ops[k].plan[p].sunset \notin {None, NotADate},
         \A q \in 1..2 : Revisions[candidate].ops[k].plan[q].sunset \notin {None, NotADate} =>
                           ~(Revisions[candidate].ops[k].plan[q].sunset >= today)
  PROVE  Finding("LIFECYCLE-SUNSET-PASSED", "ERROR", k, None) \in LifecycleFindings(Revisions[candidate], today)
  <1> DEFINE contract == Revisions[candidate]
             op == contract.ops[k]
             sunset == DeclaredDate(op, "sunset", "sunset")
             passed == "LIFECYCLE-SUNSET-PASSED"
  <1>1. candidate \in DOMAIN Revisions BY DEF TrainInv, Comparable
  <1>2. /\ Len(op.plan) = 2 /\ DOMAIN op.plan = 1..2
        /\ \A i \in 1..2 : op.plan[i].sunset \in Int \cup {None, NotADate}
    BY <1>1 DEF TrainAssumption
  <1>3. PICK q \in 1..2 : op.plan[q].sunset \notin {None, NotADate} /\ sunset = op.plan[q].sunset
    <2> HIDE DEF op
    <2>1. op.plan[p].sunset \notin {None, NotADate} BY DEF op
    <2> QED BY <1>2, <2>1, DeclaredIs
  <1>4. sunset # None /\ sunset < today
    <2>1. ~(sunset >= today) BY <1>3
    <2>2. sunset \in Int /\ today \in Int BY <1>2, <1>3, DaysAreNumbers
    <2> HIDE DEF sunset
    <2> QED BY <1>3, <2>1, <2>2
  <1> HIDE DEF op
  <1>5. passed \in LifecycleRules(op, today) BY <1>4 DEF LifecycleRules
  <1>6. LifecycleSeverity(passed) = "ERROR" BY DEF LifecycleSeverity
  <1>7. [rule |-> passed, severity |-> LifecycleSeverity(passed), op |-> k, about |-> None]
          \in LifecycleFindings(contract, today)
    <2> HIDE DEF passed
    <2> QED BY <1>5 DEF LifecycleFindings, op
  <1> QED BY <1>6, <1>7 DEF Finding

\* An operation that lacks what an error rule of the policy file asks for is an error.
LEMMA ObjectionIsFound ==
  ASSUME NEW contract, NEW k \in DOMAIN contract.ops, k # None, NEW policy, NEW i \in DOMAIN policy.rules,
         policy.rules[i].severity = "ERROR", policy.rules[i].select = "operation", k \notin policy.rules[i].exempt,
         contract.protocol \in policy.rules[i].protocols,
         NEW field \in DOMAIN policy.rules[i].where, policy.rules[i].where[field].predicate = "present",
         OperationValues(contract.ops[k], field) = {}
  PROVE  Finding(policy.rules[i].id, "ERROR", k, None)
           \in RunPacks({PolicyPack(policy, contract, Protocols)}, contract.protocol)
  <1> DEFINE rule == policy.rules[i]
             checked == [id |-> rule.id, protocols |-> rule.protocols,
                         crashes |-> FALSE, says |-> Objections(rule, contract)]
             pack == PolicyPack(policy, contract, Protocols)
  <1>1. ~Holds(ValuesOf(contract, k, field), rule.where[field].predicate, rule.where[field].expected)
    BY DEF Holds, ValuesOf
  <1>2. Fails(rule, contract, k) BY <1>1 DEF Fails
  <1>3. Report(rule.id, rule.severity, k) \in Objections(rule, contract) BY <1>2 DEF Objections
  <1>4. checked \in pack.rules BY DEF PolicyPack
  <1>5. checked.says = Objections(rule, contract) /\ ~checked.crashes /\ contract.protocol \in checked.protocols
    OBVIOUS
  <1> HIDE DEF checked, pack
  <1>6. checked.says \subseteq RunPacks({pack}, contract.protocol) BY <1>4, <1>5 DEF RunPacks
  <1> QED BY <1>3, <1>5, <1>6 DEF Report, Finding, pack

LEMMA ReleaseKeepsPromises == ASSUME TrainAssumption, TrainInv, Release PROVE KeepsPromises
  <1> DEFINE contract == Revisions[candidate]
             policy == project.policy
  <1> SUFFICES ASSUME NEW k \in DOMAIN contract.ops, ~VouchedFor(k)
               PROVE  IsInTime(contract.ops[k]) /\ IsAsAsked(contract, k)
    BY DEF KeepsPromises, Release
  <1>1. candidate \in DOMAIN Revisions BY DEF TrainInv, Comparable
  <1>2. k # None /\ DOMAIN contract.ops[k].plan = 1..2 BY <1>1 DEF TrainAssumption
  <1>3. PICK found : /\ LintBefore[candidate][project][today] =
                          ApplyOverrides(found, MergedOverrides(config, [r \in {} |-> "ERROR"]))
                     /\ LifecycleFindings(contract, today) \subseteq found
                     /\ policy # None =>
                          RunPacks({PolicyPack(policy, contract, Protocols)}, contract.protocol) \subseteq found
    BY LintIs
  <1>4. ASSUME NEW rule, NEW about, Finding(rule, "ERROR", k, about) \in found PROVE FALSE
    BY <1>3, <1>4, OkIsValid
  <1>5. IsInTime(contract.ops[k])
    <2> SUFFICES ASSUME NEW p \in 1..2, contract.ops[k].plan[p].sunset \notin {None, NotADate},
                        ~\E q \in 1..2 : /\ contract.ops[k].plan[q].sunset \notin {None, NotADate}
                                         /\ contract.ops[k].plan[q].sunset >= today
                 PROVE  FALSE
      BY <1>2 DEF IsInTime
    <2> QED BY <1>3, <1>4, SunsetIsFound
  <1>6. IsAsAsked(contract, k)
    <2> SUFFICES ASSUME policy # None, NEW i \in DOMAIN policy.rules,
                        policy.rules[i].severity = "ERROR", policy.rules[i].select = "operation",
                        k \notin policy.rules[i].exempt, contract.protocol \in policy.rules[i].protocols,
                        NEW field \in DOMAIN policy.rules[i].where, policy.rules[i].where[field].predicate = "present",
                        OperationValues(contract.ops[k], field) = {}
                 PROVE  FALSE
      BY DEF IsAsAsked
    <2> QED BY <1>2, <1>3, <1>4, ObjectionIsFound
  <1> QED BY <1>5, <1>6

(* The advice and the version check. *)

Version == Nat \X Nat \X Nat

LEMMA BumpIs ==
  ASSUME NEW old \in Version
  PROVE  /\ Bump(old, "major") = <<old[1] + 1, 0, 0>> /\ Bump(old, "minor") = <<old[1], old[2] + 1, 0>>
         /\ Bump(old, "patch") = <<old[1], old[2], old[3] + 1>> /\ Bump(old, "none") = old
  BY DEF Bump

LEMMA RequiredIs ==
  ASSUME NEW findings, NEW changes
  PROVE  LET kind == RequiredBump(findings, changes)
         IN /\ kind \in {"major", "minor", "patch", "none"}
            /\ kind = "major" <=> \E f \in findings : f.severity = "ERROR"
            /\ kind = "none" => findings = {} /\ changes = {}
            /\ kind = "patch" => \A f \in findings : f.severity # "WARN"
  BY DEF RequiredBump, Severe

\* A complaint is an error or a warning, and says what is wrong with the version.
LEMMA ComplaintIs ==
  ASSUME NEW old \in Version, NEW new \in Version, NEW findings, NEW changes, NEW strict,
         Unparseable \notin {old, new}
  PROVE  LET complaints == SemverFindings(old, new, findings, changes, strict)
         IN complaints # {} =>
              \/ (\E f \in complaints : f.severity = "ERROR") /\ (Before(new, old) \/ ~(new[1] > old[1]))
              \/ /\ \E f \in complaints : f.severity = "WARN"
                 /\ ~Before(new, old)
                 /\ (~(new[2] > old[2] \/ new[1] > old[1]) \/ ~Before(old, new))
  BY DEF SemverFindings

LEMMA ContentIsSilent ==
  ASSUME NEW old \in Version \cup {Unparseable}, NEW new \in Version \cup {Unparseable}, NEW open, NEW changes, NEW strict,
         LET complaints == SemverFindings(old, new, open, changes, strict)
         IN Advice(old, new, open \cup complaints, changes).satisfied
  PROVE  SemverFindings(old, new, open, changes, strict) = {}
  <1> DEFINE complaints == SemverFindings(old, new, open, changes, strict)
             kind == RequiredBump(open \cup complaints, changes)
  <1>1. kind = "none" \/ (Unparseable \notin {old, new} /\ Satisfies(old, new, kind))
    <2>1. Advice(old, new, open \cup complaints, changes).satisfied OBVIOUS
    <2> HIDE DEF complaints
    <2> QED BY <2>1 DEF Advice
  <1>2. CASE kind = "none" BY <1>2, RequiredIs
  <1>3. CASE kind # "none" /\ Unparseable \notin {old, new} /\ Satisfies(old, new, kind)
    <2>1. old \in Version /\ new \in Version BY <1>3
    <2>2. /\ old[1] \in Nat /\ old[2] \in Nat /\ old[3] \in Nat
          /\ new[1] \in Nat /\ new[2] \in Nat /\ new[3] \in Nat
      BY <2>1 DEF Version
    <2>3. complaints # {} =>
            \/ (\E f \in complaints : f.severity = "ERROR") /\ (Before(new, old) \/ ~(new[1] > old[1]))
            \/ /\ \E f \in complaints : f.severity = "WARN"
               /\ ~Before(new, old)
               /\ (~(new[2] > old[2] \/ new[1] > old[1]) \/ ~Before(old, new))
      BY <1>3, <2>1, ComplaintIs
    <2> HIDE DEF complaints
    <2>4. (\E f \in complaints : f.severity = "ERROR") => kind = "major" BY RequiredIs
    <2>5. (\E f \in complaints : f.severity = "WARN") => kind \in {"major", "minor"} BY RequiredIs
    <2> HIDE DEF kind
    <2>6. kind = "major" => new[1] > old[1] BY <1>3 DEF Satisfies
    <2>7. kind = "minor" => new[1] > old[1] \/ new[2] > old[2] BY <1>3 DEF Satisfies
    <2>8. new[1] > old[1] => Before(old, new) /\ ~Before(new, old) BY <2>2 DEF Before
    <2>9. new[2] > old[2] /\ ~Before(new, old) => Before(old, new) BY <2>2 DEF Before
    <2> QED BY <2>3, <2>4, <2>5, <2>6, <2>7, <2>8, <2>9 DEF complaints
  <1> QED BY <1>1, <1>2, <1>3

LEMMA SuggestionIsSilent ==
  ASSUME NEW old \in Version \cup {Unparseable}, NEW new, NEW open, NEW complaints, NEW changes, NEW strict,
         Advice(old, new, open \cup complaints, changes).version # Unparseable
  PROVE  SemverFindings(old, Advice(old, new, open \cup complaints, changes).version, open, changes, strict) = {}
  <1> DEFINE kind == RequiredBump(open \cup complaints, changes)
             v == Bump(old, kind)
  <1>1. old # Unparseable /\ Advice(old, new, open \cup complaints, changes).version = v BY DEF Advice
  <1>2. old \in Version /\ v # Unparseable BY <1>1
  <1>3. old[1] \in Nat /\ old[2] \in Nat /\ old[3] \in Nat BY <1>2 DEF Version
  <1>4. /\ kind \in {"major", "minor", "patch", "none"}
        /\ kind # "major" => Severe(open, "ERROR") = {}
        /\ kind = "none" => open \cup changes = {}
        /\ kind \in {"patch", "none"} => Severe(open, "WARN") = {}
    BY RequiredIs DEF Severe
  <1> HIDE DEF kind
  <1>5. ~Before(v, old) /\ (kind # "none" => Before(old, v)) /\ (kind = "major" => v[1] > old[1])
        /\ (kind = "minor" => v[2] > old[2])
    <2>1. CASE kind = "major" BY <1>2, <1>3, <2>1, BumpIs DEF Before
    <2>2. CASE kind = "minor" BY <1>2, <1>3, <2>2, BumpIs DEF Before
    <2>3. CASE kind = "patch" BY <1>2, <1>3, <2>3, BumpIs DEF Before
    <2>4. CASE kind = "none" BY <1>2, <1>3, <2>4, BumpIs DEF Before
    <2> QED BY <1>4, <2>1, <2>2, <2>3, <2>4
  <1> HIDE DEF v
  <1>6. SemverFindings(old, v, open, changes, strict) = {} 
    <2>1. Unparseable \notin {old, v} BY <1>1, <1>2
    <2>2. ~(Severe(open, "ERROR") # {} /\ ~(v[1] > old[1])) BY <1>4, <1>5
    <2>3. ~(Severe(open, "WARN") # {} /\ ~(v[2] > old[2] \/ v[1] > old[1])) BY <1>4, <1>5
    <2>4. ~(open \cup changes # {} /\ ~Before(old, v)) BY <1>4, <1>5
    <2> QED BY <1>5, <2>1, <2>2, <2>3, <2>4, Zenon DEF SemverFindings
  <1> QED BY <1>1, <1>6

LEMMA AdvisesEnough == ASSUME TrainAssumption, TrainInv PROVE AdviceIsEnough
  <1> DEFINE old == Revisions[released].version
             new == Revisions[candidate].version
             open == OpenFindings(released, candidate, project, file.entries, today)
             changes == ChangesBetween[<<released, candidate>>]
             complaints == VersionFindings(released, candidate, project, open, changes)
             advice == Advice(old, new, open \cup complaints, changes)
  <1>1. old \in Version \cup {Unparseable} /\ new \in Version \cup {Unparseable}
    BY DEF TrainInv, TrainAssumption, Comparable, Version
  <1> HIDE DEF open, changes
  <1>2. ASSUME config.checkSemver, advice.satisfied PROVE complaints = {}
    <2>1. complaints = SemverFindings(old, new, open, changes, project.minorForWarnings)
      BY <1>2 DEF VersionFindings, config
    <2> QED BY <1>1, <1>2, <2>1, ContentIsSilent
  <1>3. ASSUME advice.version # Unparseable
        PROVE  SemverFindings(old, advice.version, open, changes, project.minorForWarnings) = {}
    BY <1>1, <1>3, SuggestionIsSilent
  <1> QED BY <1>2, <1>3 DEF AdviceIsEnough, open, changes

-------------------------------------------------------------------------------
(* The project's days. *)

LEMMA TrainBegins == ASSUME TrainAssumption, Init PROVE TrainInv
  BY DEF TrainAssumption, Init, TrainInv, Comparable

LEMMA TrainGoesOn == ASSUME TrainAssumption, TrainInv, [Next]_vars PROVE TrainInv'
  <1>1. MaxSteps \in Nat /\ today \in Nat BY DaysAreNumbers DEF TrainAssumption
  <1>2. CASE Step
    <2>1. steps' = steps + 1 /\ steps' \in 0..MaxSteps BY <1>1, <1>2 DEF Step, TrainInv
    <2>2. today \in 0..steps' /\ today + 1 \in 0..steps' BY <1>1, <2>1 DEF TrainInv
    <2>3. CASE Propose BY <2>1, <2>2, <2>3 DEF Propose, TrainInv
    <2>4. CASE Write
      <3>1. PICK e \in Writable : file' = [file EXCEPT !.entries = @ \cup {[e EXCEPT !.expires =
              IF e.expires \in {None, NotADate} THEN e.expires ELSE today + e.expires]}]
        BY <2>4 DEF Write
      <3> DEFINE day == IF e.expires \in {None, NotADate} THEN e.expires ELSE today + e.expires
                 entry == [e EXCEPT !.expires = day]
      <3>2. "expires" \in DOMAIN e /\ e.expires \in Int \cup {None, NotADate} BY DEF TrainAssumption
      <3>3. day \in Int \cup {None, NotADate} BY <1>1, <3>2
      <3>4. entry.expires = day
        <4> HIDE DEF day
        <4> QED BY <3>2
      <3> HIDE DEF day, entry
      <3>5. file' = [readable |-> file.readable, entries |-> file.entries \cup {entry}]
        BY <3>1 DEF TrainInv, entry, day
      <3> QED BY <2>1, <2>2, <2>4, <3>3, <3>4, <3>5 DEF Write, TrainInv
    <2>5. CASE Spoil
      <3>1. file' = [readable |-> FALSE, entries |-> file.entries] BY <2>5 DEF Spoil, TrainInv
      <3> QED BY <2>1, <2>2, <2>5, <3>1 DEF Spoil, TrainInv
    <2>6. CASE Sleep BY <2>1, <2>2, <2>6 DEF Sleep, TrainInv
    <2>7. CASE Release
      <3>1. <<candidate, candidate>> \in Comparable BY DEF TrainInv, Comparable
      <3> QED BY <2>1, <2>2, <2>7, <3>1 DEF Release, TrainInv
    <2>8. Propose \/ Write \/ Spoil \/ Sleep \/ Release \/ UNCHANGED vars BY DEF Next
    <2>9. CASE UNCHANGED vars BY <2>9 DEF vars, TrainInv
    <2> QED BY <2>3, <2>4, <2>5, <2>6, <2>7, <2>8, <2>9
  <1>3. CASE ~Step
    <2>1. UNCHANGED vars BY <1>3 DEF Next, Propose, Write, Spoil, Sleep, Release
    <2> QED BY <2>1 DEF vars, TrainInv
  <1> QED BY <1>2, <1>3

\* In the stage of the release gate.
TrainHolds == stage = "release" => TrainInv

LEMMA TrainIsInvariant == ASSUME TrainAssumption PROVE CommandsSpec => []TrainHolds
  <1>1. CommandsInit => TrainHolds BY TrainBegins DEF CommandsInit, TrainHolds
  <1>2. TrainHolds /\ [CommandsNext]_commandVars => TrainHolds'
    <2> SUFFICES ASSUME TrainHolds, [CommandsNext]_commandVars, stage' = "release" PROVE TrainInv'
      BY DEF TrainHolds
    <2>1. stage = "release" /\ [Next]_vars BY DEF CommandsNext, commandVars
    <2> QED BY <2>1, TrainGoesOn DEF TrainHolds
  <1> QED BY <1>1, <1>2, PTL DEF CommandsSpec

\* Whatever the revisions, the projects' files and the consumers are: a version the advice
\* is content with draws no complaint from the version check, nor would the one it
\* suggests, and whoever loses a call is named with the operation (suggest_bump,
\* SemverPolicy.evaluate, blast_radius).
THEOREM AdviceIsSound ==
  ASSUME TrainAssumption
  PROVE  CommandsSpec => []AdviceHolds
  <1>1. TrainHolds => AdviceHolds BY AdvisesEnough, NamesCallers DEF TrainHolds, AdviceHolds
  <1> QED BY <1>1, TrainIsInvariant, PTL

\* Whatever two revisions are: no release takes a served call away, and none is past its
\* own retirement or short of what the policy file asks for, unless a setting, an entry in
\* force that day or a complete registry vouches for the operation (cmd_validate,
\* cmd_breaking, apply_suppressions, annotate).
THEOREM ReleasesHold ==
  ASSUME TrainAssumption
  PROVE  CommandsSpec => ReleasesAreVouchedFor
  <1> DEFINE Vouched == released' # released => BreaksNobody /\ KeepsPromises
  <1>1. TrainHolds /\ [CommandsNext]_commandVars => [Vouched]_vars
    <2> SUFFICES ASSUME TrainHolds, [CommandsNext]_commandVars, released' # released PROVE BreaksNobody /\ KeepsPromises
      OBVIOUS
    <2>1. stage = "release" /\ Next BY DEF CommandsNext, commandVars, vars
    <2>2. Release BY <2>1 DEF Next, Propose, Write, Spoil, Sleep
    <2> QED BY <2>1, <2>2, ReleaseBreaksNobody, ReleaseKeepsPromises DEF TrainHolds
  <1>2. CommandsSpec /\ []TrainHolds => [][Vouched]_vars BY <1>1, PTL DEF CommandsSpec
  <1> QED BY <1>2, TrainIsInvariant, PTL DEF ReleasesAreVouchedFor

-----------------------------------------------------------------------------
(* What folding the files of a contract into one keeps, and what the graph of them      *)
(* shows, for any tree, any limits and any saves meanwhile.  A bundling is described by *)
(* its parts: what was read and rewritten, what is still to be looked at, and the edges *)
(* drawn so far, each from a file that an earlier one led to.                           *)

IsSequence(s) == \E S : s \in Seq(S)

IsBundle(r) == r \in [entry : {r.entry}, own : {r.own}, texts : {r.texts}, original : {r.original}, failed : {r.failed},
                      hoisted : {r.hoisted}, edges : {r.edges}, findings : {r.findings}, stack : {r.stack}]

IsFrame(frame) ==
  /\ frame \in [file : {frame.file}, origin : {frame.origin}, todo : {frame.todo}, depth : {frame.depth},
                ahead : {frame.ahead}, again : {frame.again}]
  /\ IsSequence(frame.todo)

PathOf(r, f) == Refs!PathOf(r, f)

\* Each document it read is one the tree held.
ReadOK(r) == /\ \E k \in DOMAIN Walked : Walked[k] = r.entry
             /\ r.own \in {r.entry, Refs!AsGiven}
             /\ r.own \in DOMAIN r.original
             /\ \A f \in DOMAIN r.original : <<PathOf(r, f), r.original[f]>> \in Refs!Documents /\ r.original[f] # None

Written(r, f, at) == r.original[f][at[1]][at[2]]
Present(r, f, at) == r.texts[f][at[1]][at[2]]
Here(r, f) == Refs!Places(r.original[f], Refs!Whole)

\* What a reference is rewritten to, read from a file.
ReadFrom(origin, ref) == [kind |-> "hoisted", path |-> Refs!Join(origin, ref), at |-> ref.at]

\* A reference is as it was, or rewritten to the fragment it meant, or to the one the
\* contract would mean by it, and a finding tells.
RefOK(r, f, at) ==
  \/ Present(r, f, at) = Written(r, f, at)
  \/ /\ Written(r, f, at).kind \in {"file", "remote"}
     /\ \/ Present(r, f, at) = ReadFrom(PathOf(r, f), Written(r, f, at))
        \/ /\ Present(r, f, at) = ReadFrom(r.entry, Written(r, f, at))
           /\ Refs!Told(r, PathOf(r, f), Written(r, f, at))

TextsOK(r) ==
  /\ DOMAIN r.texts = DOMAIN r.original
  /\ \A f \in DOMAIN r.original :
       /\ DOMAIN r.texts[f] = DOMAIN r.original[f]
       /\ \A g \in DOMAIN r.original[f] : DOMAIN r.texts[f][g] = DOMAIN r.original[f][g]
       /\ \A at \in Here(r, f) : RefOK(r, f, at)

IsPart(r, p) == p[1] \in DOMAIN r.original /\ (p[2] = Refs!Whole \/ p[2] \in DOMAIN r.original[p[1]])

PartsOK(r) == \A h \in r.hoisted : h = <<h[1], h[2]>> /\ IsPart(r, h) /\ h[1] \in Refs!Named

FailedOK(r) == \A f \in r.failed : \E x \in r.findings : x.file = f

\* An earlier edge led to the file, unless it is the contract.
LedTo(r, f, k) == f = r.entry \/ \E j \in 1..k : r.edges[j].resolved = Refs!Label(r.entry, f)

EdgeOK(r, e, k) ==
  \E f \in Refs!Named :
    /\ e.source = Refs!Label(r.entry, f) /\ LedTo(r, f, k)
    /\ e.resolved # None =>
         /\ Refs!Join(f, e.target) \in Refs!Named
         /\ e.resolved = Refs!Label(r.entry, Refs!Join(f, e.target))

EdgesOK(r) == IsSequence(r.edges) /\ \A k \in 1..Len(r.edges) : EdgeOK(r, r.edges[k], k - 1)

Deep(r) == \E x \in r.findings : x.rule = "deep"
HasEdge(r, f, ref) ==
  \E k \in 1..Len(r.edges) : r.edges[k].source = Refs!Label(r.entry, f) /\ r.edges[k].target = ref

\* A reference to another file is rewritten, or a finding tells; and there is an edge.
Settled(r, f, at) ==
  Written(r, f, at).kind # "here" =>
    /\ Present(r, f, at).kind = "hoisted" \/ Refs!Told(r, PathOf(r, f), Written(r, f, at))
    /\ HasEdge(r, PathOf(r, f), Written(r, f, at)) \/ Deep(r)

PlacesIn(r, p) == Refs!Places(r.original[p[1]], p[2])

\* References are read from their own file; from the contract, if they were looked at before.
FrameOK(r, frame) ==
  /\ IsFrame(frame) /\ frame.file \in DOMAIN r.original
  /\ \A j \in 1..Len(frame.todo) : frame.todo[j] \in Here(r, frame.file)
  /\ LedTo(r, frame.origin, Len(r.edges))
  /\ \/ frame.origin = PathOf(r, frame.file)
     \/ frame.origin = r.entry /\ \A j \in 1..Len(frame.todo) : Settled(r, frame.file, frame.todo[j])
  /\ \A h \in frame.again :
       IsPart(r, h) /\ \A at \in PlacesIn(r, h) : h[1] = r.own \/ Settled(r, h[1], at)

\* Only the contract has a table of schemas.
StackOK(r) ==
  /\ IsSequence(r.stack)
  /\ \A k \in 1..Len(r.stack) :
       /\ FrameOK(r, r.stack[k])
       /\ k = 1 => r.stack[k].file = r.own
       /\ k # 1 /\ r.stack[k].ahead => <<r.own, Refs!Whole>> \in r.hoisted

BundleSound(r) == IsBundle(r) /\ ReadOK(r) /\ TextsOK(r) /\ PartsOK(r) /\ FailedOK(r) /\ StackOK(r) /\ EdgesOK(r)

Awaited(r, f, at) ==
  \E k \in 1..Len(r.stack) : r.stack[k].file = f /\ \E j \in 1..Len(r.stack[k].todo) : r.stack[k].todo[j] = at

Attended(r) == \A p \in Refs!Parts(r) : \A at \in PlacesIn(r, p) : Settled(r, p[1], at) \/ Awaited(r, p[1], at)

\* What is rewritten has an edge.
RewrittenOK(r) == \A f \in DOMAIN r.original : \A at \in Here(r, f) :
                    Present(r, f, at).kind = "hoisted" => HasEdge(r, PathOf(r, f), Written(r, f, at)) \/ Deep(r)

BundleInv(r) == BundleSound(r) /\ RewrittenOK(r) /\ Attended(r)

(* Places. *)

LEMMA PlacesAre ==
  ASSUME NEW d, NEW g, NEW at
  PROVE  at \in Refs!Places(d, g) <=>
           /\ at = <<at[1], at[2]>> /\ at[2] \in DOMAIN d[at[1]]
           /\ IF g = Refs!Whole THEN at[1] \in DOMAIN d ELSE at[1] = g
  <1>1. ASSUME at \in Refs!Places(d, g)
        PROVE  \E h \in IF g = Refs!Whole THEN DOMAIN d ELSE {g} : \E i \in DOMAIN d[h] : at = <<h, i>>
    BY <1>1 DEF Refs!Places
  <1>2. ASSUME NEW h \in IF g = Refs!Whole THEN DOMAIN d ELSE {g}, NEW i \in DOMAIN d[h]
        PROVE  <<h, i>> \in Refs!Places(d, g)
    BY DEF Refs!Places
  <1>3. ASSUME NEW h \in IF g = Refs!Whole THEN DOMAIN d ELSE {g}, NEW i \in DOMAIN d[h], at = <<h, i>>
        PROVE  /\ at = <<at[1], at[2]>> /\ at[2] \in DOMAIN d[at[1]]
               /\ IF g = Refs!Whole THEN at[1] \in DOMAIN d ELSE at[1] = g
    <2>1. at[1] = h /\ at[2] = i BY <1>3
    <2> QED BY <2>1, <1>3
  <1>4. ASSUME at = <<at[1], at[2]>> /\ at[2] \in DOMAIN d[at[1]],
               IF g = Refs!Whole THEN at[1] \in DOMAIN d ELSE at[1] = g
        PROVE  at \in Refs!Places(d, g)
    <2> DEFINE h == at[1]
               i == at[2]
    <2>1. h \in (IF g = Refs!Whole THEN DOMAIN d ELSE {g}) /\ i \in DOMAIN d[h] /\ at = <<h, i>> BY <1>4
    <2> HIDE DEF h, i
    <2> QED BY <2>1, <1>2
  <1> QED BY <1>1, <1>3, <1>4

\* A place of a part is one of its file.
LEMMA PartIsHere ==
  ASSUME NEW r, NEW p, IsPart(r, p), NEW at \in PlacesIn(r, p)
  PROVE  at \in Here(r, p[1])
  BY PlacesAre DEF IsPart, PlacesIn, Here

LEMMA HereIs ==
  ASSUME NEW r, NEW f, NEW at
  PROVE  at \in Here(r, f) <=>
           at = <<at[1], at[2]>> /\ at[1] \in DOMAIN r.original[f] /\ at[2] \in DOMAIN r.original[f][at[1]]
  BY PlacesAre DEF Here

LEMMA RefsCount == \A S : Refs!Cardinality(S) = Cardinality(S) /\ (Refs!IsFiniteSet(S) <=> IsFiniteSet(S))
  BY DEF Refs!Cardinality, Cardinality, Refs!IsFiniteSet, IsFiniteSet

\* A finite set as a sequence holds its elements.
LEMMA ListedAre ==
  ASSUME NEW S, IsFiniteSet(S)
  PROVE  /\ Refs!SetToSeq(S) \in Seq(S)
         /\ \A x \in S : \E k \in 1..Len(Refs!SetToSeq(S)) : Refs!SetToSeq(S)[k] = x
  <1> DEFINE n == Cardinality(S)
             Lists(f) == f \in [1..n -> S] /\ Refs!IsInjective(f)
             s == CHOOSE f : Lists(f)
  <1>1. n \in Nat /\ ExistsBijection(1..n, S) BY FS_CardinalityType
  <1>2. PICK b \in Bijection(1..n, S) : TRUE BY <1>1 DEF ExistsBijection
  <1>3. Lists(b) BY <1>2 DEF Refs!IsInjective, Bijection, Injection, IsInjective
  <1>4. Lists(s) BY <1>3
  <1>5. Refs!SetToSeq(S) = s BY RefsCount DEF Refs!SetToSeq
  <1> HIDE DEF s, n
  <1>6. s \in [1..n -> S] /\ Refs!IsInjective(s) BY <1>4
  <1>7. s \in Seq(S) /\ Len(s) = n BY <1>1, <1>6
  <1>8. s \in Injection(1..n, S) BY <1>6 DEF Refs!IsInjective, Injection, IsInjective
  <1>9. Cardinality(1..n) = n
    BY <1>1, FS_Interval
  <1>10. s \in Surjection(1..n, S) BY <1>8, <1>9, FS_Injection DEF n
  <1> QED BY <1>5, <1>7, <1>10 DEF Surjection

HasPlaces(d) == IsFiniteSet(DOMAIN d) /\ \A g \in DOMAIN d : \E m \in Nat : DOMAIN d[g] = 1..m

\* The places in their order are the places.
LEMMA PositionsAre ==
  ASSUME NEW d, HasPlaces(d), NEW g, g = Refs!Whole \/ g \in DOMAIN d
  PROVE  /\ IsSequence(Refs!Positions(d, g))
         /\ \A at : at \in Refs!Places(d, g) <=>
              \E j \in 1..Len(Refs!Positions(d, g)) : Refs!Positions(d, g)[j] = at
  <1> DEFINE P == Refs!Places(d, Refs!Whole)
             of(h) == [i \in DOMAIN d[h] |-> <<h, i>>]
             names == Refs!SetToSeq(DOMAIN d)
             n == Len(names)
  <1>1. IsFiniteSet(DOMAIN d) BY DEF HasPlaces
  <1>2. names \in Seq(DOMAIN d) /\ \A x \in DOMAIN d : \E k \in 1..n : names[k] = x BY <1>1, ListedAre
  <1>3. n \in Nat /\ \A k \in 1..n : names[k] \in DOMAIN d BY <1>2
  <1>4. ASSUME NEW h \in DOMAIN d
        PROVE  /\ of(h) \in Seq(P) /\ Len(of(h)) \in Nat /\ DOMAIN d[h] = 1..Len(of(h))
               /\ \A i \in 1..Len(of(h)) : of(h)[i] = <<h, i>>
    <2>1. PICK m \in Nat : DOMAIN d[h] = 1..m BY DEF HasPlaces
    <2>2. \A i \in 1..m : <<h, i>> \in P BY <2>1, PlacesAre
    <2>3. of(h) = [i \in 1..m |-> <<h, i>>] BY <2>1
    <2>4. of(h) \in [1..m -> P] BY <2>2, <2>3
    <2> QED BY <2>1, <2>3, <2>4
  <1> HIDE DEF n, names
  <1>5. CASE g # Refs!Whole
    <2>1. Refs!Positions(d, g) = of(g) /\ g \in DOMAIN d BY <1>5 DEF Refs!Positions
    <2>2. \A at : at \in Refs!Places(d, g) <=> at = <<at[1], at[2]>> /\ at[2] \in DOMAIN d[g] /\ at[1] = g
      BY <1>5, PlacesAre
    <2> HIDE DEF of
    <2>3. IsSequence(of(g)) BY <1>4, <2>1 DEF IsSequence
    <2>4. ASSUME NEW at, at \in Refs!Places(d, g) PROVE \E j \in 1..Len(of(g)) : of(g)[j] = at
      <3>1. at = <<g, at[2]>> /\ at[2] \in DOMAIN d[g] BY <2>2, <2>4
      <3>2. at[2] \in 1..Len(of(g)) /\ of(g)[at[2]] = <<g, at[2]>> BY <1>4, <2>1, <3>1
      <3> QED BY <3>1, <3>2
    <2>5. ASSUME NEW j \in 1..Len(of(g)) PROVE of(g)[j] \in Refs!Places(d, g)
      <3>1. of(g)[j] = <<g, j>> /\ j \in DOMAIN d[g] BY <1>4, <2>1, <2>5
      <3> QED BY <3>1, <2>2
    <2> QED BY <2>1, <2>3, <2>4, <2>5
  <1>6. CASE g = Refs!Whole
    <2> DEFINE Then(prev, k) == prev \o of(names[k])
               Steps(f, m) == f = [k \in 0..m |-> IF k = 0 THEN <<>> ELSE Then(f[k - 1], k)]
               upTo == CHOOSE f : Steps(f, n)
    <2>1. Refs!Positions(d, g) = upTo[n] BY <1>6 DEF Refs!Positions, n, names
    <2> HIDE DEF Then
    <2>2. \E f : Steps(f, n)
      <3> DEFINE Bad == {m \in Nat : ~ \E f : Steps(f, m)}
      <3>1. CASE Bad = {} BY <3>1, <1>3
      <3>2. CASE Bad # {}
        <4> HIDE DEF Steps
        <4>1. PICK m \in Bad : \A j \in Bad : m <= j BY <3>2, Lowest
        <4> USE DEF Steps
        <4>2. CASE m = 0
          <5>1. Steps([k \in 0..0 |-> <<>>], 0) OBVIOUS
          <5> QED BY <5>1, <4>1, <4>2
        <4>3. CASE m # 0
          <5>1. m - 1 \in Nat /\ ~ (m <= m - 1) BY <4>1, <4>3
          <5>2. PICK f : Steps(f, m - 1) 
            <6> HIDE DEF Steps
            <6> QED BY <5>1, <4>1
          <5> DEFINE h == [k \in 0..m |-> IF k = m THEN Then(f[m - 1], m) ELSE f[k]]
          <5>3. ASSUME NEW k \in 0..m PROVE h[k] = IF k = 0 THEN <<>> ELSE Then(h[k - 1], k)
            <6>1. CASE k = 0 BY <6>1, <5>1, <5>2
            <6>2. CASE k # 0 /\ k # m
              <7>1. k \in 0..(m - 1) /\ k - 1 \in 0..(m - 1) /\ k - 1 # m BY <6>2, <5>1
              <7>2. h[k] = f[k] /\ h[k - 1] = f[k - 1] BY <7>1, <6>2
              <7>3. f[k] = Then(f[k - 1], k) BY <7>1, <6>2, <5>2
              <7> QED BY <7>2, <7>3, <6>2
            <6>3. CASE k = m
              <7>1. m - 1 \in 0..m /\ m - 1 # m BY <5>1
              <7>2. h[m - 1] = f[m - 1] /\ h[m] = Then(f[m - 1], m) BY <7>1
              <7> QED BY <7>2, <6>3, <4>3
            <6> QED BY <6>1, <6>2, <6>3
          <5>4. h = [k \in 0..m |-> h[k]] OBVIOUS
          <5>5. Steps(h, m)
            <6> HIDE DEF h
            <6> QED BY <5>3, <5>4
          <5> HIDE DEF Steps, h
          <5> QED BY <5>5, <4>1
        <4> QED BY <4>2, <4>3
      <3> QED BY <3>1, <3>2
    <2>3. Steps(upTo, n)
      <3> HIDE DEF Steps
      <3> QED BY <2>2
    <2>4. ASSUME NEW k \in 0..n PROVE upTo[k] = IF k = 0 THEN <<>> ELSE Then(upTo[k - 1], k)
      <3> HIDE DEF upTo
      <3> QED BY <2>3
    <2> DEFINE Lists(s, k) == \A at : (\E j \in 1..Len(s) : s[j] = at) <=>
                                at = <<at[1], at[2]>> /\ at[2] \in DOMAIN d[at[1]] /\ \E m \in 1..k : at[1] = names[m]
               Right(k) == upTo[k] \in Seq(P) /\ Lists(upTo[k], k)
    <2> HIDE DEF upTo
    <2>5. Right(0)
      <3>1. upTo[0] = <<>> BY <2>4, <1>3
      <3> QED BY <3>1
    <2>6. ASSUME NEW k \in 1..n, Right(k - 1) PROVE Right(k)
      <3> DEFINE s == upTo[k - 1]
                 t == of(names[k])
      <3>1. upTo[k] = s \o t
        <4>1. k \in 0..n /\ k # 0 BY <1>3
        <4> QED BY <2>4, <4>1 DEF Then
      <3>2. s \in Seq(P) /\ Lists(s, k - 1) BY <2>6
      <3>3. names[k] \in DOMAIN d BY <1>3
      <3>4. t \in Seq(P) /\ Len(t) \in Nat /\ DOMAIN d[names[k]] = 1..Len(t) /\ \A i \in 1..Len(t) : t[i] = <<names[k], i>>
        BY <1>4, <3>3
      <3> HIDE DEF s, t
      <3>5. s \o t \in Seq(P) /\ Len(s \o t) = Len(s) + Len(t) /\ Len(s) \in Nat
            /\ \A j \in 1..(Len(s) + Len(t)) : (s \o t)[j] = IF j <= Len(s) THEN s[j] ELSE t[j - Len(s)]
        BY <3>2, <3>4
      <3>6. ASSUME NEW j \in 1..Len(s \o t) PROVE (\E i \in 1..Len(s) : (s \o t)[j] = s[i]) \/ (\E i \in 1..Len(t) : (s \o t)[j] = t[i])
        BY <3>5, <3>4
      <3>7. ASSUME NEW i \in 1..Len(s) PROVE i \in 1..Len(s \o t) /\ (s \o t)[i] = s[i] BY <3>5, <3>4
      <3>8. ASSUME NEW i \in 1..Len(t)
            PROVE  Len(s) + i \in 1..Len(s \o t) /\ (s \o t)[Len(s) + i] = t[i]
        BY <3>5, <3>4
      <3>9. ASSUME NEW at PROVE (\E j \in 1..Len(s \o t) : (s \o t)[j] = at)
                                 <=> (\E i \in 1..Len(s) : s[i] = at) \/ (\E i \in 1..Len(t) : t[i] = at)
        BY <3>6, <3>7, <3>8
      <3>10. ASSUME NEW at PROVE (\E i \in 1..Len(t) : t[i] = at)
                                  <=> at = <<at[1], at[2]>> /\ at[2] \in DOMAIN d[at[1]] /\ at[1] = names[k]
        <4>1. ASSUME NEW i \in 1..Len(t), t[i] = at
              PROVE  at = <<at[1], at[2]>> /\ at[2] \in DOMAIN d[at[1]] /\ at[1] = names[k]
          <5>1. at = <<names[k], i>> /\ i \in DOMAIN d[names[k]] BY <3>4, <4>1
          <5> QED BY <5>1
        <4>2. ASSUME at = <<at[1], at[2]>> /\ at[2] \in DOMAIN d[at[1]] /\ at[1] = names[k]
              PROVE  at[2] \in 1..Len(t) /\ t[at[2]] = at
          BY <3>4, <4>2
        <4> QED BY <4>1, <4>2
      <3>11. ASSUME NEW x PROVE (\E m \in 1..k : x = names[m]) <=> (\E m \in 1..(k - 1) : x = names[m]) \/ x = names[k]
        <4>1. \A m : m \in 1..k <=> m \in 1..(k - 1) \/ m = k OBVIOUS
        <4> QED BY <4>1
      <3>12. Lists(s \o t, k) BY <3>2, <3>9, <3>10, <3>11
      <3> QED BY <3>1, <3>5, <3>12
    <2> DEFINE Bad == {k \in 0..n : ~ Right(k)}
    <2> HIDE DEF Right
    <2>7. Bad = {}
      <3> SUFFICES ASSUME Bad # {} PROVE FALSE OBVIOUS
      <3>1. PICK k \in Bad : \A j \in Bad : k <= j
        <4>1. Bad \in SUBSET Nat OBVIOUS
        <4> HIDE DEF Bad
        <4> QED BY <4>1, Lowest
      <3>2. k \in 1..n /\ k - 1 \in 0..n /\ ~ (k <= k - 1)
        <4>1. k \in 0..n /\ ~ Right(k) BY <3>1
        <4>2. k # 0 BY <4>1, <2>5
        <4> QED BY <4>1, <4>2, <1>3
      <3>3. Right(k - 1) BY <3>1, <3>2
      <3> QED BY <2>6, <3>1, <3>2, <3>3
    <2>8. Right(n) BY <2>7, <1>3
    <2>9. \A at : at \in Refs!Places(d, g) <=> at = <<at[1], at[2]>> /\ at[2] \in DOMAIN d[at[1]] /\ at[1] \in DOMAIN d
      BY <1>6, PlacesAre
    <2>10. \A x : x \in DOMAIN d <=> \E m \in 1..n : x = names[m] BY <1>2, <1>3 DEF n
    <2>11. IsSequence(upTo[n]) BY <2>8 DEF Right, IsSequence
    <2>12. Lists(upTo[n], n) BY <2>8 DEF Right
    <2> HIDE DEF of
    <2> QED BY <2>1, <2>9, <2>10, <2>11, <2>12
  <1> QED BY <1>5, <1>6

(* What each step of the bundling does to the record, field by field. *)

LEMMA FoundIs ==
  ASSUME NEW r, IsBundle(r), NEW rule, NEW f, NEW ref
  PROVE  LET q == Refs!Found(r, rule, f, ref)
         IN /\ IsBundle(q) /\ q.entry = r.entry /\ q.own = r.own /\ q.texts = r.texts /\ q.original = r.original /\ q.failed = r.failed
            /\ q.hoisted = r.hoisted /\ q.edges = r.edges /\ q.stack = r.stack
            /\ q.findings = r.findings \cup {[rule |-> rule, file |-> f, ref |-> ref]}
  BY DEF IsBundle, Refs!Found

EdgeOf(r, ref, resolved, refused) ==
  [source |-> Refs!Label(r.entry, Refs!Last(r.stack).origin), target |-> ref, resolved |-> resolved, refused |-> refused]

LEMMA DrawnIs ==
  ASSUME NEW r, IsBundle(r), NEW ref, NEW resolved, NEW refused
  PROVE  LET q == Refs!Drawn(r, ref, resolved, refused)
         IN /\ IsBundle(q) /\ q.entry = r.entry /\ q.own = r.own /\ q.texts = r.texts /\ q.original = r.original /\ q.failed = r.failed
            /\ q.hoisted = r.hoisted /\ q.findings = r.findings /\ q.stack = r.stack
            /\ q.edges = Append(r.edges, EdgeOf(r, ref, resolved, refused))
  BY DEF IsBundle, Refs!Drawn, EdgeOf

LEMMA AdvancedIs ==
  ASSUME NEW r, IsBundle(r)
  PROVE  LET q == Refs!Advanced(r)
         IN /\ IsBundle(q) /\ q.entry = r.entry /\ q.own = r.own /\ q.texts = r.texts /\ q.original = r.original /\ q.failed = r.failed
            /\ q.hoisted = r.hoisted /\ q.findings = r.findings /\ q.edges = r.edges
            /\ q.stack = [r.stack EXCEPT ![Len(r.stack)].todo = Tail(r.stack[Len(r.stack)].todo)]
  BY DEF IsBundle, Refs!Advanced

RewriteTo(r, f, at, to) ==
  [r EXCEPT !.texts = [r.texts EXCEPT ![f][at[1]][at[2]] = [kind |-> "hoisted", path |-> to[1], at |-> to[2]]]]

LEMMA RewrittenIs ==
  ASSUME NEW r, IsBundle(r), NEW target, NEW ref
  PROVE  LET q == Refs!Rewritten(r, target, ref)
             frame == Refs!Last(r.stack)
             at == Head(frame.todo)
         IN \E to :
              /\ to = <<target, ref.at>> \/ to \in Refs!Known(r, target, ref)
              /\ q = RewriteTo(r, frame.file, at, to)
  <1> DEFINE q == Refs!Rewritten(r, target, ref)
             frame == Refs!Last(r.stack)
             at == Head(frame.todo)
             known == Refs!Known(r, target, ref)
             chosen == IF known = {} THEN <<target, ref.at>> ELSE CHOOSE h \in known : TRUE
  <1>1. q = [r EXCEPT !.texts[frame.file][at[1]][at[2]] = [kind |-> "hoisted", path |-> chosen[1], at |-> chosen[2]]]
    BY DEF Refs!Rewritten
  <1>2. chosen = <<target, ref.at>> \/ chosen \in known OBVIOUS
  <1> HIDE DEF chosen, q, at, frame
  <1>3. q = RewriteTo(r, frame.file, at, chosen) BY <1>1 DEF RewriteTo
  <1> QED BY <1>2, <1>3 DEF q, at, frame

LEMMA HoistedIs ==
  ASSUME NEW r, IsBundle(r), NEW h
  PROVE  LET q == [r EXCEPT !.hoisted = @ \cup {h}]
         IN /\ IsBundle(q) /\ q.entry = r.entry /\ q.own = r.own /\ q.texts = r.texts /\ q.original = r.original /\ q.failed = r.failed
            /\ q.stack = r.stack /\ q.findings = r.findings /\ q.edges = r.edges
            /\ q.hoisted = r.hoisted \cup {h}
  BY DEF IsBundle

Pushed(r, frame) == [r EXCEPT !.stack = Append(r.stack, frame)]

LEMMA PushedIs ==
  ASSUME NEW r, IsBundle(r), NEW frame
  PROVE  LET q == Pushed(r, frame)
         IN /\ IsBundle(q) /\ q.entry = r.entry /\ q.own = r.own /\ q.texts = r.texts /\ q.original = r.original /\ q.failed = r.failed
            /\ q.hoisted = r.hoisted /\ q.findings = r.findings /\ q.edges = r.edges
            /\ q.stack = Append(r.stack, frame)
  BY DEF IsBundle, Pushed

LEMMA PoppedIs ==
  ASSUME NEW r, IsBundle(r)
  PROVE  LET q == [r EXCEPT !.stack = Refs!Front(@)]
         IN /\ IsBundle(q) /\ q.entry = r.entry /\ q.own = r.own /\ q.texts = r.texts /\ q.original = r.original /\ q.failed = r.failed
            /\ q.hoisted = r.hoisted /\ q.findings = r.findings /\ q.edges = r.edges
            /\ q.stack = Refs!Front(r.stack)
  BY DEF IsBundle

(* What was read, said and drawn stays. *)

Beyond(r, q) ==
  /\ q.entry = r.entry /\ q.own = r.own /\ r.findings \subseteq q.findings /\ r.hoisted \subseteq q.hoisted
  /\ DOMAIN r.original \subseteq DOMAIN q.original
  /\ \A f \in DOMAIN r.original : q.original[f] = r.original[f]
  /\ Len(r.edges) <= Len(q.edges) /\ \A k \in 1..Len(r.edges) : q.edges[k] = r.edges[k]
  /\ \A f \in DOMAIN r.original : \A at \in Here(r, f) :
       Present(r, f, at).kind = "hoisted" => Present(q, f, at).kind = "hoisted"

LEMMA LengthsAre ==
  ASSUME NEW s, IsSequence(s)
  PROVE  /\ Len(s) \in Nat /\ DOMAIN s = 1..Len(s)
         /\ \A e : /\ IsSequence(Append(s, e)) /\ Len(Append(s, e)) = Len(s) + 1
                   /\ Append(s, e)[Len(s) + 1] = e /\ \A k \in 1..Len(s) : Append(s, e)[k] = s[k]
  <1>1. PICK S : s \in Seq(S) BY DEF IsSequence
  <1>2. Len(s) \in Nat /\ DOMAIN s = 1..Len(s) BY <1>1
  <1>3. ASSUME NEW e
        PROVE  /\ IsSequence(Append(s, e)) /\ Len(Append(s, e)) = Len(s) + 1
               /\ Append(s, e)[Len(s) + 1] = e /\ \A k \in 1..Len(s) : Append(s, e)[k] = s[k]
    <2>1. s \in Seq(S \cup {e}) BY <1>1
    <2>2. Append(s, e) \in Seq(S \cup {e}) /\ Len(Append(s, e)) = Len(s) + 1
          /\ Append(s, e)[Len(s) + 1] = e /\ \A k \in 1..Len(s) : Append(s, e)[k] = s[k]
      BY <2>1
    <2> QED BY <2>2 DEF IsSequence
  <1> QED BY <1>2, <1>3

LEMMA BeyondItself == ASSUME NEW r, IsSequence(r.edges) PROVE Beyond(r, r)
  BY LengthsAre DEF Beyond

LEMMA BeyondThat ==
  ASSUME NEW r, NEW q, NEW p, Beyond(r, q), Beyond(q, p), IsSequence(r.edges), IsSequence(q.edges), IsSequence(p.edges)
  PROVE  Beyond(r, p)
  <1>1. Len(r.edges) \in Nat /\ Len(q.edges) \in Nat /\ Len(p.edges) \in Nat BY LengthsAre
  <1>2. \A k \in 1..Len(r.edges) : k \in 1..Len(q.edges) BY <1>1 DEF Beyond
  <1>3. Len(r.edges) <= Len(p.edges) /\ \A k \in 1..Len(r.edges) : p.edges[k] = r.edges[k]
    BY <1>1, <1>2 DEF Beyond
  <1>4. \A f \in DOMAIN r.original : f \in DOMAIN q.original /\ q.original[f] = r.original[f] /\ Here(q, f) = Here(r, f)
    BY DEF Beyond, Here
  <1>5. ASSUME NEW f \in DOMAIN r.original, NEW at \in Here(r, f), Present(r, f, at).kind = "hoisted"
        PROVE  Present(p, f, at).kind = "hoisted"
    BY <1>4, <1>5 DEF Beyond
  <1> QED BY <1>3, <1>4, <1>5 DEF Beyond

LEMMA LedOn ==
  ASSUME NEW r, NEW q, Beyond(r, q), IsSequence(r.edges), NEW k \in Nat, k <= Len(r.edges), NEW f, LedTo(r, f, k)
  PROVE  LedTo(q, f, k)
  <1>1. \A j \in 1..k : j \in 1..Len(r.edges) BY LengthsAre
  <1> QED BY <1>1 DEF Beyond, LedTo

LEMMA LedFurther ==
  ASSUME NEW r, NEW k \in Nat, NEW m \in Nat, k <= m, NEW f, LedTo(r, f, k)
  PROVE  LedTo(r, f, m)
  BY DEF LedTo

LEMMA PartsStay ==
  ASSUME NEW r, NEW q, Beyond(r, q), NEW h, IsPart(r, h)
  PROVE  IsPart(q, h) /\ PlacesIn(q, h) = PlacesIn(r, h)
  BY DEF Beyond, IsPart, PlacesIn

\* What is settled stays so.
LEMMA SettledStays ==
  ASSUME NEW r, NEW q, Beyond(r, q), IsSequence(r.edges), IsSequence(q.edges),
         NEW f \in DOMAIN r.original, NEW at \in Here(r, f), Settled(r, f, at)
  PROVE  Settled(q, f, at)
  <1>1. Written(q, f, at) = Written(r, f, at) BY DEF Beyond, Written
  <1>2. Deep(r) => Deep(q) BY DEF Beyond, Deep
  <1>3. \A g, ref : Refs!Told(r, g, ref) => Refs!Told(q, g, ref) BY DEF Beyond, Refs!Told
  <1>4. \A g, ref : HasEdge(r, g, ref) => HasEdge(q, g, ref)
    <2>1. \A k \in 1..Len(r.edges) : k \in 1..Len(q.edges) BY LengthsAre DEF Beyond
    <2> QED BY <2>1 DEF Beyond, HasEdge
  <1>5. Present(r, f, at).kind = "hoisted" => Present(q, f, at).kind = "hoisted" BY DEF Beyond
  <1>6. PathOf(q, f) = PathOf(r, f) BY DEF Beyond, PathOf, Refs!PathOf
  <1> QED BY <1>1, <1>2, <1>3, <1>4, <1>5, <1>6 DEF Settled

LEMMA FrameStays ==
  ASSUME NEW r, NEW q, Beyond(r, q), IsSequence(r.edges), IsSequence(q.edges), NEW frame, FrameOK(r, frame)
  PROVE  FrameOK(q, frame)
  <1> DEFINE f == frame.file
  <1>1. f \in DOMAIN r.original /\ LedTo(r, frame.origin, Len(r.edges)) /\ IsFrame(frame)
        /\ \A j \in 1..Len(frame.todo) : frame.todo[j] \in Here(r, f)
    BY DEF FrameOK
  <1>2. Here(q, f) = Here(r, f) /\ f \in DOMAIN q.original BY <1>1 DEF Beyond, Here
  <1>3. LedTo(q, frame.origin, Len(q.edges))
    <2>1. LedTo(q, frame.origin, Len(r.edges)) BY <1>1, LedOn, LengthsAre
    <2> QED BY <2>1, LedFurther, LengthsAre DEF Beyond
  <1>4. PathOf(q, f) = PathOf(r, f) /\ q.entry = r.entry /\ q.own = r.own BY DEF Beyond, PathOf, Refs!PathOf
  <1>5. \A j \in 1..Len(frame.todo) : Settled(r, f, frame.todo[j]) => Settled(q, f, frame.todo[j])
    BY <1>1, SettledStays
  <1>6. ASSUME NEW h \in frame.again
        PROVE  IsPart(q, h) /\ \A at \in PlacesIn(q, h) : h[1] = q.own \/ Settled(q, h[1], at)
    <2>1. IsPart(r, h) /\ \A at \in PlacesIn(r, h) : h[1] = r.own \/ Settled(r, h[1], at) BY DEF FrameOK
    <2>2. IsPart(q, h) /\ PlacesIn(q, h) = PlacesIn(r, h) BY <2>1, PartsStay
    <2>3. h[1] \in DOMAIN r.original BY <2>1 DEF IsPart
    <2>4. ASSUME NEW at \in PlacesIn(r, h), Settled(r, h[1], at) PROVE Settled(q, h[1], at)
      BY <2>1, <2>3, <2>4, PartIsHere, SettledStays
    <2> QED BY <2>1, <2>2, <2>4, <1>4
  <1>7. \/ frame.origin = PathOf(r, f)
        \/ frame.origin = r.entry /\ \A j \in 1..Len(frame.todo) : Settled(r, f, frame.todo[j])
    BY DEF FrameOK
  <1> QED BY <1>1, <1>2, <1>3, <1>4, <1>5, <1>6, <1>7 DEF FrameOK

LEMMA StackStays ==
  ASSUME NEW r, NEW q, Beyond(r, q), IsSequence(r.edges), IsSequence(q.edges), StackOK(r), q.stack = r.stack
  PROVE  StackOK(q)
  <1>1. ASSUME NEW k \in 1..Len(r.stack) PROVE FrameOK(q, r.stack[k])
    BY FrameStays DEF StackOK
  <1>2. q.own = r.own /\ r.hoisted \subseteq q.hoisted BY DEF Beyond
  <1> QED BY <1>1, <1>2 DEF StackOK

LEMMA TextsStay ==
  ASSUME NEW r, NEW q, TextsOK(r), q.original = r.original, q.texts = r.texts, q.entry = r.entry, q.own = r.own,
         r.findings \subseteq q.findings
  PROVE  TextsOK(q)
  <1>1. \A g, ref : Refs!Told(r, g, ref) => Refs!Told(q, g, ref) BY DEF Refs!Told
  <1>2. ASSUME NEW f \in DOMAIN r.original, NEW at \in Here(r, f) PROVE RefOK(q, f, at)
    <2>1. RefOK(r, f, at) BY DEF TextsOK
    <2>2. Present(q, f, at) = Present(r, f, at) /\ Written(q, f, at) = Written(r, f, at) /\ PathOf(q, f) = PathOf(r, f)
      BY DEF Present, Written, PathOf, Refs!PathOf
    <2> QED BY <2>1, <2>2, <1>1 DEF RefOK
  <1>3. \A f \in DOMAIN r.original : Here(q, f) = Here(r, f) BY DEF Here
  <1> QED BY <1>2, <1>3 DEF TextsOK

LEMMA EdgeStays ==
  ASSUME NEW r, NEW q, Beyond(r, q), IsSequence(r.edges), NEW k \in Nat, k <= Len(r.edges), NEW e, EdgeOK(r, e, k)
  PROVE  EdgeOK(q, e, k)
  <1>1. PICK f \in Refs!Named :
          /\ e.source = Refs!Label(r.entry, f) /\ LedTo(r, f, k)
          /\ e.resolved # None =>
               /\ Refs!Join(f, e.target) \in Refs!Named
               /\ e.resolved = Refs!Label(r.entry, Refs!Join(f, e.target))
    BY DEF EdgeOK
  <1>2. LedTo(q, f, k) BY <1>1, LedOn
  <1> QED BY <1>1, <1>2 DEF EdgeOK, Beyond

LEMMA EdgesStay ==
  ASSUME NEW r, NEW q, Beyond(r, q), EdgesOK(r), q.edges = r.edges
  PROVE  EdgesOK(q)
  <1>1. ASSUME NEW k \in 1..Len(r.edges) PROVE EdgeOK(q, r.edges[k], k - 1)
    <2>1. k - 1 \in Nat /\ k - 1 <= Len(r.edges) BY LengthsAre DEF EdgesOK
    <2>2. EdgeOK(r, r.edges[k], k - 1) /\ IsSequence(r.edges) BY DEF EdgesOK
    <2> HIDE DEF EdgeOK
    <2> QED BY <2>1, <2>2, EdgeStays
  <1> QED BY <1>1 DEF EdgesOK

\* The parts of a bundling are parts of what it read.
LEMMA PartsAre == ASSUME NEW r, BundleSound(r), NEW p \in Refs!Parts(r) PROVE IsPart(r, p) /\ p = <<p[1], p[2]>>
  BY DEF BundleSound, PartsOK, ReadOK, IsPart, Refs!Parts

(* Every step keeps a bundling sound. *)

LEMMA NamesAre ==
  ASSUME NEW f, NEW d, <<f, d>> \in Refs!Documents
  PROVE  /\ f \in Refs!Named
         /\ d # None => \A at \in Refs!Places(d, Refs!Whole) :
              d[at[1]][at[2]].kind \in {"file", "remote"} =>
                \A origin \in {f} \cup { Walked[k] : k \in DOMAIN Walked } : Refs!Join(origin, d[at[1]][at[2]]) \in Refs!Named
  <1> DEFINE s == <<f, d>>
  <1>1. s[1] = f /\ s[2] = d /\ s \in Refs!Documents OBVIOUS
  <1> HIDE DEF s
  <1>2. f \in Refs!Named BY <1>1 DEF Refs!Named
  <1>3. ASSUME d # None, NEW at \in Refs!Places(d, Refs!Whole), d[at[1]][at[2]].kind \in {"file", "remote"},
               NEW origin \in {f} \cup { Walked[k] : k \in DOMAIN Walked }
        PROVE  Refs!Join(origin, d[at[1]][at[2]]) \in Refs!Named
    <2> DEFINE refs == { d[p[1]][p[2]] : p \in Refs!Places(d, Refs!Whole) }
               from(o) == { Refs!Join(o, ref) : ref \in { x \in refs : x.kind \in {"file", "remote"} } }
    <2>1. d[at[1]][at[2]] \in { x \in refs : x.kind \in {"file", "remote"} } BY <1>3
    <2>2. Refs!Join(origin, d[at[1]][at[2]]) \in from(origin) BY <2>1
    <2>3. Refs!PointedTo(f, d) = UNION { from(o) : o \in {f} \cup { Walked[k] : k \in DOMAIN Walked } }
      BY DEF Refs!PointedTo
    <2> HIDE DEF from
    <2>4. Refs!Join(origin, d[at[1]][at[2]]) \in Refs!PointedTo(f, d) BY <2>2, <2>3
    <2> QED BY <1>1, <1>3, <2>4 DEF Refs!Named
  <1> QED BY <1>2, <1>3

\* What a bundling read has a name, and so has what that points to, read from where it
\* is or from the contract.
LEMMA ReadIsNamed ==
  ASSUME NEW r, ReadOK(r), NEW f \in DOMAIN r.original
  PROVE  /\ PathOf(r, f) \in Refs!Named
         /\ \A at \in Here(r, f) : Written(r, f, at).kind \in {"file", "remote"} =>
              /\ Refs!Join(PathOf(r, f), Written(r, f, at)) \in Refs!Named
              /\ Refs!Join(r.entry, Written(r, f, at)) \in Refs!Named
  <1> DEFINE F == PathOf(r, f)
             D == r.original[f]
  <1>1. <<F, D>> \in Refs!Documents /\ D # None BY DEF ReadOK
  <1>2. r.entry \in { Walked[k] : k \in DOMAIN Walked } BY DEF ReadOK
  <1>3. ASSUME NEW at \in Here(r, f), Written(r, f, at).kind \in {"file", "remote"},
               NEW origin \in {F} \cup { Walked[k] : k \in DOMAIN Walked }
        PROVE  Refs!Join(origin, Written(r, f, at)) \in Refs!Named
    <2>1. at \in Refs!Places(D, Refs!Whole) /\ Written(r, f, at) = D[at[1]][at[2]] BY DEF Here, Written
    <2> HIDE DEF F, D
    <2> QED BY <1>1, <1>3, <2>1, NamesAre
  <1>4. F \in Refs!Named
    <2> HIDE DEF F, D
    <2> QED BY <1>1, NamesAre
  <1> QED BY <1>2, <1>3, <1>4

LEMMA EntryIsNamed == ASSUME NEW r, ReadOK(r) PROVE r.entry \in Refs!Named /\ PathOf(r, r.own) = r.entry
  <1>1. PathOf(r, r.own) = r.entry BY DEF PathOf, Refs!PathOf
  <1>2. r.own \in DOMAIN r.original BY DEF ReadOK
  <1> QED BY <1>1, <1>2, ReadIsNamed

\* A file with a name is where its name says.
LEMMA PathIs ==
  ASSUME Refs!TreeAssumption, NEW r, ReadOK(r), NEW f \in Refs!Named
  PROVE  PathOf(r, f) = f
  BY DEF Refs!TreeAssumption, ReadOK, PathOf, Refs!PathOf

LEMMA SoundSame ==
  ASSUME NEW r, NEW q, BundleSound(r), IsBundle(q), q.entry = r.entry, q.own = r.own, q.original = r.original, q.texts = r.texts,
         q.hoisted = r.hoisted, q.edges = r.edges, q.stack = r.stack, r.findings \subseteq q.findings, FailedOK(q)
  PROVE  BundleSound(q) /\ Beyond(r, q)
  <1>1. IsSequence(r.edges) /\ IsSequence(q.edges) BY DEF BundleSound, EdgesOK
  <1>2. Beyond(r, q) BY <1>1, LengthsAre DEF Beyond, Present
  <1>3. ReadOK(q) BY DEF ReadOK, BundleSound, PathOf, Refs!PathOf
  <1>4. TextsOK(q) BY TextsStay DEF BundleSound
  <1>5. PartsOK(q) BY DEF PartsOK, BundleSound, IsPart
  <1>6. StackOK(q) BY <1>1, <1>2, StackStays DEF BundleSound
  <1>7. EdgesOK(q) BY <1>2, EdgesStay DEF BundleSound
  <1> QED BY <1>2, <1>3, <1>4, <1>5, <1>6, <1>7 DEF BundleSound

LEMMA SoundFound ==
  ASSUME NEW r, BundleSound(r), NEW rule, NEW f, NEW ref
  PROVE  /\ BundleSound(Refs!Found(r, rule, f, ref)) /\ Beyond(r, Refs!Found(r, rule, f, ref))
         /\ \E x \in Refs!Found(r, rule, f, ref).findings : x.rule = rule /\ x.file = f /\ x.ref = ref
  <1> DEFINE q == Refs!Found(r, rule, f, ref)
             x == [rule |-> rule, file |-> f, ref |-> ref]
  <1>1. /\ IsBundle(q) /\ q.entry = r.entry /\ q.own = r.own /\ q.texts = r.texts /\ q.original = r.original /\ q.failed = r.failed
        /\ q.hoisted = r.hoisted /\ q.edges = r.edges /\ q.stack = r.stack
        /\ q.findings = r.findings \cup {x}
    BY FoundIs DEF BundleSound
  <1>2. x.rule = rule /\ x.file = f /\ x.ref = ref OBVIOUS
  <1> HIDE DEF q, x
  <1>3. FailedOK(q) BY <1>1 DEF FailedOK, BundleSound
  <1>4. BundleSound(q) /\ Beyond(r, q) BY <1>1, <1>3, SoundSame
  <1> QED BY <1>1, <1>2, <1>4 DEF q

HasNext(r) == Len(r.stack) \in Nat \ {0} /\ Len(Refs!Last(r.stack).todo) \in Nat \ {0}

\* The file whose references are looked at, and the next of them.
Top(r) == Refs!Last(r.stack)
Spot(r) == Head(Top(r).todo)

LEMMA TopIs ==
  ASSUME NEW r, BundleSound(r), HasNext(r)
  PROVE  /\ IsFrame(Top(r)) /\ FrameOK(r, Top(r)) /\ Top(r).file \in DOMAIN r.original /\ Top(r).origin \in Refs!Named
         /\ LedTo(r, Top(r).origin, Len(r.edges))
         /\ Spot(r) \in Here(r, Top(r).file) /\ Spot(r) = Top(r).todo[1]
         /\ r.stack[Len(r.stack)] = Top(r)
         /\ \/ Top(r).origin = PathOf(r, Top(r).file)
            \/ Top(r).origin = r.entry /\ Settled(r, Top(r).file, Spot(r))
  <1> DEFINE n == Len(r.stack)
  <1>1. n \in 1..n /\ Top(r) = r.stack[n] BY DEF HasNext, Top, Refs!Last
  <1>2. FrameOK(r, Top(r)) BY <1>1 DEF BundleSound, StackOK
  <1>3. IsFrame(Top(r)) /\ Top(r).file \in DOMAIN r.original /\ LedTo(r, Top(r).origin, Len(r.edges))
        /\ (\A j \in 1..Len(Top(r).todo) : Top(r).todo[j] \in Here(r, Top(r).file))
        /\ \/ Top(r).origin = PathOf(r, Top(r).file)
           \/ Top(r).origin = r.entry /\ \A j \in 1..Len(Top(r).todo) : Settled(r, Top(r).file, Top(r).todo[j])
    BY <1>2 DEF FrameOK
  <1>4. Spot(r) = Top(r).todo[1] /\ 1 \in 1..Len(Top(r).todo)
    BY <1>3 DEF HasNext, Top, Spot, IsFrame, IsSequence
  <1>5. Top(r).origin \in Refs!Named BY <1>3, ReadIsNamed, EntryIsNamed DEF BundleSound
  <1> QED BY <1>1, <1>2, <1>3, <1>4, <1>5

LEMMA SoundDrawn ==
  ASSUME NEW r, BundleSound(r), HasNext(r), NEW ref, NEW resolved, NEW refused,
         resolved = None \/ (/\ Refs!Join(Top(r).origin, ref) \in Refs!Named
                             /\ resolved = Refs!Label(r.entry, Refs!Join(Top(r).origin, ref)))
  PROVE  LET q == Refs!Drawn(r, ref, resolved, refused)
         IN BundleSound(q) /\ Beyond(r, q) /\ HasEdge(q, Top(r).origin, ref)
            /\ (resolved # None => LedTo(q, Refs!Join(Top(r).origin, ref), Len(q.edges)))
  <1> DEFINE q == Refs!Drawn(r, ref, resolved, refused)
             e == EdgeOf(r, ref, resolved, refused)
             n == Len(r.edges)
  <1>1. /\ IsBundle(q) /\ q.entry = r.entry /\ q.own = r.own /\ q.texts = r.texts /\ q.original = r.original /\ q.failed = r.failed
        /\ q.hoisted = r.hoisted /\ q.findings = r.findings /\ q.stack = r.stack /\ q.edges = Append(r.edges, e)
    BY DrawnIs DEF BundleSound
  <1>2. e.source = Refs!Label(r.entry, Top(r).origin) /\ e.target = ref /\ e.resolved = resolved BY DEF EdgeOf, Top
  <1> HIDE DEF q, e
  <1>3. n \in Nat /\ IsSequence(q.edges) /\ Len(q.edges) = n + 1 /\ q.edges[n + 1] = e /\ \A k \in 1..n : q.edges[k] = r.edges[k]
    BY <1>1, LengthsAre DEF BundleSound, EdgesOK
  <1>4. Beyond(r, q) BY <1>1, <1>3 DEF Beyond, Present
  <1>5. ReadOK(q) BY <1>1 DEF ReadOK, BundleSound, PathOf, Refs!PathOf
  <1>6. TextsOK(q) BY <1>1, TextsStay DEF BundleSound
  <1>7. PartsOK(q) BY <1>1 DEF PartsOK, BundleSound, IsPart
  <1>8. FailedOK(q) BY <1>1 DEF FailedOK, BundleSound
  <1>9. IsSequence(r.edges) BY DEF BundleSound, EdgesOK
  <1>10. StackOK(q) BY <1>1, <1>3, <1>4, <1>9, StackStays DEF BundleSound
  <1>11. EdgeOK(q, e, n)
    <2>1. LedTo(q, Top(r).origin, n) BY TopIs, LedOn, <1>3, <1>4, <1>9
    <2> QED BY <1>1, <1>2, <2>1, TopIs DEF EdgeOK
  <1>12. ASSUME NEW k \in 1..(n + 1) PROVE EdgeOK(q, q.edges[k], k - 1)
    <2>1. CASE k \in 1..n
      <3>1. EdgeOK(r, r.edges[k], k - 1) /\ k - 1 \in Nat /\ k - 1 <= n BY <2>1, <1>3 DEF BundleSound, EdgesOK
      <3> QED BY <3>1, <2>1, <1>3, <1>4, <1>9, EdgeStays
    <2>2. CASE k = n + 1
      <3>1. k - 1 = n BY <2>2, <1>3
      <3> QED BY <3>1, <2>2, <1>3, <1>11
    <2> QED BY <2>1, <2>2, <1>3
  <1>13. EdgesOK(q) BY <1>3, <1>12 DEF EdgesOK
  <1>14. n + 1 \in 1..Len(q.edges) BY <1>3
  <1>15. HasEdge(q, Top(r).origin, ref) BY <1>1, <1>2, <1>3, <1>14 DEF HasEdge
  <1>16. ASSUME resolved # None PROVE LedTo(q, Refs!Join(Top(r).origin, ref), Len(q.edges))
    BY <1>1, <1>2, <1>3, <1>14, <1>16 DEF LedTo
  <1> QED BY <1>1, <1>4, <1>5, <1>6, <1>7, <1>8, <1>10, <1>13, <1>15, <1>16 DEF BundleSound, q

DiskOK == \A f \in DOMAIN disk : <<f, disk[f]>> \in Refs!Documents

\* What was rewritten between the two: nothing, or nothing but one reference.
NewAt(r, q, f, at) ==
  Present(q, f, at).kind = "hoisted" /\ ~ (f \in DOMAIN r.original /\ Present(r, f, at).kind = "hoisted")

NoneNew(r, q) == \A f \in DOMAIN q.original : \A at \in Here(q, f) : ~ NewAt(r, q, f, at)

OnlyNew(r, q, g, b) == \A f \in DOMAIN q.original : \A at \in Here(q, f) : NewAt(r, q, f, at) => f = g /\ at = b

\* A file on the disk is a document that holds the four kinds of references.
LEMMA KindsAre ==
  ASSUME Refs!TreeAssumption, NEW f, NEW d, <<f, d>> \in Refs!Documents, d # None
  PROVE  /\ Refs!IsDocument(d) /\ HasPlaces(d)
         /\ \A at \in Refs!Places(d, Refs!Whole) : d[at[1]][at[2]].kind \in {"here", "file", "remote", "absolute"}
  <1> DEFINE s == <<f, d>>
  <1>1. s \in Refs!Documents /\ s[2] = d OBVIOUS
  <1> HIDE DEF s
  <1>2. Refs!IsDocument(d) BY <1>1 DEF Refs!TreeAssumption
  <1>3. HasPlaces(d) BY <1>2, RefsCount DEF Refs!IsDocument, HasPlaces
  <1>4. ASSUME NEW at \in Refs!Places(d, Refs!Whole)
        PROVE  d[at[1]][at[2]].kind \in {"here", "file", "remote", "absolute"}
    <2>1. at[1] \in DOMAIN d /\ at[2] \in DOMAIN d[at[1]] BY PlacesAre
    <2> QED BY <1>2, <2>1 DEF Refs!IsDocument
  <1> QED BY <1>2, <1>3, <1>4

LEMMA SoundLoads ==
  ASSUME Refs!TreeAssumption, DiskOK, NEW r, BundleSound(r), NEW f \in Refs!Named, NEW ref, NEW readable
  PROVE  LET q == Refs!Loads(r, f, ref, readable)
         IN /\ BundleSound(q) /\ Beyond(r, q) /\ q.stack = r.stack /\ q.hoisted = r.hoisted /\ q.edges = r.edges
            /\ NoneNew(r, q)
            /\ f \notin DOMAIN q.texts => \E x \in q.findings : x.rule = "files" \/ x.file = f
  <1> DEFINE q == Refs!Loads(r, f, ref, readable)
             Goal(p) == /\ BundleSound(p) /\ Beyond(r, p) /\ p.stack = r.stack /\ p.hoisted = r.hoisted /\ p.edges = r.edges
                        /\ NoneNew(r, p)
                        /\ f \notin DOMAIN p.texts => \E x \in p.findings : x.rule = "files" \/ x.file = f
             Said(rule) == Refs!Found(r, rule, f, ref)
             Left(rule) == [Said(rule) EXCEPT !.failed = @ \cup {f}]
             grown(texts) == [g \in DOMAIN texts \cup {f} |-> IF g = f THEN disk[f] ELSE texts[g]]
             read == [r EXCEPT !.texts = grown(r.texts), !.original = grown(r.original)]
  <1>0. IsBundle(r) /\ IsSequence(r.edges) BY DEF BundleSound, EdgesOK
  <1>1. \/ f \in DOMAIN r.texts \cup r.failed /\ q = r
        \/ f \notin DOMAIN r.texts \cup r.failed /\ (\E x \in r.findings : x.rule = "files") /\ q = r
        \/ q = Said("files")
        \/ q = Left("fetches")
        \/ q = Left("unreadable")
        \/ f \notin DOMAIN r.texts \cup r.failed /\ f \in DOMAIN disk /\ disk[f] # None /\ q = read
    BY DEF Refs!Loads
  <1>2. ASSUME f \in DOMAIN r.texts \cup r.failed PROVE Goal(r)
    <2>1. NoneNew(r, r) BY DEF NoneNew, NewAt
    <2> QED BY <1>0, <1>2, <2>1, BeyondItself DEF BundleSound, FailedOK
  <1>3. ASSUME \E x \in r.findings : x.rule = "files" PROVE Goal(r)
    <2>1. NoneNew(r, r) BY DEF NoneNew, NewAt
    <2> QED BY <1>0, <1>3, <2>1, BeyondItself
  <1>4. ASSUME NEW rule
        PROVE  /\ BundleSound(Said(rule)) /\ Beyond(r, Said(rule)) /\ IsBundle(Said(rule))
               /\ Said(rule).entry = r.entry /\ Said(rule).own = r.own /\ Said(rule).texts = r.texts /\ Said(rule).original = r.original
               /\ Said(rule).failed = r.failed /\ Said(rule).hoisted = r.hoisted
               /\ Said(rule).edges = r.edges /\ Said(rule).stack = r.stack
               /\ \E x \in Said(rule).findings : x.rule = rule /\ x.file = f
    BY <1>0, FoundIs, SoundFound
  <1>9. ASSUME NEW p, p.texts = r.texts, p.original = r.original PROVE NoneNew(r, p)
    BY <1>9 DEF NoneNew, NewAt, Present
  <1>5. Goal(Said("files")) BY <1>4, <1>9
  <1>6. ASSUME NEW rule PROVE Goal(Left(rule))
    <2> DEFINE p == Said(rule)
               z == Left(rule)
    <2>1. /\ IsBundle(z) /\ z.entry = p.entry /\ z.own = p.own /\ z.texts = p.texts /\ z.original = p.original /\ z.hoisted = p.hoisted
          /\ z.edges = p.edges /\ z.findings = p.findings /\ z.stack = p.stack /\ z.failed = p.failed \cup {f}
      <3>1. IsBundle(p) BY <1>4
      <3> HIDE DEF p
      <3>2. z = [p EXCEPT !.failed = @ \cup {f}] BY DEF p
      <3> HIDE DEF z
      <3> QED BY <3>1, <3>2 DEF IsBundle
    <2>2. BundleSound(p) /\ Beyond(r, p) /\ \E x \in p.findings : x.rule = rule /\ x.file = f BY <1>4
    <2>3. p.hoisted = r.hoisted /\ p.edges = r.edges /\ p.stack = r.stack /\ p.texts = r.texts /\ p.original = r.original
      BY <1>4
    <2> HIDE DEF p, z
    <2>4. FailedOK(z) BY <2>1, <2>2 DEF BundleSound, FailedOK
    <2>5. BundleSound(z) /\ Beyond(p, z) BY <2>1, <2>2, <2>4, SoundSame
    <2>6. IsSequence(p.edges) /\ IsSequence(z.edges) BY <2>2, <2>5 DEF BundleSound, EdgesOK
    <2>7. Beyond(r, z) BY <1>0, <2>2, <2>5, <2>6, BeyondThat
    <2>8. NoneNew(r, z) BY <1>9, <2>1, <2>3
    <2> QED BY <2>1, <2>2, <2>3, <2>5, <2>7, <2>8 DEF z
  <1>7. ASSUME f \notin DOMAIN r.texts \cup r.failed, f \in DOMAIN disk, disk[f] # None PROVE Goal(read)
    <2>1. /\ IsBundle(read) /\ read.entry = r.entry /\ read.own = r.own /\ read.texts = grown(r.texts) /\ read.original = grown(r.original)
          /\ read.failed = r.failed /\ read.hoisted = r.hoisted /\ read.edges = r.edges /\ read.findings = r.findings
          /\ read.stack = r.stack
      <3> HIDE DEF grown
      <3> QED BY <1>0 DEF IsBundle
    <2> HIDE DEF read
    <2>2. DOMAIN r.texts = DOMAIN r.original BY DEF BundleSound, TextsOK
    <2>3. /\ DOMAIN read.texts = DOMAIN r.original \cup {f} /\ DOMAIN read.original = DOMAIN r.original \cup {f}
          /\ read.texts[f] = disk[f] /\ read.original[f] = disk[f]
          /\ \A g \in DOMAIN r.original : read.texts[g] = r.texts[g] /\ read.original[g] = r.original[g]
      BY <1>7, <2>1, <2>2
    <2>4. Beyond(r, read)
      <3>1. Len(read.edges) = Len(r.edges) /\ Len(r.edges) \in Nat BY <1>0, <2>1, LengthsAre
      <3>2. \A g \in DOMAIN r.original : \A at : Present(read, g, at) = Present(r, g, at) BY <2>3 DEF Present
      <3>3. DOMAIN r.original \subseteq DOMAIN read.original /\ \A g \in DOMAIN r.original : read.original[g] = r.original[g]
        BY <2>3
      <3>4. \A k \in 1..Len(r.edges) : read.edges[k] = r.edges[k] BY <2>1
      <3>5. read.entry = r.entry /\ read.own = r.own /\ r.findings \subseteq read.findings /\ r.hoisted \subseteq read.hoisted BY <2>1
      <3>6. \A g \in DOMAIN r.original : \A at \in Here(r, g) :
              Present(r, g, at).kind = "hoisted" => Present(read, g, at).kind = "hoisted"
        BY <3>2
      <3>7. Len(r.edges) <= Len(read.edges) BY <3>1
      <3> QED BY <3>3, <3>4, <3>5, <3>6, <3>7 DEF Beyond
    <2>5. ReadOK(read)
      <3>1. <<f, disk[f]>> \in Refs!Documents BY <1>7 DEF DiskOK
      <3>2. \A g : PathOf(read, g) = PathOf(r, g) BY <2>1 DEF PathOf, Refs!PathOf
      <3>3. PathOf(r, f) = f BY PathIs DEF BundleSound
      <3> QED BY <1>7, <2>1, <2>3, <3>1, <3>2, <3>3 DEF ReadOK, BundleSound
    <2>6. TextsOK(read)
      <3> SUFFICES ASSUME NEW g \in DOMAIN r.original \cup {f}
                   PROVE  /\ DOMAIN read.texts[g] = DOMAIN read.original[g]
                          /\ \A h \in DOMAIN read.original[g] : DOMAIN read.texts[g][h] = DOMAIN read.original[g][h]
                          /\ \A at \in Here(read, g) : RefOK(read, g, at)
        BY <2>3 DEF TextsOK
      <3>1. CASE g = f BY <3>1, <2>3 DEF Present, Written, RefOK
      <3>2. CASE g \in DOMAIN r.original
        <4>1. /\ Here(read, g) = Here(r, g)
              /\ \A at : Present(read, g, at) = Present(r, g, at) /\ Written(read, g, at) = Written(r, g, at)
          BY <3>2, <2>3 DEF Here, Present, Written
        <4>2. PathOf(read, g) = PathOf(r, g) /\ read.entry = r.entry /\ \A o, ref2 : Refs!Told(read, o, ref2) <=> Refs!Told(r, o, ref2)
          BY <2>1 DEF PathOf, Refs!PathOf, Refs!Told
        <4>3. \A at \in Here(r, g) : RefOK(r, g, at) BY <3>2 DEF BundleSound, TextsOK
        <4>4. \A at \in Here(read, g) : RefOK(read, g, at) BY <4>1, <4>2, <4>3 DEF RefOK
        <4> QED BY <3>2, <4>4, <2>3 DEF BundleSound, TextsOK
      <3> QED BY <3>1, <3>2
    <2>7. PartsOK(read) BY <2>1, <2>4, PartsStay DEF PartsOK, BundleSound
    <2>8. FailedOK(read) BY <2>1 DEF FailedOK, BundleSound
    <2>9. StackOK(read) BY <1>0, <2>1, <2>4, StackStays DEF BundleSound
    <2>10. EdgesOK(read) BY <2>1, <2>4, EdgesStay DEF BundleSound
    <2>11. BundleSound(read) BY <2>1, <2>5, <2>6, <2>7, <2>8, <2>9, <2>10 DEF BundleSound
    <2>12. NoneNew(r, read)
      <3> SUFFICES ASSUME NEW g \in DOMAIN r.original \cup {f}, NEW at \in Here(read, g) PROVE ~ NewAt(r, read, g, at)
        BY <2>3 DEF NoneNew
      <3>1. CASE g \in DOMAIN r.original BY <3>1, <2>3 DEF NewAt, Present
      <3>2. CASE g = f
        <4>1. <<f, disk[f]>> \in Refs!Documents BY <1>7 DEF DiskOK
        <4>2. at \in Refs!Places(disk[f], Refs!Whole) BY <3>2, <2>3 DEF Here
        <4>3. disk[f][at[1]][at[2]].kind # "hoisted" BY <4>1, <4>2, <1>7, KindsAre
        <4> QED BY <3>2, <4>3, <2>3 DEF NewAt, Present
      <3> QED BY <3>1, <3>2
    <2> QED BY <2>1, <2>3, <2>4, <2>11, <2>12
  <1> HIDE DEF Goal, q, Left, read, Said
  <1>8. Goal(q) BY <1>1, <1>2, <1>3, <1>5, <1>6, <1>7
  <1> QED BY <1>8 DEF Goal, q

\* A reference to another file, and what the reference is rewritten to.
LEMMA SoundRewritten ==
  ASSUME Refs!TreeAssumption, NEW r, BundleSound(r), HasNext(r), NEW ref,
         Written(r, Top(r).file, Spot(r)) = ref, ref.kind \in {"file", "remote"},
         Present(r, Top(r).file, Spot(r)).kind # "hoisted"
  PROVE  LET q == Refs!Rewritten(r, Refs!Join(Top(r).origin, ref), ref)
         IN BundleSound(q) /\ Beyond(r, q) /\ Present(q, Top(r).file, Spot(r)).kind = "hoisted"
            /\ q.stack = r.stack /\ q.hoisted = r.hoisted /\ q.edges = r.edges /\ q.findings = r.findings /\ q.entry = r.entry
            /\ q.own = r.own
            /\ q.original = r.original /\ OnlyNew(r, q, Top(r).file, Spot(r))
  <1> DEFINE f == Top(r).file
             at == Spot(r)
             target == Refs!Join(Top(r).origin, ref)
             q == Refs!Rewritten(r, target, ref)
             new == [kind |-> "hoisted", path |-> target, at |-> ref.at]
  <1>1. f \in DOMAIN r.original /\ at \in Here(r, f) BY TopIs
  <1>2. at = <<at[1], at[2]>> /\ at[1] \in DOMAIN r.original[f] /\ at[2] \in DOMAIN r.original[f][at[1]]
    BY <1>1, HereIs
  <1>21. PICK to : /\ to = <<target, ref.at>> \/ to \in Refs!Known(r, target, ref)
                   /\ q = RewriteTo(r, f, at, to)
    <2>1. IsBundle(r) BY DEF BundleSound
    <2> QED BY <2>1, RewrittenIs DEF Top, Spot
  <1> DEFINE rewritten == [r.texts EXCEPT ![f][at[1]][at[2]] = [kind |-> "hoisted", path |-> to[1], at |-> to[2]]]
  <1> HIDE DEF rewritten, q
  <1>3. /\ IsBundle(q) /\ q.entry = r.entry /\ q.own = r.own /\ q.stack = r.stack /\ q.original = r.original /\ q.failed = r.failed
        /\ q.hoisted = r.hoisted /\ q.findings = r.findings /\ q.edges = r.edges /\ q.texts = rewritten
    <2>1. q = [r EXCEPT !.texts = rewritten] BY <1>21 DEF rewritten, RewriteTo
    <2>2. IsBundle(r) BY DEF BundleSound
    <2> QED BY <2>1, <2>2 DEF IsBundle
  <1>4. target \in Refs!Named
    <2>1. Refs!Join(PathOf(r, f), ref) \in Refs!Named /\ Refs!Join(r.entry, ref) \in Refs!Named
      BY <1>1, ReadIsNamed DEF BundleSound
    <2>2. Top(r).origin = PathOf(r, f) \/ Top(r).origin = r.entry BY TopIs
    <2> QED BY <2>1, <2>2
  <1>5. to[1] = target /\ to[2] = ref.at
    <2>1. CASE to = <<target, ref.at>> BY <2>1
    <2>2. CASE to \in Refs!Known(r, target, ref)
      <3>1. to \in Refs!Known(r, target, ref) BY <2>2
      <3>2. to \in r.hoisted /\ Refs!Label(r.entry, to[1]) = Refs!Label(r.entry, target) /\ to[2] = ref.at
        BY <3>1 DEF Refs!Known
      <3>3. to[1] \in Refs!Named BY <3>2 DEF BundleSound, PartsOK
      <3>4. PICK k \in DOMAIN Walked : Walked[k] = r.entry BY DEF BundleSound, ReadOK
      <3>5. \A g, h \in Refs!Named : Refs!Label(r.entry, g) = Refs!Label(r.entry, h) => g = h
        BY <3>4 DEF Refs!TreeAssumption
      <3> QED BY <3>2, <3>3, <3>5, <1>4
    <2> QED BY <2>1, <2>2, <1>21
  <1>6. new = [kind |-> "hoisted", path |-> target, at |-> ref.at] /\ new = [kind |-> "hoisted", path |-> to[1], at |-> to[2]]
    BY <1>5
  <1> HIDE DEF new
  <1>7. f \in DOMAIN r.texts /\ at[1] \in DOMAIN r.texts[f] /\ at[2] \in DOMAIN r.texts[f][at[1]]
    BY <1>1, <1>2 DEF BundleSound, TextsOK
  <1>8. /\ DOMAIN q.texts = DOMAIN r.texts /\ \A g \in DOMAIN r.texts : DOMAIN q.texts[g] = DOMAIN r.texts[g]
        /\ \A g \in DOMAIN r.texts : \A h \in DOMAIN r.texts[g] : DOMAIN q.texts[g][h] = DOMAIN r.texts[g][h]
        /\ \A g \in DOMAIN r.texts : \A h \in DOMAIN r.texts[g] : \A i \in DOMAIN r.texts[g][h] :
             q.texts[g][h][i] = IF g = f /\ h = at[1] /\ i = at[2] THEN new ELSE r.texts[g][h][i]
    <2> HIDE DEF f, at
    <2>1. q.texts = [r.texts EXCEPT ![f][at[1]][at[2]] = new] BY <1>3, <1>6 DEF f, at, rewritten
    <2> HIDE DEF q
    <2> QED BY <1>7, <2>1
  <1> HIDE DEF q
  <1>9. ASSUME NEW g \in DOMAIN r.original, NEW b \in Here(r, g)
        PROVE  Present(q, g, b) = IF g = f /\ b = at THEN new ELSE Present(r, g, b)
    <2>1. b = <<b[1], b[2]>> /\ b[1] \in DOMAIN r.original[g] /\ b[2] \in DOMAIN r.original[g][b[1]] BY HereIs
    <2>2. g \in DOMAIN r.texts /\ b[1] \in DOMAIN r.texts[g] /\ b[2] \in DOMAIN r.texts[g][b[1]]
      BY <2>1 DEF BundleSound, TextsOK
    <2>3. b = at <=> b[1] = at[1] /\ b[2] = at[2] BY <2>1, <1>2
    <2> QED BY <1>8, <2>2, <2>3 DEF Present
  <1>10. \A g, b : Here(q, g) = Here(r, g) /\ Written(q, g, b) = Written(r, g, b) BY <1>3 DEF Here, Written
  <1>11. new.kind = "hoisted" BY <1>6
  <1>12. Beyond(r, q)
    <2>1. IsSequence(r.edges) BY DEF BundleSound, EdgesOK
    <2>2. \A g \in DOMAIN r.original : \A b \in Here(r, g) :
            Present(r, g, b).kind = "hoisted" => Present(q, g, b).kind = "hoisted"
      BY <1>9, <1>11
    <2> QED BY <1>3, <2>1, <2>2, LengthsAre DEF Beyond
  <1>13. TextsOK(q)
    <2> SUFFICES ASSUME NEW g \in DOMAIN r.original
                 PROVE  /\ DOMAIN q.texts[g] = DOMAIN r.original[g]
                        /\ \A h \in DOMAIN r.original[g] : DOMAIN q.texts[g][h] = DOMAIN r.original[g][h]
                        /\ \A b \in Here(r, g) : RefOK(q, g, b)
      <3>1. DOMAIN q.texts = DOMAIN r.original BY <1>8 DEF BundleSound, TextsOK
      <3> QED BY <1>3, <1>10, <3>1 DEF TextsOK
    <2>1. DOMAIN q.texts[g] = DOMAIN r.original[g]
          /\ \A h \in DOMAIN r.original[g] : DOMAIN q.texts[g][h] = DOMAIN r.original[g][h]
      BY <1>8 DEF BundleSound, TextsOK
    <2>2. \A h, o, x : PathOf(q, h) = PathOf(r, h) /\ q.entry = r.entry /\ (Refs!Told(q, o, x) <=> Refs!Told(r, o, x))
      BY <1>3 DEF PathOf, Refs!PathOf, Refs!Told
    <2>3. ASSUME NEW b \in Here(r, g) PROVE RefOK(q, g, b)
      <3>1. CASE g = f /\ b = at
        <4>1. Present(q, f, at) = new BY <3>1, <1>9
        <4>2. new = ReadFrom(Top(r).origin, ref) BY <1>6 DEF ReadFrom
        <4>3. CASE Top(r).origin = PathOf(r, f)
          <5>1. Present(q, f, at) = ReadFrom(PathOf(q, f), ref) BY <4>1, <4>2, <4>3, <2>2
          <5> QED BY <3>1, <5>1, <1>10 DEF RefOK
        <4>4. CASE Top(r).origin = r.entry /\ Settled(r, f, at)
          <5>1. Refs!Told(r, PathOf(r, f), ref) BY <4>4 DEF Settled
          <5>2. Present(q, f, at) = ReadFrom(q.entry, ref) BY <4>1, <4>2, <4>4, <2>2
          <5> QED BY <3>1, <5>1, <5>2, <1>10, <2>2 DEF RefOK
        <4> QED BY <4>3, <4>4, TopIs
      <3>2. CASE ~ (g = f /\ b = at)
        <4>1. Present(q, g, b) = Present(r, g, b) BY <3>2, <1>9
        <4>2. RefOK(r, g, b) BY DEF BundleSound, TextsOK
        <4> QED BY <4>1, <4>2, <2>2, <1>10 DEF RefOK
      <3> QED BY <3>1, <3>2
    <2> QED BY <2>1, <2>3
  <1>14. ReadOK(q) BY <1>3 DEF ReadOK, BundleSound, PathOf, Refs!PathOf
  <1>15. PartsOK(q) BY <1>3 DEF PartsOK, BundleSound, IsPart
  <1>16. FailedOK(q) BY <1>3 DEF FailedOK, BundleSound
  <1>17. IsSequence(r.edges) /\ IsSequence(q.edges) BY <1>3 DEF BundleSound, EdgesOK
  <1>18. StackOK(q) BY <1>3, <1>12, <1>17, StackStays DEF BundleSound
  <1>19. EdgesOK(q) BY <1>3, <1>12, EdgesStay DEF BundleSound
  <1>20. Present(q, f, at).kind = "hoisted" BY <1>1, <1>9, <1>11
  <1>23. OnlyNew(r, q, f, at) BY <1>3, <1>9, <1>10 DEF OnlyNew, NewAt
  <1> QED BY <1>3, <1>12, <1>13, <1>14, <1>15, <1>16, <1>18, <1>19, <1>20, <1>23 DEF BundleSound, q

LEMMA SoundHoisted ==
  ASSUME NEW r, BundleSound(r), NEW h, h = <<h[1], h[2]>>, IsPart(r, h), h[1] \in Refs!Named
  PROVE  LET q == [r EXCEPT !.hoisted = @ \cup {h}]
         IN BundleSound(q) /\ Beyond(r, q) /\ Refs!Parts(q) = Refs!Parts(r) \cup {h}
  <1> DEFINE q == [r EXCEPT !.hoisted = @ \cup {h}]
  <1>1. /\ IsBundle(q) /\ q.entry = r.entry /\ q.own = r.own /\ q.texts = r.texts /\ q.original = r.original /\ q.failed = r.failed
        /\ q.stack = r.stack /\ q.findings = r.findings /\ q.edges = r.edges
        /\ q.hoisted = r.hoisted \cup {h}
    BY HoistedIs DEF BundleSound
  <1> HIDE DEF q
  <1>2. IsSequence(r.edges) /\ IsSequence(q.edges) BY <1>1 DEF BundleSound, EdgesOK
  <1>3. Beyond(r, q) BY <1>1, <1>2, LengthsAre DEF Beyond, Present
  <1>4. ReadOK(q) BY <1>1 DEF ReadOK, BundleSound, PathOf, Refs!PathOf
  <1>5. TextsOK(q) BY <1>1, TextsStay DEF BundleSound
  <1>6. PartsOK(q) BY <1>1 DEF PartsOK, BundleSound, IsPart
  <1>7. FailedOK(q) BY <1>1 DEF FailedOK, BundleSound
  <1>8. StackOK(q) BY <1>1, <1>2, <1>3, StackStays DEF BundleSound
  <1>9. EdgesOK(q) BY <1>1, <1>3, EdgesStay DEF BundleSound
  <1>10. Refs!Parts(q) = Refs!Parts(r) \cup {h} BY <1>1 DEF Refs!Parts
  <1> QED BY <1>1, <1>3, <1>4, <1>5, <1>6, <1>7, <1>8, <1>9, <1>10 DEF BundleSound, q

\* With another stack, of frames like those of before.
LEMMA SoundStack ==
  ASSUME NEW r, NEW q, BundleSound(r), IsBundle(q), q.entry = r.entry, q.own = r.own, q.original = r.original,
         q.texts = r.texts, q.failed = r.failed, q.hoisted = r.hoisted, q.edges = r.edges, q.findings = r.findings,
         IsSequence(q.stack),
         \A k \in 1..Len(q.stack) :
           /\ FrameOK(r, q.stack[k])
           /\ k = 1 => q.stack[k].file = r.own
           /\ k # 1 /\ q.stack[k].ahead => <<r.own, Refs!Whole>> \in r.hoisted
  PROVE  BundleSound(q) /\ Beyond(r, q)
  <1>1. IsSequence(r.edges) /\ IsSequence(q.edges) BY DEF BundleSound, EdgesOK
  <1>2. Beyond(r, q) BY <1>1, LengthsAre DEF Beyond, Present
  <1>3. ReadOK(q) BY DEF ReadOK, BundleSound, PathOf, Refs!PathOf
  <1>4. TextsOK(q) BY TextsStay DEF BundleSound
  <1>5. PartsOK(q) BY DEF PartsOK, BundleSound, IsPart
  <1>6. FailedOK(q) BY DEF FailedOK, BundleSound
  <1>7. StackOK(q)
    <2>1. \A k \in 1..Len(q.stack) : FrameOK(q, q.stack[k]) BY <1>1, <1>2, FrameStays
    <2> QED BY <2>1 DEF StackOK
  <1>8. EdgesOK(q) BY <1>2, EdgesStay DEF BundleSound
  <1> QED BY <1>2, <1>3, <1>4, <1>5, <1>6, <1>7, <1>8 DEF BundleSound

\* With another frame on top, for the same file, that leaves no more to do.
LEMMA SoundTop ==
  ASSUME NEW r, NEW q, BundleSound(r), NEW n, n = Len(r.stack), n \in Nat \ {0}, NEW frame,
         IsBundle(q), q.entry = r.entry, q.own = r.own, q.original = r.original,
         q.texts = r.texts, q.failed = r.failed, q.hoisted = r.hoisted, q.edges = r.edges, q.findings = r.findings,
         q.stack = [r.stack EXCEPT ![n] = frame],
         FrameOK(r, frame), frame.file = r.stack[n].file, frame.ahead => r.stack[n].ahead
  PROVE  /\ BundleSound(q) /\ Beyond(r, q) /\ Len(q.stack) = n /\ q.stack[n] = frame
         /\ \A k \in 1..n : k # n => q.stack[k] = r.stack[k]
  <1>1. IsSequence(r.stack) BY DEF BundleSound, StackOK
  <1>2. IsSequence(q.stack) /\ Len(q.stack) = n /\ q.stack[n] = frame
        /\ \A k \in 1..n : k # n => q.stack[k] = r.stack[k]
    <2>1. PICK S : r.stack \in Seq(S) BY <1>1 DEF IsSequence
    <2>2. PICK T : T = S \cup {frame} OBVIOUS
    <2>4. DOMAIN r.stack = 1..n BY <2>1
    <2>5. r.stack \in [1..n -> T] BY <2>1, <2>2
    <2>6. q.stack \in [1..n -> T] BY <2>2, <2>5
    <2>7. \A m \in Nat : \A x \in [1..m -> T] : x \in Seq(T) /\ Len(x) = m OBVIOUS
    <2>3. q.stack \in Seq(T) /\ Len(q.stack) = n BY <2>6, <2>7
    <2> QED BY <2>3, <2>4 DEF IsSequence
  <1>3. ASSUME NEW k \in 1..Len(q.stack)
        PROVE  /\ FrameOK(r, q.stack[k])
               /\ k = 1 => q.stack[k].file = r.own
               /\ k # 1 /\ q.stack[k].ahead => <<r.own, Refs!Whole>> \in r.hoisted
    <2>1. k \in 1..n /\ n \in 1..n BY <1>2
    <2>2. CASE k # n BY <2>1, <2>2, <1>2 DEF BundleSound, StackOK
    <2>3. CASE k = n
      <3>1. /\ n = 1 => r.stack[n].file = r.own
            /\ n # 1 /\ r.stack[n].ahead => <<r.own, Refs!Whole>> \in r.hoisted
        BY <2>1 DEF BundleSound, StackOK
      <3>2. q.stack[k] = frame BY <2>3, <1>2
      <3> QED BY <2>3, <3>1, <3>2
    <2> QED BY <2>2, <2>3
  <1>4. BundleSound(q) /\ Beyond(r, q) BY <1>2, <1>3, SoundStack
  <1> QED BY <1>2, <1>4

LEMMA TailIs ==
  ASSUME NEW s, IsSequence(s), Len(s) # 0
  PROVE  /\ IsSequence(Tail(s)) /\ Len(Tail(s)) = Len(s) - 1
         /\ \A j \in 1..(Len(s) - 1) : Tail(s)[j] = s[j + 1]
  <1>1. PICK S : s \in Seq(S) BY DEF IsSequence
  <1>2. s # <<>> BY <1>1
  <1>3. Tail(s) \in Seq(S) /\ Len(Tail(s)) = Len(s) - 1 /\ \A j \in 1..(Len(s) - 1) : Tail(s)[j] = s[j + 1]
    BY <1>1, <1>2
  <1> QED BY <1>3 DEF IsSequence

LEMMA SoundAdvanced ==
  ASSUME NEW r, BundleSound(r), HasNext(r)
  PROVE  LET q == Refs!Advanced(r)
         IN /\ BundleSound(q) /\ Beyond(r, q) /\ Len(q.stack) = Len(r.stack)
            /\ \A f, at : Awaited(r, f, at) => Awaited(q, f, at) \/ (f = Top(r).file /\ at = Spot(r))
  <1> DEFINE q == Refs!Advanced(r)
             n == Len(r.stack)
             frame == r.stack[n]
             less == [frame EXCEPT !.todo = Tail(frame.todo)]
  <1>1. /\ IsBundle(q) /\ q.entry = r.entry /\ q.own = r.own /\ q.texts = r.texts /\ q.original = r.original
        /\ q.failed = r.failed /\ q.hoisted = r.hoisted /\ q.findings = r.findings /\ q.edges = r.edges
        /\ q.stack = [r.stack EXCEPT ![n] = less]
    BY AdvancedIs DEF BundleSound
  <1>2. n \in Nat \ {0} /\ frame = Top(r) /\ IsFrame(frame) /\ FrameOK(r, frame) /\ frame.file \in DOMAIN r.original
        /\ frame.todo[1] = Spot(r) /\ Len(frame.todo) # 0
    BY TopIs DEF HasNext, Top
  <1>3. /\ IsFrame(less) /\ less.file = frame.file /\ less.todo = Tail(frame.todo) /\ less.origin = frame.origin
        /\ less.ahead = frame.ahead /\ less.again = frame.again
        /\ Len(less.todo) = Len(frame.todo) - 1 /\ Len(frame.todo) \in Nat
        /\ \A j \in 1..Len(less.todo) : less.todo[j] = frame.todo[j + 1]
    <2>1. less.file = frame.file /\ less.todo = Tail(frame.todo) /\ less.origin = frame.origin
          /\ less.ahead = frame.ahead /\ less.again = frame.again
          /\ less \in [file : {less.file}, origin : {less.origin}, todo : {less.todo}, depth : {less.depth},
                       ahead : {less.ahead}, again : {less.again}]
      BY <1>2 DEF IsFrame
    <2>2. IsSequence(frame.todo) BY <1>2 DEF IsFrame
    <2>3. Len(frame.todo) # 0 BY <1>2
    <2>4. /\ IsSequence(less.todo) /\ Len(less.todo) = Len(frame.todo) - 1
          /\ \A j \in 1..Len(less.todo) : less.todo[j] = frame.todo[j + 1]
      BY <2>1, <2>2, <2>3, TailIs
    <2> QED BY <1>2, <2>1, <2>2, <2>4, LengthsAre DEF IsFrame
  <1> HIDE DEF q, less
  <1>5. FrameOK(r, less)
    <2>1. \A j \in 1..Len(less.todo) : j + 1 \in 1..Len(frame.todo) /\ less.todo[j] = frame.todo[j + 1] BY <1>3
    <2>2. \A j \in 1..Len(less.todo) : less.todo[j] \in Here(r, less.file) BY <1>2, <1>3, <2>1 DEF FrameOK
    <2>3. \/ less.origin = PathOf(r, less.file)
          \/ less.origin = r.entry /\ \A j \in 1..Len(less.todo) : Settled(r, less.file, less.todo[j])
      BY <1>2, <1>3, <2>1 DEF FrameOK
    <2> QED BY <1>2, <1>3, <2>2, <2>3 DEF FrameOK
  <1>4. Len(q.stack) = n /\ q.stack[n] = less /\ (\A k \in 1..n : k # n => q.stack[k] = r.stack[k])
        /\ BundleSound(q) /\ Beyond(r, q)
    <2>1. /\ n = Len(r.stack) /\ n \in Nat \ {0}
          /\ less.file = r.stack[n].file /\ (less.ahead => r.stack[n].ahead)
      BY <1>2, <1>3
    <2> HIDE DEF n, frame
    <2> QED BY <1>1, <1>5, <2>1, SoundTop, SMTT(30)
  <1>7. ASSUME NEW f, NEW at, Awaited(r, f, at) PROVE Awaited(q, f, at) \/ (f = Top(r).file /\ at = Spot(r))
    <2>1. PICK k \in 1..n : r.stack[k].file = f /\ \E j \in 1..Len(r.stack[k].todo) : r.stack[k].todo[j] = at
      BY <1>7 DEF Awaited
    <2>2. CASE k # n BY <2>1, <2>2, <1>4 DEF Awaited
    <2>3. CASE k = n
      <3>1. PICK j \in 1..Len(frame.todo) : frame.todo[j] = at BY <2>1, <2>3
      <3>2. CASE j = 1 BY <3>1, <3>2, <2>1, <2>3, <1>2
      <3>3. CASE j # 1
        <4>1. j - 1 \in 1..Len(less.todo) /\ (j - 1) + 1 = j BY <1>3, <3>3
        <4>2. less.todo[j - 1] = at BY <1>3, <3>1, <4>1
        <4>3. n \in 1..Len(q.stack) /\ q.stack[n] = less /\ less.file = f BY <1>2, <1>3, <1>4, <2>1, <2>3
        <4> QED BY <4>1, <4>2, <4>3 DEF Awaited
      <3> QED BY <3>2, <3>3
    <2> QED BY <2>2, <2>3
  <1> QED BY <1>4, <1>7 DEF q

LEMMA SoundPushed ==
  ASSUME NEW r, BundleSound(r), NEW frame, FrameOK(r, frame), r.stack # <<>>,
         frame.ahead => <<r.own, Refs!Whole>> \in r.hoisted
  PROVE  LET q == Pushed(r, frame)
         IN /\ BundleSound(q) /\ Beyond(r, q) /\ Refs!Parts(q) = Refs!Parts(r)
            /\ \A f, at : Awaited(r, f, at) => Awaited(q, f, at)
            /\ \A j \in 1..Len(frame.todo) : Awaited(q, frame.file, frame.todo[j])
  <1> DEFINE q == Pushed(r, frame)
             n == Len(r.stack)
  <1>1. /\ IsBundle(q) /\ q.entry = r.entry /\ q.own = r.own /\ q.texts = r.texts /\ q.original = r.original /\ q.failed = r.failed
        /\ q.hoisted = r.hoisted /\ q.findings = r.findings /\ q.edges = r.edges
        /\ q.stack = Append(r.stack, frame)
    BY PushedIs DEF BundleSound
  <1> HIDE DEF q
  <1>2. n \in Nat /\ IsSequence(q.stack) /\ Len(q.stack) = n + 1 /\ q.stack[n + 1] = frame
        /\ \A k \in 1..n : q.stack[k] = r.stack[k]
    BY <1>1, LengthsAre DEF BundleSound, StackOK
  <1>9. n # 0
    <2>1. PICK S : r.stack \in Seq(S) BY DEF BundleSound, StackOK, IsSequence
    <2> QED BY <2>1
  <1>3. ASSUME NEW k \in 1..Len(q.stack)
        PROVE  /\ FrameOK(r, q.stack[k])
               /\ k = 1 => q.stack[k].file = r.own
               /\ k # 1 /\ q.stack[k].ahead => <<r.own, Refs!Whole>> \in r.hoisted
    <2>1. k \in 1..n \/ k = n + 1 BY <1>2
    <2>2. CASE k \in 1..n BY <2>2, <1>2 DEF BundleSound, StackOK
    <2>3. CASE k = n + 1
      <3>1. k # 1 BY <2>3, <1>2, <1>9
      <3> QED BY <2>3, <3>1, <1>2
    <2> QED BY <2>1, <2>2, <2>3
  <1>4. BundleSound(q) /\ Beyond(r, q) BY <1>1, <1>2, <1>3, SoundStack
  <1>5. Refs!Parts(q) = Refs!Parts(r) BY <1>1 DEF Refs!Parts
  <1>6. ASSUME NEW f, NEW at, Awaited(r, f, at) PROVE Awaited(q, f, at)
    <2>1. \A k \in 1..n : k \in 1..Len(q.stack) BY <1>2
    <2> QED BY <1>2, <1>6, <2>1 DEF Awaited
  <1>7. n + 1 \in 1..Len(q.stack) BY <1>2
  <1>8. \A j \in 1..Len(frame.todo) : Awaited(q, frame.file, frame.todo[j]) BY <1>2, <1>7 DEF Awaited
  <1> QED BY <1>4, <1>5, <1>6, <1>8 DEF q

\* Every reference stays settled or awaited, if the one looked at and those of a new part are.
LEMMA AttendedStays ==
  ASSUME NEW r, NEW q, BundleSound(r), BundleSound(q), Beyond(r, q), Attended(r),
         \A p \in Refs!Parts(r) : \A at \in PlacesIn(r, p) :
           Awaited(r, p[1], at) => Awaited(q, p[1], at) \/ Settled(q, p[1], at),
         \A p \in Refs!Parts(q) : p \notin Refs!Parts(r) =>
           \A at \in PlacesIn(q, p) : Settled(q, p[1], at) \/ Awaited(q, p[1], at)
  PROVE  Attended(q)
  <1> SUFFICES ASSUME NEW p \in Refs!Parts(q), p \in Refs!Parts(r), NEW at \in PlacesIn(q, p)
               PROVE  Settled(q, p[1], at) \/ Awaited(q, p[1], at)
    BY DEF Attended
  <1>1. IsPart(r, p) BY PartsAre
  <1>2. at \in PlacesIn(r, p) BY <1>1, PartsStay
  <1>3. p[1] \in DOMAIN r.original /\ at \in Here(r, p[1]) BY <1>1, <1>2, PartIsHere DEF IsPart
  <1>4. Settled(r, p[1], at) => Settled(q, p[1], at) BY <1>3, SettledStays DEF BundleSound, EdgesOK
  <1> QED BY <1>2, <1>4 DEF Attended

(* Following one reference. *)

\* The reference looked at is settled by what is done, read from its own file; read from the
\* contract, it was before.
LEMMA SpotSettled ==
  ASSUME NEW r, BundleSound(r), HasNext(r), NEW q, BundleSound(q), Beyond(r, q),
         NEW ref, ref = Written(r, Top(r).file, Spot(r)),
         Present(q, Top(r).file, Spot(r)).kind = "hoisted" \/ Refs!Told(q, Top(r).origin, ref),
         HasEdge(q, Top(r).origin, ref)
  PROVE  Settled(q, Top(r).file, Spot(r))
  <1> DEFINE f == Top(r).file
             at == Spot(r)
  <1>1. f \in DOMAIN r.original /\ at \in Here(r, f) BY TopIs
  <1>2. Written(q, f, at) = ref /\ PathOf(q, f) = PathOf(r, f)
    BY <1>1 DEF Beyond, Written, PathOf, Refs!PathOf
  <1>3. CASE Top(r).origin = PathOf(r, f) BY <1>2, <1>3 DEF Settled
  <1>4. CASE Settled(r, f, at) BY <1>1, <1>4, SettledStays DEF BundleSound, EdgesOK
  <1> QED BY <1>3, <1>4, TopIs

LEMMA HoistedWas ==
  ASSUME Refs!TreeAssumption, NEW r, BundleSound(r), NEW f \in DOMAIN r.original, NEW at \in Here(r, f)
  PROVE  /\ Written(r, f, at).kind \in {"here", "file", "remote", "absolute"}
         /\ Present(r, f, at).kind = "hoisted" => Written(r, f, at).kind \in {"file", "remote"}
         /\ Present(r, f, at).kind = "hoisted" \/ Present(r, f, at) = Written(r, f, at)
  <1>1. <<PathOf(r, f), r.original[f]>> \in Refs!Documents /\ r.original[f] # None BY DEF BundleSound, ReadOK
  <1>2. Written(r, f, at).kind \in {"here", "file", "remote", "absolute"} BY <1>1, KindsAre DEF Here, Written
  <1>3. RefOK(r, f, at) BY DEF BundleSound, TextsOK
  <1> QED BY <1>2, <1>3 DEF RefOK, ReadFrom

LEMMA Concluded ==
  ASSUME Refs!TreeAssumption, NEW r, BundleInv(r), HasNext(r), NEW p, NEW q, BundleSound(p), BundleSound(q), Beyond(r, p), Beyond(p, q),
         p.stack = r.stack, OnlyNew(r, p, Top(r).file, Spot(r)),
         q.texts = p.texts, q.original = p.original,
         Settled(q, Top(r).file, Spot(r)),
         \A f, at : Awaited(p, f, at) => Awaited(q, f, at) \/ (f = Top(r).file /\ at = Spot(r)),
         \A x \in Refs!Parts(q) : x \notin Refs!Parts(r) =>
           \A at \in PlacesIn(q, x) : Settled(q, x[1], at) \/ Awaited(q, x[1], at)
  PROVE  BundleInv(q) /\ q.entry = r.entry
  <1>1. IsSequence(r.edges) /\ IsSequence(p.edges) /\ IsSequence(q.edges) BY DEF BundleInv, BundleSound, EdgesOK
  <1>2. Beyond(r, q) BY <1>1, BeyondThat
  <1>3. BundleSound(r) /\ Attended(r) /\ RewrittenOK(r) BY DEF BundleInv
  <1>4. Attended(q)
    <2>1. \A f, at : Awaited(r, f, at) => Awaited(p, f, at) BY DEF Awaited
    <2>2. ASSUME NEW x \in Refs!Parts(r), NEW at \in PlacesIn(r, x), Awaited(r, x[1], at)
          PROVE  Awaited(q, x[1], at) \/ Settled(q, x[1], at)
      BY <2>1, <2>2
    <2> QED BY <1>2, <1>3, <2>2, AttendedStays
  <1>5. RewrittenOK(q)
    <2> SUFFICES ASSUME NEW g \in DOMAIN q.original, NEW b \in Here(q, g), Present(q, g, b).kind = "hoisted"
                 PROVE  HasEdge(q, PathOf(q, g), Written(q, g, b)) \/ Deep(q)
      BY DEF RewrittenOK
    <2>1. g \in DOMAIN p.original /\ b \in Here(p, g) /\ Present(p, g, b).kind = "hoisted" BY DEF Here, Present
    <2>2. CASE g = Top(r).file /\ b = Spot(r)
      <3>1. Written(q, g, b).kind # "here" BY HoistedWas
      <3> QED BY <2>2, <3>1 DEF Settled
    <2>3. CASE ~ (g = Top(r).file /\ b = Spot(r))
      <3>1. g \in DOMAIN r.original /\ Present(r, g, b).kind = "hoisted" BY <2>1, <2>3 DEF OnlyNew, NewAt
      <3>2. Here(q, g) = Here(r, g) /\ Written(q, g, b) = Written(r, g, b) /\ PathOf(q, g) = PathOf(r, g)
        BY <1>2, <3>1 DEF Beyond, Here, Written, PathOf, Refs!PathOf
      <3>3. HasEdge(r, PathOf(r, g), Written(r, g, b)) \/ Deep(r) BY <1>3, <3>1, <3>2 DEF RewrittenOK
      <3>4. HasEdge(r, PathOf(r, g), Written(r, g, b)) => HasEdge(q, PathOf(r, g), Written(r, g, b))
        <4>1. \A k \in 1..Len(r.edges) : k \in 1..Len(q.edges) BY <1>1, <1>2, LengthsAre DEF Beyond
        <4> QED BY <4>1, <1>2 DEF HasEdge, Beyond
      <3>5. Deep(r) => Deep(q) BY <1>2 DEF Deep, Beyond
      <3> QED BY <3>2, <3>3, <3>4, <3>5
    <2> QED BY <2>2, <2>3
  <1> QED BY <1>2, <1>4, <1>5 DEF BundleInv, Beyond

\* A frame for a part holds its places.
LEMMA FrameIs ==
  ASSUME Refs!TreeAssumption, NEW r, BundleSound(r), NEW g, NEW x, IsPart(r, <<g, x>>), NEW depth,
         NEW origin, NEW ahead
  PROVE  LET frame == Refs!Frame(g, origin, r.texts[g], x, depth, ahead)
         IN /\ IsFrame(frame) /\ frame.file = g /\ frame.origin = origin /\ frame.ahead = ahead /\ frame.again = {}
            /\ \A at : at \in PlacesIn(r, <<g, x>>) <=> \E j \in 1..Len(frame.todo) : frame.todo[j] = at
            /\ \A j \in 1..Len(frame.todo) : frame.todo[j] \in Here(r, g)
  <1> DEFINE d == r.texts[g]
             frame == Refs!Frame(g, origin, d, x, depth, ahead)
             h == <<g, x>>
  <1>1. h[1] = g /\ h[2] = x OBVIOUS
  <1> HIDE DEF h
  <1>2. g \in DOMAIN r.original /\ (x = Refs!Whole \/ x \in DOMAIN r.original[g]) BY <1>1 DEF IsPart, h
  <1>3. <<PathOf(r, g), r.original[g]>> \in Refs!Documents /\ r.original[g] # None BY <1>2 DEF BundleSound, ReadOK
  <1>4. HasPlaces(r.original[g]) BY <1>3, KindsAre
  <1>5. DOMAIN d = DOMAIN r.original[g] /\ \A k \in DOMAIN d : DOMAIN d[k] = DOMAIN r.original[g][k]
    BY <1>2 DEF BundleSound, TextsOK
  <1>6. HasPlaces(d) BY <1>4, <1>5 DEF HasPlaces
  <1> HIDE DEF d
  <1>7. \A at : at \in Refs!Places(d, x) <=> at \in Refs!Places(r.original[g], x)
    BY <1>2, <1>5, PlacesAre
  <1>8. IsSequence(Refs!Positions(d, x))
        /\ \A at : at \in Refs!Places(d, x) <=> \E j \in 1..Len(Refs!Positions(d, x)) : Refs!Positions(d, x)[j] = at
    BY <1>2, <1>5, <1>6, PositionsAre
  <1>9. frame.todo = Refs!Positions(d, x) /\ frame.file = g
        /\ frame.origin = origin /\ frame.ahead = ahead /\ frame.again = {}
        /\ frame \in [file : {frame.file}, origin : {frame.origin}, todo : {frame.todo}, depth : {frame.depth},
                     ahead : {frame.ahead}, again : {frame.again}]
    BY DEF Refs!Frame
  <1> HIDE DEF frame
  <1>10. IsFrame(frame) BY <1>8, <1>9 DEF IsFrame
  <1>11. \A at : at \in PlacesIn(r, h) <=> \E j \in 1..Len(frame.todo) : frame.todo[j] = at
    BY <1>1, <1>7, <1>8, <1>9 DEF PlacesIn
  <1>12. IsPart(r, h) BY <1>1, <1>2 DEF IsPart
  <1>13. \A j \in 1..Len(frame.todo) : frame.todo[j] \in Here(r, g) BY <1>1, <1>11, <1>12, PartIsHere
  <1> QED BY <1>9, <1>10, <1>11, <1>13 DEF frame, d, h

\* A reference not followed any further: the walk goes on, maybe with a finding.
LEMMA GoesOn ==
  ASSUME Refs!TreeAssumption, NEW r, BundleInv(r), HasNext(r), NEW p, BundleSound(p), Beyond(r, p), p.stack = r.stack, Refs!Parts(p) = Refs!Parts(r),
         OnlyNew(r, p, Top(r).file, Spot(r)),
         NEW q, BundleSound(q), Beyond(Refs!Advanced(p), q), q.texts = p.texts, q.original = p.original,
         q.stack = Refs!Advanced(p).stack, Refs!Parts(q) = Refs!Parts(p),
         Settled(q, Top(r).file, Spot(r))
  PROVE  BundleInv(q) /\ q.entry = r.entry
  <1>1. HasNext(p) /\ Top(p) = Top(r) /\ Spot(p) = Spot(r) BY DEF HasNext, Top, Spot
  <1> DEFINE next == Refs!Advanced(p)
  <1>2. /\ BundleSound(next) /\ Beyond(p, next)
        /\ \A f, at : Awaited(p, f, at) => Awaited(next, f, at) \/ (f = Top(p).file /\ at = Spot(p))
    BY <1>1, SoundAdvanced
  <1> HIDE DEF next
  <1>3. Beyond(p, q) BY <1>2, BeyondThat DEF next, BundleSound, EdgesOK
  <1>4. \A f, at : Awaited(next, f, at) => Awaited(q, f, at) BY DEF Awaited, next
  <1>5. \A f, at : Awaited(p, f, at) => Awaited(q, f, at) \/ (f = Top(r).file /\ at = Spot(r)) BY <1>1, <1>2, <1>4
  <1> QED BY <1>3, <1>5, Concluded

LEMMA SpotIs ==
  ASSUME Refs!TreeAssumption, NEW r, BundleSound(r), HasNext(r)
  PROVE  LET f == Top(r).file
             was == Written(r, f, Spot(r))
             ref == Present(r, f, Spot(r))
         IN /\ was.kind \in {"here", "file", "remote", "absolute"} /\ (ref.kind = "hoisted" \/ ref = was)
            /\ was.kind \in {"file", "remote"} =>
                 /\ Refs!Join(Top(r).origin, was) \in Refs!Named
                 /\ Refs!Label(r.entry, Refs!Join(Top(r).origin, was)) # None
  <1> DEFINE f == Top(r).file
             was == Written(r, f, Spot(r))
             ref == Present(r, f, Spot(r))
  <1>1. f \in DOMAIN r.original /\ Spot(r) \in Here(r, f) BY TopIs
  <1>2. was.kind \in {"here", "file", "remote", "absolute"} /\ (ref.kind = "hoisted" \/ ref = was)
    BY <1>1, HoistedWas
  <1>3. ASSUME was.kind \in {"file", "remote"}
        PROVE  Refs!Join(Top(r).origin, was) \in Refs!Named /\ Refs!Label(r.entry, Refs!Join(Top(r).origin, was)) # None
    <2>1. Refs!Join(PathOf(r, f), was) \in Refs!Named /\ Refs!Join(r.entry, was) \in Refs!Named
      BY <1>1, <1>3, ReadIsNamed DEF BundleSound
    <2>2. Refs!Join(Top(r).origin, was) \in Refs!Named BY <2>1, TopIs
    <2>3. PICK k \in DOMAIN Walked : Walked[k] = r.entry BY DEF BundleSound, ReadOK
    <2>4. \A g \in Refs!Named : Refs!Label(r.entry, g) # None BY <2>3 DEF Refs!TreeAssumption
    <2> QED BY <2>2, <2>4
  <1> QED BY <1>2, <1>3

LEMMA EdgeKept ==
  ASSUME NEW p, NEW q, BundleSound(p), Beyond(p, q), NEW f, NEW ref, HasEdge(p, f, ref)
  PROVE  HasEdge(q, f, ref)
  <1>1. Len(p.edges) \in Nat /\ Len(p.edges) <= Len(q.edges) BY LengthsAre DEF BundleSound, EdgesOK, Beyond
  <1>2. PICK k \in 1..Len(p.edges) : p.edges[k].source = Refs!Label(p.entry, f) /\ p.edges[k].target = ref
    BY DEF HasEdge
  <1>3. Len(q.edges) \in Nat \/ k \in 1..Len(q.edges) BY <1>1
  <1>4. k \in 1..Len(q.edges) BY <1>1
  <1> QED BY <1>2, <1>4 DEF HasEdge, Beyond

\* What is refused is told by a finding of the reference.
LEMMA RefusedKeeps ==
  ASSUME Refs!TreeAssumption, NEW r, BundleInv(r), HasNext(r), NEW rule,
         Present(r, Top(r).file, Spot(r)).kind \notin {"here", "hoisted"}
  PROVE  LET q == Refs!Refused(r, rule, Present(r, Top(r).file, Spot(r)))
         IN BundleInv(q) /\ q.entry = r.entry
  <1> DEFINE f == Top(r).file
             at == Spot(r)
             ref == Present(r, f, at)
             p == Refs!Drawn(r, ref, None, TRUE)
             next == Refs!Advanced(p)
             o == Top(r).origin
             q == Refs!Found(next, rule, o, ref)
  <1>1. BundleSound(r) BY DEF BundleInv
  <1>2. q = Refs!Refused(r, rule, ref) BY DEF Refs!Refused, Top
  <1>3. BundleSound(p) /\ Beyond(r, p) /\ HasEdge(p, o, ref) BY <1>1, SoundDrawn
  <1>4. p.stack = r.stack /\ p.texts = r.texts /\ p.original = r.original /\ p.hoisted = r.hoisted /\ p.entry = r.entry
    <2>1. IsBundle(r) BY <1>1 DEF BundleSound
    <2>2. /\ \A x, y, w : Refs!Drawn(r, x, y, w).stack = r.stack /\ Refs!Drawn(r, x, y, w).texts = r.texts
          /\ \A x, y, w : Refs!Drawn(r, x, y, w).original = r.original /\ Refs!Drawn(r, x, y, w).hoisted = r.hoisted
          /\ \A x, y, w : Refs!Drawn(r, x, y, w).entry = r.entry
      BY <2>1, DrawnIs
    <2> HIDE DEF ref, q, next
    <2> QED BY <2>2, Zenon DEF p
  <1>5. f \in DOMAIN r.original /\ at \in Here(r, f) BY <1>1, TopIs
  <1>6. ref = Written(r, f, at) BY <1>1, SpotIs
  <1> HIDE DEF p, ref
  <1>7. HasNext(p) BY <1>4 DEF HasNext
  <1>8. BundleSound(next) /\ Beyond(p, next) BY <1>3, <1>7, SoundAdvanced
  <1>9. next.texts = p.texts /\ next.original = p.original /\ next.hoisted = p.hoisted /\ next.entry = p.entry
    BY <1>3, AdvancedIs DEF BundleSound
  <1> HIDE DEF next
  <1>10. BundleSound(q) /\ Beyond(next, q) /\ \E x \in q.findings : x.rule = rule /\ x.file = o /\ x.ref = ref
    BY <1>8, SoundFound
  <1>11. q.texts = next.texts /\ q.original = next.original /\ q.hoisted = next.hoisted /\ q.entry = next.entry /\ q.stack = next.stack
    BY <1>8, FoundIs DEF BundleSound
  <1> HIDE DEF q
  <1>12. HasEdge(q, o, ref) BY <1>3, <1>8, <1>10, EdgeKept
  <1>13. Beyond(r, q)
    <2>1. IsSequence(r.edges) /\ IsSequence(p.edges) /\ IsSequence(next.edges) /\ IsSequence(q.edges)
      BY <1>1, <1>3, <1>8, <1>10 DEF BundleSound, EdgesOK
    <2>2. Beyond(r, next) BY <1>3, <1>8, <2>1, BeyondThat
    <2> QED BY <1>10, <2>1, <2>2, BeyondThat
  <1>14. Refs!Told(q, o, ref) BY <1>10 DEF Refs!Told
  <1> HIDE DEF f, at, o
  <1>15. Settled(q, f, at) BY <1>1, <1>6, <1>10, <1>12, <1>13, <1>14, SpotSettled DEF f, at, o
  <1>16. OnlyNew(r, p, f, at) BY <1>4 DEF OnlyNew, NewAt, Present
  <1>17. Refs!Parts(p) = Refs!Parts(r) /\ Refs!Parts(q) = Refs!Parts(p)
    <2>1. p.own = r.own /\ q.own = p.own BY <1>3, <1>13 DEF Beyond
    <2> QED BY <2>1, <1>4, <1>9, <1>11 DEF Refs!Parts
  <1>19. BundleInv(q) /\ q.entry = r.entry
    BY <1>3, <1>4, <1>9, <1>10, <1>11, <1>15, <1>16, <1>17, GoesOn DEF next, f, at
  <1> QED BY <1>2, <1>19 DEF f, at, o, ref, q

\* A reference within its file, or rewritten before, is passed over.
LEMMA PassedKeeps ==
  ASSUME Refs!TreeAssumption, NEW r, BundleInv(r), HasNext(r),
         Present(r, Top(r).file, Spot(r)).kind \in {"here", "hoisted"}
  PROVE  BundleInv(Refs!Advanced(r)) /\ Refs!Advanced(r).entry = r.entry
  <1> DEFINE f == Top(r).file
             at == Spot(r)
             q == Refs!Advanced(r)
  <1>1. BundleSound(r) /\ RewrittenOK(r) BY DEF BundleInv
  <1>2. f \in DOMAIN r.original /\ at \in Here(r, f) BY <1>1, TopIs
  <1>3. Present(r, f, at).kind = "hoisted" => HasEdge(r, PathOf(r, f), Written(r, f, at)) \/ Deep(r)
    BY <1>1, <1>2 DEF RewrittenOK
  <1>4. Written(r, f, at).kind # "here" => Present(r, f, at).kind = "hoisted" BY <1>1, SpotIs
  <1>5. Settled(r, f, at) BY <1>3, <1>4 DEF Settled
  <1>6. BundleSound(q) /\ Beyond(r, q) BY <1>1, SoundAdvanced
  <1>7. q.texts = r.texts /\ q.original = r.original /\ q.hoisted = r.hoisted /\ q.entry = r.entry /\ q.own = r.own
    BY <1>1, AdvancedIs DEF BundleSound
  <1>8. IsSequence(r.edges) /\ IsSequence(q.edges) BY <1>1, <1>6 DEF BundleSound, EdgesOK
  <1>9. Settled(q, f, at) BY <1>2, <1>5, <1>6, <1>8, SettledStays
  <1>11. Beyond(r, r) /\ Beyond(q, q) BY <1>8, BeyondItself
  <1>12. OnlyNew(r, r, f, at) BY DEF OnlyNew, NewAt
  <1>13. Refs!Parts(q) = Refs!Parts(r) BY <1>7 DEF Refs!Parts
  <1> QED BY <1>1, <1>6, <1>7, <1>9, <1>11, <1>12, <1>13, GoesOn

\* An edge drawn for the reference at hand, from w to p, and the walk gone on to q.
DrawnTo(r, w, ref, resolved, refused, p, q) ==
  /\ BundleSound(p) /\ Beyond(r, p) /\ p.stack = r.stack /\ OnlyNew(r, p, Top(r).file, Spot(r))
  /\ BundleSound(q) /\ Beyond(p, q) /\ HasEdge(q, Top(r).origin, ref)
  /\ q.texts = w.texts /\ q.original = w.original /\ q.hoisted = w.hoisted /\ q.findings = w.findings
  /\ p.texts = w.texts /\ p.original = w.original /\ p.hoisted = w.hoisted
  /\ p.entry = r.entry /\ q.entry = r.entry /\ p.own = r.own /\ q.own = r.own /\ Len(q.stack) = Len(r.stack)
  /\ \A g, b : Awaited(p, g, b) => Awaited(q, g, b) \/ (g = Top(r).file /\ b = Spot(r))
  /\ resolved # None => LedTo(q, Refs!Join(Top(r).origin, ref), Len(q.edges))

\* An edge is drawn for the reference, and the walk goes on.
LEMMA DrawnOn ==
  ASSUME NEW r, BundleSound(r), HasNext(r),
         NEW w, BundleSound(w), Beyond(r, w), w.stack = r.stack, OnlyNew(r, w, Top(r).file, Spot(r)),
         NEW ref, NEW resolved,
         resolved = None \/ (/\ Refs!Join(Top(r).origin, ref) \in Refs!Named
                             /\ resolved = Refs!Label(r.entry, Refs!Join(Top(r).origin, ref))),
         NEW refused, NEW p, p = Refs!Drawn(w, ref, resolved, refused), NEW q, q = Refs!Advanced(p)
  PROVE  DrawnTo(r, w, ref, resolved, refused, p, q)
  <1>1. HasNext(w) /\ Top(w) = Top(r) /\ Spot(w) = Spot(r) BY DEF HasNext, Top, Spot
  <1>2. w.entry = r.entry /\ w.own = r.own BY DEF Beyond
  <1>3. BundleSound(p) /\ Beyond(w, p) /\ HasEdge(p, Top(r).origin, ref)
        /\ (resolved # None => LedTo(p, Refs!Join(Top(r).origin, ref), Len(p.edges)))
    BY <1>1, <1>2, SoundDrawn
  <1>4. p.entry = w.entry /\ p.own = w.own /\ p.texts = w.texts /\ p.original = w.original /\ p.hoisted = w.hoisted
        /\ p.findings = w.findings /\ p.stack = w.stack
    BY DrawnIs DEF BundleSound
  <1>5. IsSequence(r.edges) /\ IsSequence(w.edges) /\ IsSequence(p.edges) BY <1>3 DEF BundleSound, EdgesOK
  <1>6. Beyond(r, p) BY <1>3, <1>5, BeyondThat
  <1>7. OnlyNew(r, p, Top(r).file, Spot(r)) BY <1>4 DEF OnlyNew, NewAt, Present, Here
  <1>8. HasNext(p) /\ Top(p) = Top(r) /\ Spot(p) = Spot(r) BY <1>4 DEF HasNext, Top, Spot
  <1>9. BundleSound(q) /\ Beyond(p, q) /\ Len(q.stack) = Len(p.stack)
        /\ \A g, b : Awaited(p, g, b) => Awaited(q, g, b) \/ (g = Top(r).file /\ b = Spot(r))
    BY <1>3, <1>8, SoundAdvanced
  <1>10. q.entry = p.entry /\ q.own = p.own /\ q.texts = p.texts /\ q.original = p.original /\ q.hoisted = p.hoisted
         /\ q.findings = p.findings /\ q.edges = p.edges
    BY <1>3, AdvancedIs DEF BundleSound
  <1>11. HasEdge(q, Top(r).origin, ref) BY <1>3, <1>9, EdgeKept
  <1>12. resolved # None => LedTo(q, Refs!Join(Top(r).origin, ref), Len(q.edges)) BY <1>3, <1>10 DEF LedTo
  <1> QED BY <1>2, <1>3, <1>4, <1>6, <1>7, <1>9, <1>10, <1>11, <1>12 DEF DrawnTo

\* A reference to another file, which is not absolute, nor rewritten before.
LEMMA SpotFollowed ==
  ASSUME Refs!TreeAssumption, NEW r, BundleSound(r), HasNext(r), NEW ref, ref = Present(r, Top(r).file, Spot(r)),
         ref.kind \notin {"here", "hoisted", "absolute"}
  PROVE  /\ Written(r, Top(r).file, Spot(r)) = ref /\ ref.kind \in {"file", "remote"}
         /\ Top(r).file \in DOMAIN r.original /\ Spot(r) \in Here(r, Top(r).file)
         /\ Refs!Join(Top(r).origin, ref) \in Refs!Named
         /\ Refs!Label(r.entry, Refs!Join(Top(r).origin, ref)) # None
  BY SpotIs, TopIs

\* A fragment folded in before: only the reference is rewritten.
LEMMA KnownKeeps ==
  ASSUME Refs!TreeAssumption, NEW r, BundleInv(r), HasNext(r), NEW ref, ref = Present(r, Top(r).file, Spot(r)),
         ref.kind \notin {"here", "hoisted", "absolute"}, NEW target, target = Refs!Join(Top(r).origin, ref),
         NEW resolved, resolved = Refs!Label(r.entry, target), NEW refused, NEW q,
         q = Refs!Advanced(Refs!Drawn(Refs!Rewritten(r, target, ref), ref, resolved, refused))
  PROVE  BundleInv(q) /\ q.entry = r.entry
  <1> DEFINE f == Top(r).file
             at == Spot(r)
             w == Refs!Rewritten(r, target, ref)
             p == Refs!Drawn(w, ref, resolved, refused)
  <1>1. BundleSound(r) BY DEF BundleInv
  <1>2. /\ Written(r, f, at) = ref /\ ref.kind \in {"file", "remote"}
        /\ f \in DOMAIN r.original /\ at \in Here(r, f) /\ target \in Refs!Named
    BY <1>1, SpotFollowed
  <1>3. /\ BundleSound(w) /\ Beyond(r, w) /\ Present(w, f, at).kind = "hoisted"
        /\ w.stack = r.stack /\ w.hoisted = r.hoisted /\ w.entry = r.entry /\ w.own = r.own
        /\ w.original = r.original /\ OnlyNew(r, w, f, at)
    BY <1>1, <1>2, SoundRewritten
  <1> HIDE DEF w
  <1>4. /\ BundleSound(p) /\ Beyond(r, p) /\ p.stack = r.stack /\ OnlyNew(r, p, f, at)
        /\ BundleSound(q) /\ Beyond(p, q) /\ HasEdge(q, Top(r).origin, ref)
        /\ q.texts = w.texts /\ q.original = w.original /\ q.hoisted = w.hoisted
        /\ p.texts = w.texts /\ p.original = w.original /\ p.hoisted = w.hoisted
        /\ p.entry = r.entry /\ q.entry = r.entry /\ p.own = r.own /\ q.own = r.own
        /\ \A g, b : Awaited(p, g, b) => Awaited(q, g, b) \/ (g = f /\ b = at)
    <2>1. resolved = None \/ (Refs!Join(Top(r).origin, ref) \in Refs!Named
                              /\ resolved = Refs!Label(r.entry, Refs!Join(Top(r).origin, ref)))
      BY <1>2
    <2>2. p = Refs!Drawn(w, ref, resolved, refused) /\ q = Refs!Advanced(p) BY DEF w
    <2> HIDE DEF p, f, at
    <2>3. OnlyNew(r, w, Top(r).file, Spot(r)) BY <1>3 DEF f, at
    <2>4. HasNext(r) /\ BundleSound(w) /\ Beyond(r, w) /\ w.stack = r.stack BY <1>3
    <2>5. DrawnTo(r, w, ref, resolved, refused, p, q) BY <1>1, <2>1, <2>2, <2>3, <2>4, DrawnOn
    <2> QED BY <2>5 DEF DrawnTo, f, at
  <1> HIDE DEF p
  <1>5. Present(q, f, at).kind = "hoisted" BY <1>3, <1>4 DEF Present
  <1>8. Beyond(r, q) BY <1>1, <1>4, BeyondThat DEF BundleSound, EdgesOK
  <1>6. Settled(q, f, at) BY <1>1, <1>2, <1>4, <1>5, <1>8, SpotSettled
  <1>7. Refs!Parts(q) = Refs!Parts(r) BY <1>3, <1>4 DEF Refs!Parts
  <1> QED BY <1>4, <1>5, <1>6, <1>7, Concluded

\* A file that is not there, or not the fragment: a finding tells.
LEMMA ToldKeeps ==
  ASSUME Refs!TreeAssumption, NEW r, BundleInv(r), HasNext(r), NEW ref, ref = Present(r, Top(r).file, Spot(r)),
         ref.kind \notin {"here", "hoisted", "absolute"}, NEW target, target = Refs!Join(Top(r).origin, ref),
         NEW w, BundleSound(w), Beyond(r, w), w.stack = r.stack, w.hoisted = r.hoisted, NoneNew(r, w),
         \E x \in w.findings : x.rule = "files" \/ x.file = target,
         NEW resolved, resolved = None \/ resolved = Refs!Label(r.entry, target), NEW refused, NEW q,
         q = Refs!Advanced(Refs!Drawn(w, ref, resolved, refused))
  PROVE  BundleInv(q) /\ q.entry = r.entry
  <1> DEFINE f == Top(r).file
             at == Spot(r)
             p == Refs!Drawn(w, ref, resolved, refused)
  <1>1. BundleSound(r) BY DEF BundleInv
  <1>2. /\ Written(r, f, at) = ref /\ ref.kind \in {"file", "remote"}
        /\ f \in DOMAIN r.original /\ at \in Here(r, f) /\ target \in Refs!Named
    BY <1>1, SpotFollowed
  <1>3. OnlyNew(r, w, f, at) BY DEF NoneNew, OnlyNew
  <1>4. /\ BundleSound(p) /\ Beyond(r, p) /\ p.stack = r.stack /\ OnlyNew(r, p, f, at)
        /\ BundleSound(q) /\ Beyond(p, q) /\ HasEdge(q, Top(r).origin, ref)
        /\ q.texts = w.texts /\ q.original = w.original /\ q.hoisted = w.hoisted /\ q.findings = w.findings
        /\ p.texts = w.texts /\ p.original = w.original /\ p.hoisted = w.hoisted
        /\ p.entry = r.entry /\ q.entry = r.entry /\ p.own = r.own /\ q.own = r.own
        /\ \A g, b : Awaited(p, g, b) => Awaited(q, g, b) \/ (g = f /\ b = at)
    <2>1. HasNext(r) /\ BundleSound(w) /\ Beyond(r, w) /\ w.stack = r.stack OBVIOUS
    <2>2. resolved = None \/ (Refs!Join(Top(r).origin, ref) \in Refs!Named
                              /\ resolved = Refs!Label(r.entry, Refs!Join(Top(r).origin, ref)))
      BY <1>2
    <2>3. OnlyNew(r, w, Top(r).file, Spot(r)) BY <1>3
    <2> HIDE DEF f, at
    <2>4. p = Refs!Drawn(w, ref, resolved, refused) /\ q = Refs!Advanced(p) OBVIOUS
    <2> HIDE DEF p
    <2>5. DrawnTo(r, w, ref, resolved, refused, p, q) BY <1>1, <2>1, <2>2, <2>3, <2>4, DrawnOn
    <2> QED BY <2>5 DEF DrawnTo, f, at
  <1> HIDE DEF p
  <1>5. Beyond(r, q) BY <1>1, <1>4, BeyondThat DEF BundleSound, EdgesOK
  <1>6. Refs!Told(q, Top(r).origin, ref) BY <1>4 DEF Refs!Told
  <1>7. Settled(q, f, at) BY <1>1, <1>2, <1>4, <1>5, <1>6, SpotSettled
  <1>8. Refs!Parts(q) = Refs!Parts(r) BY <1>4 DEF Refs!Parts
  <1>9. q.texts = p.texts /\ q.original = p.original BY <1>4
  <1> QED BY <1>4, <1>7, <1>8, <1>9, Concluded

\* A fragment folded in for the first time.
Folded(r, target, ref) == [Refs!Rewritten(r, target, ref) EXCEPT !.hoisted = Refs!Rewritten(r, target, ref).hoisted \cup {<<target, ref.at>>}]

LEMMA FoldedIs ==
  ASSUME Refs!TreeAssumption, NEW r, BundleSound(r), HasNext(r), NEW ref, ref = Present(r, Top(r).file, Spot(r)),
         ref.kind \notin {"here", "hoisted", "absolute"}, NEW target, target = Refs!Join(Top(r).origin, ref),
         NEW read, BundleSound(read), Beyond(r, read), read.stack = r.stack, read.hoisted = r.hoisted, NoneNew(r, read),
         target \in DOMAIN read.texts, ref.at = Refs!Whole \/ ref.at \in DOMAIN read.texts[target],
         NEW w, w = Folded(read, target, ref)
  PROVE  /\ BundleSound(w) /\ Beyond(r, w) /\ w.stack = r.stack /\ OnlyNew(r, w, Top(r).file, Spot(r))
         /\ Present(w, Top(r).file, Spot(r)).kind = "hoisted" /\ w.original = read.original
         /\ w.hoisted = r.hoisted \cup {<<target, ref.at>>} /\ IsPart(read, <<target, ref.at>>)
         /\ IsPart(w, <<target, ref.at>>)
  <1> DEFINE f == Top(r).file
             at == Spot(r)
             h == <<target, ref.at>>
             z == Refs!Rewritten(read, target, ref)
  <1>1. /\ Written(r, f, at) = ref /\ ref.kind \in {"file", "remote"}
        /\ f \in DOMAIN r.original /\ at \in Here(r, f) /\ target \in Refs!Named
    BY SpotFollowed
  <1>2. HasNext(read) /\ Top(read) = Top(r) /\ Spot(read) = Spot(r) BY DEF HasNext, Top, Spot
  <1>3. Written(read, f, at) = ref BY <1>1 DEF Beyond, Written
  <1>4. /\ BundleSound(z) /\ Beyond(read, z) /\ Present(z, f, at).kind = "hoisted"
        /\ z.stack = read.stack /\ z.hoisted = read.hoisted /\ z.original = read.original
        /\ OnlyNew(read, z, f, at)
    <2>1. f \in DOMAIN read.original /\ at \in Here(read, f) BY <1>1 DEF Beyond, Here
    <2>2. Present(read, f, at).kind # "hoisted" BY <1>1, <2>1 DEF NoneNew, NewAt
    <2> QED BY <1>1, <1>2, <1>3, <2>2, SoundRewritten
  <1> HIDE DEF z
  <1>5. h[1] = target /\ h[2] = ref.at /\ h = <<h[1], h[2]>> /\ h = <<target, ref.at>> OBVIOUS
  <1> HIDE DEF h
  <1>6. IsPart(read, h) /\ IsPart(z, h) BY <1>4, <1>5 DEF IsPart, BundleSound, TextsOK
  <1>7. w = [z EXCEPT !.hoisted = @ \cup {h}] BY <1>5 DEF z, Folded
  <1>8. /\ w.texts = z.texts /\ w.original = z.original /\ w.stack = z.stack /\ w.hoisted = z.hoisted \cup {h}
    BY <1>4, <1>7, HoistedIs DEF BundleSound
  <1>9. BundleSound(w) /\ Beyond(z, w)
    <2> DEFINE v == [z EXCEPT !.hoisted = @ \cup {h}]
    <2>1. h[1] \in Refs!Named BY <1>1, <1>5
    <2>2. BundleSound(z) /\ h = <<h[1], h[2]>> /\ IsPart(z, h) BY <1>4, <1>5, <1>6
    <2>3. BundleSound(v) /\ Beyond(z, v) BY <2>1, <2>2, SoundHoisted
    <2>4. w = v BY <1>7
    <2> HIDE DEF v
    <2> QED BY <2>3, <2>4
  <1>10. IsSequence(r.edges) /\ IsSequence(read.edges) /\ IsSequence(z.edges) /\ IsSequence(w.edges)
    BY <1>4, <1>9 DEF BundleSound, EdgesOK
  <1>11. Beyond(read, w) BY <1>4, <1>9, <1>10, BeyondThat
  <1>12. Beyond(r, w) BY <1>10, <1>11, BeyondThat
  <1>13. OnlyNew(r, w, f, at)
    <2> SUFFICES ASSUME NEW g \in DOMAIN w.original, NEW b \in Here(w, g), NewAt(r, w, g, b) PROVE g = f /\ b = at
      BY Zenon DEF OnlyNew
    <2>1. g \in DOMAIN z.original /\ b \in Here(z, g) /\ Present(z, g, b).kind = "hoisted"
      BY <1>8 DEF Here, NewAt, Present
    <2>2. g \in DOMAIN read.original /\ b \in Here(read, g) BY <2>1, <1>4 DEF Here
    <2>3. CASE Present(read, g, b).kind = "hoisted"
      <3>1. NewAt(r, read, g, b) BY <2>3 DEF NewAt
      <3> QED BY <3>1, <2>2 DEF NoneNew
    <2>4. CASE Present(read, g, b).kind # "hoisted"
      <3>1. NewAt(read, z, g, b) BY <2>1, <2>4, Zenon DEF NewAt
      <3> QED BY <3>1, <2>1, <1>4 DEF OnlyNew
    <2> QED BY <2>3, <2>4
  <1>14. Present(w, f, at).kind = "hoisted" BY <1>4, <1>8 DEF Present
  <1>15. IsPart(w, h) BY <1>6, <1>8 DEF IsPart
  <1> HIDE DEF f, at
  <1>16. w.stack = r.stack /\ w.original = read.original /\ w.hoisted = r.hoisted \cup {h} BY <1>4, <1>8
  <1> QED BY <1>6, <1>9, <1>12, <1>13, <1>14, <1>15, <1>16 DEF f, at, h

\* What a step on with a new part has to show.
Carries(next, target, h, q) ==
  /\ BundleSound(q) /\ Beyond(next, q) /\ q.texts = next.texts /\ q.original = next.original
  /\ Refs!Parts(q) = Refs!Parts(next)
  /\ \A g, b : Awaited(next, g, b) => Awaited(q, g, b)
  /\ \A b \in PlacesIn(q, h) : Settled(q, target, b) \/ Awaited(q, target, b)

\* A reference to a file that could be read, whose fragment is folded in.
Folds(r, ref, target, read, refused, next) ==
  /\ BundleInv(r) /\ HasNext(r) /\ ref = Present(r, Top(r).file, Spot(r))
  /\ ref.kind \notin {"here", "hoisted", "absolute"} /\ target = Refs!Join(Top(r).origin, ref)
  /\ BundleSound(read) /\ Beyond(r, read) /\ read.stack = r.stack /\ read.hoisted = r.hoisted /\ NoneNew(r, read)
  /\ target \in DOMAIN read.texts /\ (ref.at = Refs!Whole \/ ref.at \in DOMAIN read.texts[target])
  /\ next = Refs!Advanced(Refs!Drawn(Folded(read, target, ref), ref, Refs!Label(r.entry, target), refused))

\* All that is left to show.
LeftToShow(r, next, target, h) == \A q : Carries(next, target, h, q) => BundleInv(q) /\ q.entry = r.entry

SameFiles(r, q) == q.original = r.original

LEMMA AwaitedSame ==
  ASSUME NEW r, NEW q, q.stack = r.stack
  PROVE  \A f, at : Awaited(r, f, at) => Awaited(q, f, at)
  BY DEF Awaited

\* It was folded in, an edge drawn, and the walk goes on; what is left to do with its part.
LEMMA FoldedOn ==
  ASSUME Refs!TreeAssumption, NEW r, NEW ref, NEW target, NEW read, NEW refused, NEW next,
         Folds(r, ref, target, read, refused, next)
  PROVE  LET h == <<target, ref.at>>
         IN /\ BundleSound(next) /\ SameFiles(read, next) /\ IsPart(read, h) /\ IsPart(next, h)
            /\ LedTo(next, target, Len(next.edges)) /\ target \in Refs!Named
            /\ h \in next.hoisted /\ next.own = r.own /\ next.stack # <<>>
            /\ LeftToShow(r, next, target, h)
  <1> DEFINE f == Top(r).file
             at == Spot(r)
             h == <<target, ref.at>>
             w == Folded(read, target, ref)
             resolved == Refs!Label(r.entry, target)
             p == Refs!Drawn(w, ref, resolved, refused)
  <1>0. /\ BundleInv(r) /\ HasNext(r) /\ ref = Present(r, f, at)
        /\ ref.kind \notin {"here", "hoisted", "absolute"} /\ target = Refs!Join(Top(r).origin, ref)
        /\ BundleSound(read) /\ Beyond(r, read) /\ read.stack = r.stack /\ read.hoisted = r.hoisted /\ NoneNew(r, read)
        /\ target \in DOMAIN read.texts /\ (ref.at = Refs!Whole \/ ref.at \in DOMAIN read.texts[target])
        /\ next = Refs!Advanced(p)
    BY DEF Folds
  <1>1. BundleSound(r) BY <1>0 DEF BundleInv
  <1>2. /\ Written(r, f, at) = ref /\ ref.kind \in {"file", "remote"}
        /\ f \in DOMAIN r.original /\ at \in Here(r, f) /\ target \in Refs!Named /\ resolved # None
    BY <1>0, <1>1, SpotFollowed
  <1>3. /\ BundleSound(w) /\ Beyond(r, w) /\ w.stack = r.stack /\ OnlyNew(r, w, f, at)
        /\ Present(w, f, at).kind = "hoisted" /\ w.original = read.original
        /\ w.hoisted = r.hoisted \cup {h} /\ IsPart(read, h) /\ IsPart(w, h)
    BY <1>0, <1>1, FoldedIs
  <1>4. /\ BundleSound(p) /\ Beyond(r, p) /\ p.stack = r.stack /\ OnlyNew(r, p, f, at)
        /\ BundleSound(next) /\ Beyond(p, next) /\ HasEdge(next, Top(r).origin, ref)
        /\ next.texts = w.texts /\ next.original = w.original /\ next.hoisted = w.hoisted /\ next.findings = w.findings
        /\ p.texts = w.texts /\ p.original = w.original /\ p.hoisted = w.hoisted
        /\ p.entry = r.entry /\ next.entry = r.entry /\ p.own = r.own /\ next.own = r.own /\ Len(next.stack) = Len(r.stack)
        /\ (\A g, b : Awaited(p, g, b) => Awaited(next, g, b) \/ (g = f /\ b = at))
        /\ LedTo(next, target, Len(next.edges))
    <2>1. resolved = None \/ (Refs!Join(Top(r).origin, ref) \in Refs!Named
                              /\ resolved = Refs!Label(r.entry, Refs!Join(Top(r).origin, ref)))
      BY <1>0, <1>2
    <2>2. HasNext(r) /\ next = Refs!Advanced(p) /\ target = Refs!Join(Top(r).origin, ref) BY <1>0
    <2> HIDE DEF f, at
    <2>3. p = Refs!Drawn(w, ref, resolved, refused) OBVIOUS
    <2>4. OnlyNew(r, w, Top(r).file, Spot(r)) BY <1>3 DEF f, at
    <2> HIDE DEF p, w, h, resolved
    <2>5. DrawnTo(r, w, ref, resolved, refused, p, next) BY <1>1, <1>3, <2>1, <2>2, <2>3, <2>4, DrawnOn
    <2> QED BY <1>2, <2>2, <2>5 DEF DrawnTo, f, at
  <1>5. h[1] = target /\ h[2] = ref.at OBVIOUS
  <1> HIDE DEF p, h, w, resolved
  <1>6. Present(next, f, at).kind = "hoisted" BY <1>3, <1>4 DEF Present
  <1>7. Refs!Parts(next) = Refs!Parts(r) \cup {h} BY <1>3, <1>4 DEF Refs!Parts
  <1>8. IsPart(next, h) BY <1>3, <1>4 DEF IsPart
  <1>9. ASSUME NEW q, Carries(next, target, h, q)
        PROVE  BundleInv(q) /\ q.entry = r.entry
    <2>0. /\ BundleSound(q) /\ Beyond(next, q) /\ q.texts = next.texts /\ q.original = next.original
          /\ Refs!Parts(q) = Refs!Parts(next)
          /\ (\A g, b : Awaited(next, g, b) => Awaited(q, g, b))
          /\ (\A b \in PlacesIn(q, h) : Settled(q, target, b) \/ Awaited(q, target, b))
      BY <1>9 DEF Carries
    <2>1. Present(q, f, at).kind = "hoisted" BY <1>6, <2>0 DEF Present
    <2>2. HasEdge(q, Top(r).origin, ref) BY <1>4, <2>0, EdgeKept
    <2>8. IsSequence(r.edges) /\ IsSequence(p.edges) /\ IsSequence(next.edges) /\ IsSequence(q.edges)
      BY <1>1, <1>4, <2>0 DEF BundleSound, EdgesOK
    <2>4. Beyond(p, q) BY <2>8, <1>4, <2>0, BeyondThat
    <2>9. Beyond(r, q) BY <2>4, <2>8, <1>4, BeyondThat
    <2>3. Settled(q, f, at) BY <1>0, <1>1, <1>2, <2>0, <2>1, <2>2, <2>9, SpotSettled
    <2>5. q.texts = p.texts /\ q.original = p.original BY <1>4, <2>0
    <2>6. \A g, b : Awaited(p, g, b) => Awaited(q, g, b) \/ (g = f /\ b = at) BY <1>4, <2>0
    <2>7. \A x \in Refs!Parts(q) : x \notin Refs!Parts(r) =>
            \A b \in PlacesIn(q, x) : Settled(q, x[1], b) \/ Awaited(q, x[1], b)
      BY <1>5, <1>7, <2>0
    <2> QED BY <1>0, <1>4, <2>0, <2>1, <2>2, <2>3, <2>4, <2>5, <2>6, <2>7, Concluded
  <1>10. next.original = read.original /\ h \in next.hoisted BY <1>3, <1>4
  <1>11. next.stack # <<>> BY <1>0, <1>4 DEF HasNext
  <1>12. LeftToShow(r, next, target, h) BY <1>9 DEF LeftToShow
  <1>13. SameFiles(read, next) BY <1>10 DEF SameFiles
  <1> QED BY <1>2, <1>3, <1>4, <1>8, <1>10, <1>11, <1>12, <1>13 DEF h

\* A part that lies deeper than is followed: a finding tells.
LEMMA DeepKeeps ==
  ASSUME Refs!TreeAssumption, NEW r, NEW ref, NEW target, NEW read, NEW refused, NEW next,
         Folds(r, ref, target, read, refused, next),
         NEW q, q = Refs!Found(next, "deep", target, ref)
  PROVE  BundleInv(q) /\ q.entry = r.entry
  <1> DEFINE h == <<target, ref.at>>
  <1>1. BundleSound(next) /\ LeftToShow(r, next, target, h) BY FoldedOn
  <1> HIDE DEF h
  <1>2. BundleSound(q) /\ Beyond(next, q) /\ \E x \in q.findings : x.rule = "deep" /\ x.file = target /\ x.ref = ref
    BY <1>1, SoundFound
  <1>3. q.texts = next.texts /\ q.original = next.original /\ q.hoisted = next.hoisted /\ q.entry = next.entry /\ q.own = next.own
        /\ q.stack = next.stack
    BY <1>1, FoundIs DEF BundleSound
  <1>4. Deep(q) /\ \A g, x : Refs!Told(q, g, x) BY <1>2 DEF Deep, Refs!Told
  <1>5. \A b : Settled(q, target, b) BY <1>4, Zenon DEF Settled
  <1>6. \A g, b : Awaited(next, g, b) => Awaited(q, g, b) BY <1>3, AwaitedSame
  <1>7. Refs!Parts(q) = Refs!Parts(next) BY <1>3 DEF Refs!Parts
  <1>8. Carries(next, target, h, q) BY <1>2, <1>3, <1>5, <1>6, <1>7 DEF Carries
  <1> QED BY <1>1, <1>8 DEF LeftToShow

\* Or it is looked at next.
LEMMA PushedKeeps ==
  ASSUME Refs!TreeAssumption, NEW r, NEW ref, NEW target, NEW read, NEW refused, NEW next,
         Folds(r, ref, target, read, refused, next),
         NEW depth, NEW ahead, ahead => target = r.own /\ ref.at = Refs!Whole,
         NEW q, q = Pushed(next, Refs!Frame(target, target, read.texts[target], ref.at, depth, ahead))
  PROVE  BundleInv(q) /\ q.entry = r.entry
  <1> DEFINE h == <<target, ref.at>>
             frame == Refs!Frame(target, target, read.texts[target], ref.at, depth, ahead)
  <1>1. BundleSound(next) /\ next.original = read.original /\ IsPart(read, h) /\ IsPart(next, h)
    <2> HIDE DEF frame
    <2>1. Folds(r, ref, target, read, refused, next) OBVIOUS
    <2>2. BundleSound(next) BY <2>1, FoldedOn
    <2>4. SameFiles(read, next) BY <2>1, FoldedOn
    <2>3. IsPart(read, <<target, ref.at>>) /\ IsPart(next, <<target, ref.at>>) BY <2>1, FoldedOn
    <2> QED BY <2>2, <2>3, <2>4 DEF SameFiles
  <1>12. LedTo(next, target, Len(next.edges)) /\ target \in Refs!Named BY FoldedOn
  <1>14. h \in next.hoisted /\ next.own = r.own /\ next.stack # <<>> BY FoldedOn
  <1>13. LeftToShow(r, next, target, h) BY FoldedOn
  <1>0. BundleSound(read) BY DEF Folds
  <1>2. /\ IsFrame(frame) /\ frame.file = target /\ frame.origin = target /\ frame.ahead = ahead /\ frame.again = {}
        /\ \A b : b \in PlacesIn(read, h) <=> \E j \in 1..Len(frame.todo) : frame.todo[j] = b
        /\ \A j \in 1..Len(frame.todo) : frame.todo[j] \in Here(read, target)
    BY <1>1, <1>0, FrameIs
  <1>3. h[1] = target OBVIOUS
  <1>10. q = Pushed(next, frame) OBVIOUS
  <1>15. ahead => <<next.own, Refs!Whole>> \in next.hoisted BY <1>14
  <1> HIDE DEF frame, h
  <1>4. Here(next, target) = Here(read, target) /\ PlacesIn(next, h) = PlacesIn(read, h) BY <1>1 DEF Here, PlacesIn
  <1>5. target \in DOMAIN next.original BY <1>1, <1>3 DEF IsPart
  <1>6. /\ BundleSound(q) /\ Beyond(next, q) /\ Refs!Parts(q) = Refs!Parts(next)
        /\ \A g, b : Awaited(next, g, b) => Awaited(q, g, b)
        /\ \A j \in 1..Len(frame.todo) : Awaited(q, target, frame.todo[j])
    <2>1. PathOf(next, target) = target BY <1>1, <1>12, PathIs DEF BundleSound
    <2>2. FrameOK(next, frame) BY <1>2, <1>4, <1>5, <1>12, <2>1 DEF FrameOK
    <2> QED BY <1>1, <1>2, <1>10, <1>14, <1>15, <2>2, SoundPushed
  <1>7. q.texts = next.texts /\ q.original = next.original BY <1>1, <1>10, PushedIs DEF BundleSound
  <1>8. PlacesIn(q, h) = PlacesIn(next, h) BY <1>7 DEF PlacesIn
  <1>9. \A b \in PlacesIn(q, h) : Awaited(q, target, b) BY <1>2, <1>4, <1>6, <1>8
  <1>11. Carries(next, target, h, q) BY <1>6, <1>7, <1>9 DEF Carries
  <1> QED BY <1>11, <1>13 DEF LeftToShow

\* Whatever the next reference is, the bundling stays what it should be.
LEMMA FollowKeeps ==
  ASSUME Refs!TreeAssumption, DiskOK, NEW r, BundleInv(r), HasNext(r), NEW ref,
         ref = Present(r, Top(r).file, Spot(r)), NEW readable
  PROVE  BundleInv(Refs!Follow(r, ref, readable)) /\ Refs!Follow(r, ref, readable).entry = r.entry
  <1>0. PICK no, yes : no = FALSE /\ yes = TRUE OBVIOUS
  <1> DEFINE target == Refs!Join(Top(r).origin, ref)
             read == Refs!Loads(r, target, ref, readable)
             resolved == Refs!Label(r.entry, target)
             depth == Top(r).depth + 1
             frame == Refs!Frame(target, target, read.texts[target], ref.at, depth, target = r.own /\ ref.at = Refs!Whole)
             On(w, to, refused) == Refs!Advanced(Refs!Drawn(w, ref, to, refused))
             next(refused) == On(Folded(read, target, ref), resolved, refused)
             q == Refs!Follow(r, ref, readable)
             lost == Refs!Found(read, "unresolved", target, ref)
             Good(p) == BundleInv(p) /\ p.entry = r.entry
             denied == Refs!Remote(target) /\ ~allow
             known == On(Refs!Rewritten(r, target, ref), resolved, no)
             unread == On(read, None, yes)
             unresolved == On(lost, resolved, yes)
             deep == Refs!Found(next(no), "deep", target, ref)
             pushed == Pushed(next(no), frame)
  <1>1. q = IF ref.kind \in {"here", "hoisted"} THEN Refs!Advanced(r)
            ELSE IF ref.kind = "absolute" THEN Refs!Refused(r, "absolute", ref)
            ELSE IF denied THEN Refs!Refused(r, "remote", ref)
            ELSE IF Refs!Known(r, target, ref) # {} THEN known
            ELSE IF target \notin DOMAIN read.texts THEN unread
            ELSE IF ref.at # Refs!Whole /\ ref.at \notin DOMAIN read.texts[target] THEN unresolved
            ELSE IF depth > MaxDepth THEN deep
            ELSE pushed
    BY <1>0, Zenon DEF Refs!Follow, Folded, Pushed, Top
  <1>2. BundleSound(r) BY DEF BundleInv
  <1>3. ASSUME ref.kind \in {"here", "hoisted"} PROVE Good(Refs!Advanced(r)) BY <1>3, PassedKeeps
  <1>4. ASSUME ref.kind \notin {"here", "hoisted"}, NEW rule PROVE Good(Refs!Refused(r, rule, ref))
    BY <1>4, RefusedKeeps
  <1>5. ASSUME ref.kind \notin {"here", "hoisted", "absolute"}, NEW refused
        PROVE  Good(On(Refs!Rewritten(r, target, ref), resolved, refused))
    BY <1>5, KnownKeeps
  <1>6. ASSUME ref.kind \notin {"here", "hoisted", "absolute"}
        PROVE  /\ BundleSound(read) /\ Beyond(r, read) /\ read.stack = r.stack /\ read.hoisted = r.hoisted
               /\ NoneNew(r, read)
               /\ target \notin DOMAIN read.texts => \E x \in read.findings : x.rule = "files" \/ x.file = target
    <2>1. target \in Refs!Named BY <1>2, <1>6, SpotFollowed
    <2> HIDE DEF target
    <2> QED BY <1>2, <2>1, SoundLoads
  <1>7. ASSUME ref.kind \notin {"here", "hoisted", "absolute"}, target \notin DOMAIN read.texts, NEW refused
        PROVE  Good(On(read, None, refused))
    <2> HIDE DEF read
    <2> QED BY <1>6, <1>7, ToldKeeps
  <1>8. ASSUME ref.kind \notin {"here", "hoisted", "absolute"}
        PROVE  /\ BundleSound(lost) /\ Beyond(r, lost) /\ lost.stack = r.stack /\ lost.hoisted = r.hoisted /\ NoneNew(r, lost)
               /\ \E x \in lost.findings : x.rule = "files" \/ x.file = target
    <2> HIDE DEF read
    <2>1. BundleSound(lost) /\ Beyond(read, lost) /\ \E x \in lost.findings : x.rule = "unresolved" /\ x.file = target /\ x.ref = ref
      BY <1>6, <1>8, SoundFound
    <2>2. lost.texts = read.texts /\ lost.original = read.original /\ lost.hoisted = read.hoisted /\ lost.stack = read.stack
      BY <1>6, <1>8, FoundIs DEF BundleSound
    <2> HIDE DEF lost
    <2>3. IsSequence(r.edges) /\ IsSequence(read.edges) /\ IsSequence(lost.edges) BY <1>2, <1>6, <1>8, <2>1 DEF BundleSound, EdgesOK
    <2>4. Beyond(r, lost) BY <1>6, <1>8, <2>1, <2>3, BeyondThat
    <2>5. NoneNew(r, lost) BY <1>6, <1>8, <2>2 DEF NoneNew, NewAt, Present, Here
    <2> QED BY <1>6, <1>8, <2>1, <2>2, <2>4, <2>5
  <1>9. ASSUME ref.kind \notin {"here", "hoisted", "absolute"}, NEW refused PROVE Good(On(lost, resolved, refused))
    <2> HIDE DEF lost
    <2> QED BY <1>8, <1>9, ToldKeeps
  <1>10. ASSUME ref.kind \notin {"here", "hoisted", "absolute"}, target \in DOMAIN read.texts,
                ref.at = Refs!Whole \/ ref.at \in DOMAIN read.texts[target], NEW refused
         PROVE  Good(Refs!Found(next(refused), "deep", target, ref)) /\ Good(Pushed(next(refused), frame))
    <2>1. Folds(r, ref, target, read, refused, next(refused))
      <3> HIDE DEF read
      <3> QED BY <1>6, <1>10 DEF Folds
    <2>2. Good(Refs!Found(next(refused), "deep", target, ref))
      <3> HIDE DEF next, target, read
      <3> QED BY <2>1, DeepKeeps
    <2>3. Good(Pushed(next(refused), frame))
      <3> DEFINE ahead == target = r.own /\ ref.at = Refs!Whole
      <3>1. ahead => target = r.own /\ ref.at = Refs!Whole OBVIOUS
      <3>2. frame = Refs!Frame(target, target, read.texts[target], ref.at, depth, ahead) OBVIOUS
      <3> HIDE DEF next, target, read, ahead, frame
      <3> QED BY <2>1, <3>1, <3>2, PushedKeeps
    <2> QED BY <2>2, <2>3
  <1> HIDE DEF q, read, target, resolved, depth, frame, On, lost, next, Good
  <1>11. ASSUME ref.kind \in {"here", "hoisted"} PROVE Good(q) BY <1>1, <1>3, <1>11
  <1>12. ASSUME ref.kind \notin {"here", "hoisted"}, ref.kind = "absolute" \/ denied PROVE Good(q)
    <2> HIDE DEF denied, known, unread, unresolved, deep, pushed
    <2>1. q = Refs!Refused(r, "absolute", ref) \/ q = Refs!Refused(r, "remote", ref) BY <1>1, <1>12
    <2> QED BY <1>4, <1>12, <2>1
  <1>13. ASSUME ref.kind \notin {"here", "hoisted", "absolute"}, ~ denied PROVE Good(q)
    <2>1. Good(known) BY <1>13, <1>5
    <2>2. target \notin DOMAIN read.texts => Good(unread) BY <1>13, <1>7
    <2>3. Good(unresolved) BY <1>13, <1>9
    <2>4. target \in DOMAIN read.texts /\ (ref.at = Refs!Whole \/ ref.at \in DOMAIN read.texts[target])
            => Good(deep) /\ Good(pushed)
      BY <1>13, <1>10
    <2> HIDE DEF denied, known, unread, unresolved, deep, pushed
    <2> QED BY <1>1, <1>13, <2>1, <2>2, <2>3, <2>4
  <1>14. Good(q)
    <2> HIDE DEF denied
    <2> QED BY <1>11, <1>12, <1>13
  <1> QED BY <1>14 DEF q, Good

(* The walk from the first reference of a contract to the last. *)

LEMMA StartedIs ==
  ASSUME Refs!TreeAssumption, NEW c, NEW own \in {c, Refs!AsGiven}, NEW d, <<c, d>> \in Refs!Documents, d # None,
         \E k \in DOMAIN Walked : Walked[k] = c
  PROVE  BundleInv(Refs!Started(c, own, d)) /\ Refs!Started(c, own, d).entry = c
  <1> DEFINE q == Refs!Started(c, own, d)
             frame == Refs!Frame(own, c, d, Refs!Whole, 0, TRUE)
             docs == [f \in {own} |-> d]
  <1>1. /\ IsBundle(q) /\ q.entry = c /\ q.own = own /\ q.texts = docs /\ q.original = docs /\ q.failed = {} /\ q.hoisted = {}
        /\ q.edges = <<>> /\ q.findings = {} /\ q.stack = <<frame>>
    BY DEF Refs!Started, IsBundle
  <1>2. DOMAIN docs = {own} /\ docs[own] = d OBVIOUS
  <1>3. HasPlaces(d) /\ \A at \in Refs!Places(d, Refs!Whole) : d[at[1]][at[2]].kind # "hoisted" BY KindsAre
  <1>4. /\ IsSequence(Refs!Positions(d, Refs!Whole))
        /\ \A at : at \in Refs!Places(d, Refs!Whole) <=>
             \E j \in 1..Len(Refs!Positions(d, Refs!Whole)) : Refs!Positions(d, Refs!Whole)[j] = at
    BY <1>3, PositionsAre
  <1>5. frame.todo = Refs!Positions(d, Refs!Whole) /\ frame.file = own /\ frame.origin = c /\ frame.again = {}
        /\ frame \in [file : {frame.file}, origin : {frame.origin}, todo : {frame.todo}, depth : {frame.depth},
                     ahead : {frame.ahead}, again : {frame.again}]
    BY DEF Refs!Frame
  <1> HIDE DEF frame, docs, q
  <1>6. IsFrame(frame) BY <1>4, <1>5 DEF IsFrame
  <1>7. Here(q, own) = Refs!Places(d, Refs!Whole) BY <1>1, <1>2 DEF Here
  <1>17. PathOf(q, own) = c BY <1>1 DEF PathOf, Refs!PathOf
  <1>8. IsSequence(<<frame>>) /\ Len(<<frame>>) = 1 /\ <<frame>>[1] = frame
    <2>1. <<frame>> \in Seq({frame}) OBVIOUS
    <2> QED BY <2>1 DEF IsSequence
  <1>9. IsSequence(<<>>) /\ Len(<<>>) = 0
    <2>1. <<>> \in Seq({0}) OBVIOUS
    <2> QED BY <2>1 DEF IsSequence
  <1>10. ReadOK(q) BY <1>1, <1>2, <1>17 DEF ReadOK
  <1>11. TextsOK(q) BY <1>1 DEF TextsOK, RefOK, Present, Written
  <1>12. PartsOK(q) /\ FailedOK(q) BY <1>1 DEF PartsOK, FailedOK
  <1>13. StackOK(q)
    <2>1. LedTo(q, c, Len(q.edges)) BY <1>1 DEF LedTo
    <2>2. \A j \in 1..Len(frame.todo) : frame.todo[j] \in Here(q, own) BY <1>4, <1>5, <1>7
    <2>3. FrameOK(q, frame) BY <1>1, <1>2, <1>5, <1>6, <1>17, <2>1, <2>2 DEF FrameOK
    <2>4. \A k \in 1..Len(q.stack) : k = 1 /\ q.stack[k] = frame BY <1>1, <1>8
    <2> QED BY <1>1, <1>5, <1>8, <2>3, <2>4 DEF StackOK
  <1>14. EdgesOK(q) BY <1>1, <1>9 DEF EdgesOK
  <1>15. RewrittenOK(q)
    <2>1. ASSUME NEW f \in DOMAIN q.original, NEW at \in Here(q, f) PROVE Present(q, f, at).kind # "hoisted"
      <3>1. f = own BY <1>1, <1>2
      <3>2. at \in Refs!Places(d, Refs!Whole) BY <3>1, <1>7
      <3>3. Present(q, f, at) = d[at[1]][at[2]] BY <3>1, <1>1, <1>2 DEF Present
      <3> QED BY <3>2, <3>3, <1>3
    <2> QED BY <2>1 DEF RewrittenOK
  <1>16. Attended(q)
    <2> SUFFICES ASSUME NEW p \in Refs!Parts(q), NEW at \in PlacesIn(q, p) PROVE Awaited(q, p[1], at)
      BY DEF Attended
    <2>1. p = <<own, Refs!Whole>> BY <1>1 DEF Refs!Parts
    <2>2. p[1] = own /\ p[2] = Refs!Whole BY <2>1
    <2>3. at \in Refs!Places(d, Refs!Whole) BY <2>2, <1>1, <1>2 DEF PlacesIn
    <2>4. PICK j \in 1..Len(frame.todo) : frame.todo[j] = at BY <2>3, <1>4, <1>5
    <2>5. 1 \in 1..Len(q.stack) /\ q.stack[1] = frame BY <1>1, <1>8
    <2> QED BY <2>2, <2>4, <2>5, <1>5 DEF Awaited
  <1> QED BY <1>1, <1>10, <1>11, <1>12, <1>13, <1>14, <1>15, <1>16 DEF BundleInv, BundleSound, q

\* A step that rewrites nothing and passes over nothing.
LEMMA NothingPassed ==
  ASSUME NEW r, BundleInv(r), NEW q, BundleSound(q), Beyond(r, q), q.texts = r.texts, q.original = r.original,
         q.hoisted = r.hoisted, q.edges = r.edges, \A f, at : Awaited(r, f, at) => Awaited(q, f, at)
  PROVE  BundleInv(q)
  <1>1. BundleSound(r) /\ RewrittenOK(r) /\ Attended(r) BY DEF BundleInv
  <1>2. q.entry = r.entry /\ q.own = r.own BY DEF Beyond
  <1>3. Refs!Parts(q) = Refs!Parts(r) BY <1>2 DEF Refs!Parts
  <1>4. Attended(q) BY <1>1, <1>3, AttendedStays
  <1>5. \A f, ref : HasEdge(q, f, ref) <=> HasEdge(r, f, ref) BY <1>2 DEF HasEdge
  <1>6. Deep(r) => Deep(q) BY DEF Deep, Beyond
  <1>7. \A f : PathOf(q, f) = PathOf(r, f) BY <1>2 DEF PathOf, Refs!PathOf
  <1>8. RewrittenOK(q) BY <1>1, <1>5, <1>6, <1>7 DEF RewrittenOK, Here, Present, Written
  <1> QED BY <1>4, <1>8 DEF BundleInv

LEMMA TopFrame ==
  ASSUME NEW r, BundleSound(r), r.stack # <<>>
  PROVE  /\ Len(r.stack) \in Nat \ {0} /\ Refs!Last(r.stack) = r.stack[Len(r.stack)]
         /\ FrameOK(r, r.stack[Len(r.stack)])
         /\ Len(r.stack) = 1 => r.stack[Len(r.stack)].file = r.own
         /\ Len(r.stack) # 1 /\ r.stack[Len(r.stack)].ahead => <<r.own, Refs!Whole>> \in r.hoisted
  <1>1. PICK S : r.stack \in Seq(S) BY DEF BundleSound, StackOK, IsSequence
  <1>2. Len(r.stack) \in Nat \ {0} BY <1>1
  <1>3. Len(r.stack) \in 1..Len(r.stack) BY <1>2
  <1> QED BY <1>2, <1>3 DEF Refs!Last, BundleSound, StackOK

Popped(r) == [r EXCEPT !.stack = Refs!Front(r.stack)]

\* A part all of whose references were looked at is left.
LEMMA PoppedKeeps ==
  ASSUME NEW r, BundleInv(r), r.stack # <<>>, Refs!Last(r.stack).todo = <<>>
  PROVE  BundleInv(Popped(r)) /\ Popped(r).entry = r.entry
  <1> DEFINE q == Popped(r)
             n == Len(r.stack)
  <1>1. BundleSound(r) BY DEF BundleInv
  <1>2. /\ IsBundle(q) /\ q.entry = r.entry /\ q.own = r.own /\ q.texts = r.texts /\ q.original = r.original
        /\ q.failed = r.failed /\ q.hoisted = r.hoisted /\ q.findings = r.findings /\ q.edges = r.edges
        /\ q.stack = Refs!Front(r.stack)
    BY <1>1 DEF BundleSound, IsBundle, Popped
  <1> HIDE DEF q
  <1>3. n \in Nat \ {0} /\ IsSequence(q.stack) /\ Len(q.stack) = n - 1 /\ \A k \in 1..(n - 1) : q.stack[k] = r.stack[k]
    <2>1. PICK S : r.stack \in Seq(S) BY <1>1 DEF BundleSound, StackOK, IsSequence
    <2>2. n \in Nat \ {0} BY <2>1
    <2>3. q.stack = [k \in 1..(n - 1) |-> r.stack[k]] BY <1>2, <2>2 DEF Refs!Front
    <2>4. \A k \in 1..(n - 1) : r.stack[k] \in S BY <2>1
    <2>5. q.stack \in [1..(n - 1) -> S] BY <2>3, <2>4
    <2>6. q.stack \in Seq(S) /\ Len(q.stack) = n - 1 BY <2>2, <2>5
    <2> QED BY <2>2, <2>3, <2>6 DEF IsSequence
  <1>4. \A k \in 1..Len(q.stack) : k \in 1..n /\ q.stack[k] = r.stack[k] BY <1>3
  <1>5. BundleSound(q) /\ Beyond(r, q)
    <2>1. \A k \in 1..Len(q.stack) :
            /\ FrameOK(r, q.stack[k])
            /\ k = 1 => q.stack[k].file = r.own
            /\ k # 1 /\ q.stack[k].ahead => <<r.own, Refs!Whole>> \in r.hoisted
      BY <1>1, <1>4 DEF BundleSound, StackOK
    <2> QED BY <1>1, <1>2, <1>3, <2>1, SoundStack
  <1>6. ASSUME NEW f, NEW at, Awaited(r, f, at) PROVE Awaited(q, f, at)
    <2>1. PICK k \in 1..n : r.stack[k].file = f /\ \E j \in 1..Len(r.stack[k].todo) : r.stack[k].todo[j] = at
      BY <1>6 DEF Awaited
    <2>2. k # n
      <3>1. Len(r.stack[n].todo) = 0 BY DEF Refs!Last
      <3> QED BY <2>1, <3>1
    <2>3. k \in 1..Len(q.stack) /\ q.stack[k] = r.stack[k] BY <2>2, <1>3
    <2> QED BY <2>1, <2>3 DEF Awaited
  <1> QED BY <1>2, <1>5, <1>6, NothingPassed DEF q

\* The fragments put among the schemas of the contract are met there.  What is awaited then
\* is the contract's, or it was folded into itself, and a finding tells.
LEMMA MetKeeps ==
  ASSUME NEW r, BundleInv(r), r.stack # <<>>, Refs!Last(r.stack).ahead,
         <<r.own, Refs!Whole>> \in r.hoisted => Deep(r)
  PROVE  BundleInv(Refs!Met(r)) /\ Refs!Met(r).entry = r.entry
  <1> DEFINE q == Refs!Met(r)
             n == Len(r.stack)
             top == r.stack[n]
             frame == [top EXCEPT !.ahead = FALSE, !.again = r.hoisted]
  <1>1. BundleSound(r) /\ Attended(r) BY DEF BundleInv
  <1>2. /\ n \in Nat \ {0} /\ Refs!Last(r.stack) = top /\ FrameOK(r, top)
        /\ n = 1 => top.file = r.own
        /\ n # 1 => <<r.own, Refs!Whole>> \in r.hoisted
    BY <1>1, TopFrame
  <1>3. n \in DOMAIN r.stack
    <2>1. IsSequence(r.stack) BY <1>1 DEF BundleSound, StackOK
    <2>2. DOMAIN r.stack = 1..n BY <2>1, LengthsAre
    <2> QED BY <1>2, <2>2
  <1>4. /\ IsBundle(q) /\ q.entry = r.entry /\ q.own = r.own /\ q.texts = r.texts /\ q.original = r.original
        /\ q.failed = r.failed /\ q.hoisted = r.hoisted /\ q.findings = r.findings /\ q.edges = r.edges
        /\ q.stack = [r.stack EXCEPT ![n] = frame]
    <2>1. q = [r EXCEPT !.stack[n].ahead = FALSE, !.stack[n].again = r.hoisted] BY DEF Refs!Met
    <2>2. q = [r EXCEPT !.stack = [r.stack EXCEPT ![n] = frame]] BY <1>1, <1>3, <2>1 DEF BundleSound, IsBundle
    <2>3. IsBundle(r) BY <1>1 DEF BundleSound
    <2> HIDE DEF q, frame
    <2> QED BY <2>2, <2>3 DEF IsBundle
  <1>5. /\ IsFrame(frame) /\ frame.file = top.file /\ frame.origin = top.origin /\ frame.todo = top.todo
        /\ frame.ahead = FALSE /\ frame.again = r.hoisted
    BY <1>2 DEF FrameOK, IsFrame
  <1>6. ASSUME NEW h \in r.hoisted
        PROVE  IsPart(r, h) /\ \A at \in PlacesIn(r, h) : h[1] = r.own \/ Settled(r, h[1], at)
    <2>1. IsPart(r, h) /\ h \in Refs!Parts(r) BY <1>1 DEF BundleSound, PartsOK, Refs!Parts
    <2>2. ASSUME NEW at \in PlacesIn(r, h) PROVE h[1] = r.own \/ Settled(r, h[1], at)
      <3>1. CASE n = 1
        <4>1. Settled(r, h[1], at) \/ Awaited(r, h[1], at) BY <1>1, <2>1 DEF Attended
        <4>2. Awaited(r, h[1], at) => h[1] = r.own BY <1>2, <3>1 DEF Awaited
        <4> QED BY <4>1, <4>2
      <3>2. CASE n # 1
        <4>1. Deep(r) BY <1>2, <3>2
        <4>2. \A f, ref : Refs!Told(r, f, ref) BY <4>1 DEF Deep, Refs!Told
        <4> QED BY <4>1, <4>2, Zenon DEF Settled
      <3> QED BY <3>1, <3>2
    <2> QED BY <2>1, <2>2
  <1> HIDE DEF frame, q
  <1>7. FrameOK(r, frame) BY <1>2, <1>5, <1>6 DEF FrameOK
  <1>8. /\ BundleSound(q) /\ Beyond(r, q) /\ Len(q.stack) = n /\ q.stack[n] = frame
        /\ \A k \in 1..n : k # n => q.stack[k] = r.stack[k]
    <2>1. BundleSound(r) /\ IsBundle(q) /\ q.entry = r.entry /\ q.own = r.own /\ q.original = r.original BY <1>1, <1>4
    <2>2. q.texts = r.texts /\ q.failed = r.failed /\ q.hoisted = r.hoisted /\ q.edges = r.edges /\ q.findings = r.findings
      BY <1>4
    <2>3. n \in Nat \ {0} /\ frame.file = r.stack[n].file /\ (frame.ahead => r.stack[n].ahead) BY <1>2, <1>5
    <2>4. q.stack = [r.stack EXCEPT ![n] = frame] /\ n = Len(r.stack) BY <1>4
    <2> HIDE DEF n
    <2> QED BY <1>7, <2>1, <2>2, <2>3, <2>4, SoundTop, SMTT(30)
  <1>9. \A k \in 1..n : q.stack[k].file = r.stack[k].file /\ q.stack[k].todo = r.stack[k].todo BY <1>5, <1>8
  <1>10. \A f, at : Awaited(r, f, at) => Awaited(q, f, at) BY <1>8, <1>9 DEF Awaited
  <1> QED BY <1>4, <1>8, <1>10, NothingPassed DEF q

LEMMA ReachedKeeps ==
  ASSUME NEW r, BundleInv(r), r.stack # <<>>, Refs!Last(r.stack).ahead
  PROVE  BundleInv(Refs!Reached(r)) /\ Refs!Reached(r).entry = r.entry
  <1> DEFINE p == Refs!Found(r, "deep", r.entry, None)
  <1>1. CASE <<r.own, Refs!Whole>> \in r.hoisted
    <2>1. BundleSound(r) /\ IsBundle(r) BY DEF BundleInv, BundleSound
    <2>2. BundleSound(p) /\ Beyond(r, p) /\ \E x \in p.findings : x.rule = "deep" BY <2>1, SoundFound
    <2>3. /\ p.texts = r.texts /\ p.original = r.original /\ p.hoisted = r.hoisted /\ p.edges = r.edges
          /\ p.stack = r.stack /\ p.entry = r.entry
      BY <2>1, FoundIs
    <2>4. Refs!Reached(r) = Refs!Met(p) BY <1>1 DEF Refs!Reached
    <2> HIDE DEF p
    <2>5. \A f, at : Awaited(r, f, at) => Awaited(p, f, at) BY <2>3, AwaitedSame
    <2>6. BundleInv(p) BY <2>2, <2>3, <2>5, NothingPassed
    <2> QED BY <2>2, <2>3, <2>4, <2>6, MetKeeps DEF Deep
  <1>2. CASE <<r.own, Refs!Whole>> \notin r.hoisted
    <2>1. Refs!Reached(r) = Refs!Met(r) BY <1>2 DEF Refs!Reached
    <2> QED BY <1>2, <2>1, MetKeeps
  <1> QED BY <1>1, <1>2

\* One of them is walked again, from the contract.
LEMMA AgainKeeps ==
  ASSUME Refs!TreeAssumption, NEW r, BundleInv(r), r.stack # <<>>, Refs!Last(r.stack).again # {}
  PROVE  BundleInv(Refs!WalkedAgain(r)) /\ Refs!WalkedAgain(r).entry = r.entry
  <1> DEFINE n == Len(r.stack)
             top == r.stack[n]
             h == CHOOSE x \in top.again : TRUE
             less == [top EXCEPT !.again = @ \ {h}]
             p == [r EXCEPT !.stack = [r.stack EXCEPT ![n] = less]]
             frame == Refs!Frame(h[1], r.entry, r.texts[h[1]], h[2], top.depth, FALSE)
             q == Refs!WalkedAgain(r)
  <1>1. BundleSound(r) /\ IsBundle(r) BY DEF BundleInv, BundleSound
  <1>2. n \in Nat \ {0} /\ Refs!Last(r.stack) = top /\ FrameOK(r, top) BY <1>1, TopFrame
  <1>3. h \in top.again BY <1>2
  <1>4. /\ IsPart(r, h) /\ \A at \in PlacesIn(r, h) : h[1] = r.own \/ Settled(r, h[1], at)
    BY <1>2, <1>3 DEF FrameOK
  <1>5. /\ IsBundle(p) /\ p.entry = r.entry /\ p.own = r.own /\ p.texts = r.texts /\ p.original = r.original
        /\ p.failed = r.failed /\ p.hoisted = r.hoisted /\ p.findings = r.findings /\ p.edges = r.edges
        /\ p.stack = [r.stack EXCEPT ![n] = less]
    <2> HIDE DEF less
    <2> QED BY <1>1 DEF IsBundle
  <1>6. q = Pushed(p, frame)
    <2> HIDE DEF h, frame
    <2>1. [r.stack EXCEPT ![n].again = @ \ {h}] = [r.stack EXCEPT ![n] = less] OBVIOUS
    <2>2. q = [r EXCEPT !.stack = Append([r.stack EXCEPT ![n].again = @ \ {h}], frame)]
      BY DEF Refs!WalkedAgain, h, frame
    <2>3. q = [r EXCEPT !.stack = Append(p.stack, frame)] BY <1>5, <2>1, <2>2
    <2> HIDE DEF q
    <2> QED BY <2>3 DEF Pushed
  <1>7. /\ IsFrame(less) /\ less.file = top.file /\ less.origin = top.origin /\ less.todo = top.todo
        /\ less.ahead = top.ahead /\ less.again = top.again \ {h}
    BY <1>2 DEF FrameOK, IsFrame
  <1> HIDE DEF h, less, p, frame, q
  <1>8. FrameOK(r, less) BY <1>2, <1>7 DEF FrameOK
  <1>9. /\ BundleSound(p) /\ Beyond(r, p) /\ Len(p.stack) = n /\ p.stack[n] = less
        /\ \A k \in 1..n : k # n => p.stack[k] = r.stack[k]
    <2>1. /\ n = Len(r.stack) /\ n \in Nat \ {0} /\ BundleSound(r)
          /\ less.file = r.stack[n].file /\ (less.ahead => r.stack[n].ahead)
      BY <1>1, <1>2, <1>7
    <2> HIDE DEF n
    <2> QED BY <1>5, <1>8, <2>1, SoundTop, SMTT(30)
  <1>10. \A k \in 1..n : p.stack[k].file = r.stack[k].file /\ p.stack[k].todo = r.stack[k].todo BY <1>7, <1>9
  <1>11. \A f, at : Awaited(r, f, at) => Awaited(p, f, at) BY <1>9, <1>10 DEF Awaited
  <1>12. BundleInv(p) BY <1>5, <1>9, <1>11, NothingPassed
  <1>13. /\ IsFrame(frame) /\ frame.file = h[1] /\ frame.origin = p.entry /\ frame.ahead = FALSE /\ frame.again = {}
         /\ \A j \in 1..Len(frame.todo) : frame.todo[j] \in PlacesIn(r, h) /\ frame.todo[j] \in Here(p, h[1])
    <2> DEFINE g == h[1]
               x == h[2]
               part == <<g, x>>
    <2>1. part[1] = g /\ part[2] = x OBVIOUS
    <2>2. frame = Refs!Frame(g, p.entry, p.texts[g], x, top.depth, FALSE) BY <1>5 DEF frame
    <2>3. PlacesIn(p, part) = PlacesIn(r, h) BY <1>5, <2>1 DEF PlacesIn
    <2>4. IsPart(p, part) BY <1>4, <1>5, <2>1 DEF IsPart
    <2>6. BundleSound(p) BY <1>9
    <2> HIDE DEF g, x
    <2>7. PICK depth : depth = top.depth OBVIOUS
    <2>8. PICK origin : origin = p.entry OBVIOUS
    <2>9. IsPart(p, <<g, x>>) BY <2>4 DEF part
    <2>10. LET fr == Refs!Frame(g, origin, p.texts[g], x, depth, FALSE)
           IN /\ IsFrame(fr) /\ fr.file = g /\ fr.origin = origin /\ fr.ahead = FALSE /\ fr.again = {}
              /\ \A at : at \in PlacesIn(p, <<g, x>>) <=> \E j \in 1..Len(fr.todo) : fr.todo[j] = at
              /\ \A j \in 1..Len(fr.todo) : fr.todo[j] \in Here(p, g)
      BY <2>6, <2>9, FrameIs
    <2>5. /\ IsFrame(frame) /\ frame.file = g /\ frame.origin = p.entry /\ frame.ahead = FALSE /\ frame.again = {}
          /\ \A at : at \in PlacesIn(p, part) <=> \E j \in 1..Len(frame.todo) : frame.todo[j] = at
          /\ \A j \in 1..Len(frame.todo) : frame.todo[j] \in Here(p, g)
      BY <2>2, <2>7, <2>8, <2>10 DEF part
    <2> HIDE DEF part
    <2> QED BY <2>3, <2>5 DEF g
  <1>14. FrameOK(p, frame)
    <2>1. h[1] \in DOMAIN p.original BY <1>4, <1>5 DEF IsPart
    <2>2. LedTo(p, frame.origin, Len(p.edges)) BY <1>13 DEF LedTo
    <2>3. h[1] = r.own => frame.origin = PathOf(p, h[1]) BY <1>5, <1>13 DEF PathOf, Refs!PathOf
    <2>4. ASSUME h[1] # r.own, NEW j \in 1..Len(frame.todo) PROVE Settled(p, h[1], frame.todo[j])
      <3>1. Settled(r, h[1], frame.todo[j]) BY <1>4, <1>13, <2>4
      <3>2. h[1] \in DOMAIN r.original /\ frame.todo[j] \in Here(r, h[1]) BY <1>4, <1>13, PartIsHere DEF IsPart
      <3> QED BY <1>1, <1>9, <3>1, <3>2, SettledStays DEF BundleSound, EdgesOK
    <2> QED BY <1>13, <2>1, <2>2, <2>3, <2>4 DEF FrameOK
  <1>15. p.stack # <<>> BY <1>2, <1>9
  <1>16. BundleSound(q) /\ Beyond(p, q) /\ \A f, at : Awaited(p, f, at) => Awaited(q, f, at)
    BY <1>6, <1>9, <1>13, <1>14, <1>15, SoundPushed
  <1>17. /\ q.texts = p.texts /\ q.original = p.original /\ q.hoisted = p.hoisted /\ q.edges = p.edges /\ q.entry = p.entry
    BY <1>5, <1>6, PushedIs
  <1>18. BundleInv(q) BY <1>12, <1>16, <1>17, NothingPassed, SMTT(30)
  <1> QED BY <1>5, <1>17, <1>18 DEF q

\* A bundling that ended: what its references are read as is what its files mean by them.
Meant(r, f, was) == IF was.kind # "here" THEN <<Refs!Join(PathOf(r, f), was), was.at>>
                    ELSE IF was.at \in DOMAIN r.original[f] THEN <<f, was.at>> ELSE None

Excused(r, f, was, is) == /\ was.kind # "here" /\ Refs!Told(r, PathOf(r, f), was)
                          /\ is = was \/ Refs!Resolve(r, is) = <<Refs!Join(r.entry, was), was.at>>

LEMMA MeaningKept ==
  ASSUME Refs!TreeAssumption, NEW r, BundleInv(r), r.stack = <<>>
  PROVE  Refs!MeaningIsKept(r)
  <1>1. BundleSound(r) /\ Attended(r) BY DEF BundleInv
  <1>2. ASSUME NEW p \in Refs!Parts(r), NEW at \in PlacesIn(r, p)
        PROVE  \/ Refs!Resolve(r, Present(r, p[1], at)) = Meant(r, p[1], Written(r, p[1], at))
               \/ Written(r, p[1], at).kind = "here" /\ p[1] # r.own
               \/ Excused(r, p[1], Written(r, p[1], at), Present(r, p[1], at))
    <2> DEFINE f == p[1]
               was == Written(r, f, at)
               is == Present(r, f, at)
    <2>1. IsPart(r, p) BY <1>1, PartsAre
    <2>2. f \in DOMAIN r.original /\ at \in Here(r, f) BY <2>1, PartIsHere DEF IsPart
    <2>3. ~ Awaited(r, f, at)
      <3>1. Len(r.stack) = 0 OBVIOUS
      <3> QED BY <3>1 DEF Awaited
    <2>4. Settled(r, f, at) BY <1>1, <2>3 DEF Attended
    <2>5. \/ is = was
          \/ was.kind # "here" /\ is = ReadFrom(PathOf(r, f), was)
          \/ was.kind # "here" /\ is = ReadFrom(r.entry, was) /\ Refs!Told(r, PathOf(r, f), was)
      BY <1>1, <2>2 DEF BundleSound, TextsOK, RefOK
    <2>6. was.kind # "hoisted" BY <1>1, <2>2, HoistedWas
    <2>7. was.kind # "here" => is.kind = "hoisted" \/ Refs!Told(r, PathOf(r, f), was) BY <2>4 DEF Settled
    <2>8. r.own \in DOMAIN r.original /\ DOMAIN r.texts[r.own] = DOMAIN r.original[r.own]
      BY <1>1 DEF BundleSound, ReadOK, TextsOK
    <2> HIDE DEF was, is, f
    <2>9. CASE is = was /\ was.kind = "here"
      <3>2. CASE f = r.own
        <4>1. Refs!Resolve(r, is) = IF is.at \in DOMAIN r.texts[r.own] THEN <<r.own, is.at>> ELSE None
          BY <2>9 DEF Refs!Resolve
        <4>2. Meant(r, f, was) = IF was.at \in DOMAIN r.original[f] THEN <<f, was.at>> ELSE None BY <2>9 DEF Meant
        <4> QED BY <2>8, <2>9, <3>2, <4>1, <4>2 DEF f, was, is
      <3> QED BY <2>9, <3>2 DEF f, was
    <2>10. CASE is = was /\ was.kind # "here" BY <2>6, <2>7, <2>10 DEF Excused, f, was, is
    <2>11. ASSUME NEW origin, is = ReadFrom(origin, was)
           PROVE  Refs!Resolve(r, is) = <<Refs!Join(origin, was), was.at>>
      <3>1. is.kind = "hoisted" /\ is.path = Refs!Join(origin, was) /\ is.at = was.at BY <2>11 DEF ReadFrom
      <3> QED BY <3>1 DEF Refs!Resolve
    <2>12. CASE was.kind # "here" /\ is = ReadFrom(PathOf(r, f), was)
      <3>1. Meant(r, f, was) = <<Refs!Join(PathOf(r, f), was), was.at>> BY <2>12 DEF Meant
      <3> QED BY <2>11, <2>12, <3>1 DEF f, was, is
    <2>13. CASE was.kind # "here" /\ is = ReadFrom(r.entry, was) /\ Refs!Told(r, PathOf(r, f), was)
      BY <2>11, <2>13 DEF Excused, f, was, is
    <2> QED BY <2>5, <2>9, <2>10, <2>12, <2>13
  <1>3. ASSUME NEW o \in Refs!Origins(r)
        PROVE  LET was == r.original[o[1]][o[2]][o[3]]
                   is == r.texts[o[1]][o[2]][o[3]]
               IN \/ Refs!Resolve(r, is) = Meant(r, o[1], was)
                  \/ was.kind = "here" /\ o[1] # r.own
                  \/ Excused(r, o[1], was, is)
    <2>0. PICK p \in Refs!Parts(r) : \E at \in PlacesIn(r, p) : o = <<p[1], at[1], at[2]>> BY DEF Refs!Origins, PlacesIn
    <2>1. PICK at \in PlacesIn(r, p) : o = <<p[1], at[1], at[2]>> BY <2>0
    <2>2. o[1] = p[1] /\ o[2] = at[1] /\ o[3] = at[2] BY <2>1
    <2> QED BY <1>2, <2>2 DEF Written, Present
  <1> QED BY <1>3 DEF Refs!MeaningIsKept, Meant, Excused, PathOf

\* A contract of the walk.
IsContract(c) == \E k \in DOMAIN Walked : Walked[k] = c

RefsInv ==
  /\ DiskOK /\ \A c : IsContract(c) => c \in DOMAIN disk
  /\ IsSequence(waiting) /\ \A j \in 1..Len(waiting) : IsContract(waiting[j])
  /\ run # None => BundleInv(run)
  /\ \A c \in DOMAIN loaded :
       /\ IsContract(c)
       /\ loaded[c] # None => BundleInv(loaded[c]) /\ loaded[c].stack = <<>> /\ loaded[c].entry = c
  /\ graph # None =>
       /\ run = None /\ waiting = <<>>
       /\ graph.nodes = Refs!Build(loaded).nodes /\ graph.edges = Refs!Build(loaded).edges

\* A set of runs with one more.
LEMMA RunAdded ==
  ASSUME RefsInv, NEW c, IsContract(c), NEW r, r # None => BundleInv(r) /\ r.stack = <<>> /\ r.entry = c,
         loaded' = Refs!WithRun(c, r)
  PROVE  \A x \in DOMAIN loaded' :
           /\ IsContract(x)
           /\ loaded'[x] # None => BundleInv(loaded'[x]) /\ loaded'[x].stack = <<>> /\ loaded'[x].entry = x
  <1>1. DOMAIN loaded' = DOMAIN loaded \cup {c}
        /\ \A x \in DOMAIN loaded' : loaded'[x] = IF x = c THEN r ELSE loaded[x]
    BY DEF Refs!WithRun
  <1> QED BY <1>1 DEF RefsInv

LEMMA SentTail ==
  ASSUME NEW s, IsSequence(s), s # <<>>, \A j \in 1..Len(s) : IsContract(s[j])
  PROVE  /\ IsContract(Head(s)) /\ IsSequence(Tail(s)) /\ \A j \in 1..Len(Tail(s)) : IsContract(Tail(s)[j])
  <1>1. PICK S : s \in Seq(S) BY DEF IsSequence
  <1>2. Len(s) \in Nat \ {0} /\ Head(s) = s[1] BY <1>1
  <1>3. /\ IsSequence(Tail(s)) /\ Len(Tail(s)) = Len(s) - 1 /\ \A j \in 1..(Len(s) - 1) : Tail(s)[j] = s[j + 1]
    BY <1>2, TailIs
  <1>4. \A j \in 1..(Len(s) - 1) : j + 1 \in 1..Len(s) BY <1>2
  <1>5. 1 \in 1..Len(s) BY <1>2
  <1> QED BY <1>2, <1>3, <1>4, <1>5

LEMMA RefsStart == ASSUME Refs!TreeAssumption, Refs!Init PROVE RefsInv
  <1>1. disk \in Disks /\ run = None /\ graph = None /\ DOMAIN loaded = {} BY DEF Refs!Init
  <1>2. DiskOK
    <2> SUFFICES ASSUME NEW f \in DOMAIN disk PROVE <<f, disk[f]>> \in Refs!Documents BY DEF DiskOK
    <2>1. <<f, disk[f]>> \in {<<g, disk[g]>> : g \in DOMAIN disk} OBVIOUS
    <2> QED BY <1>1, <2>1 DEF Refs!Documents
  <1>3. \A c : IsContract(c) => c \in DOMAIN disk BY <1>1 DEF IsContract, Refs!TreeAssumption
  <1>4. Walked \in Seq(Seq(STRING)) /\ Walked # <<>> BY DEF Refs!TreeAssumption
  <1>5. Len(Walked) \in Nat \ {0} /\ DOMAIN Walked = 1..Len(Walked) BY <1>4
  <1>6. IsSequence(Walked) /\ \A j \in 1..Len(Walked) : IsContract(Walked[j]) BY <1>4, <1>5 DEF IsSequence, IsContract
  <1>7. IsSequence(<<Walked[1]>>) /\ Len(<<Walked[1]>>) = 1 /\ <<Walked[1]>>[1] = Walked[1]
    <2>1. <<Walked[1]>> \in Seq({Walked[1]}) OBVIOUS
    <2> QED BY <2>1 DEF IsSequence
  <1>8. IsContract(Walked[1]) BY <1>5, <1>6
  <1>9. waiting = <<Walked[1]>> \/ waiting = Walked BY DEF Refs!Init
  <1>10. IsSequence(waiting) /\ \A j \in 1..Len(waiting) : IsContract(waiting[j]) BY <1>6, <1>7, <1>8, <1>9
  <1> QED BY <1>1, <1>2, <1>3, <1>10 DEF RefsInv

LEMMA RefsLoad == ASSUME Refs!TreeAssumption, RefsInv, Refs!Load PROVE RefsInv'
  <1> DEFINE c == Head(waiting)
  <1>1. run = None /\ waiting # <<>> /\ waiting' = Tail(waiting) /\ UNCHANGED <<disk, graph>>
        /\ \/ disk[c] = None /\ loaded' = Refs!WithRun(c, None) /\ run' = None
           \/ /\ disk[c] # None /\ UNCHANGED loaded
              /\ \E own \in {c, Refs!AsGiven} : run' = Refs!Started(c, own, disk[c])
    BY DEF Refs!Load
  <1>2. IsContract(c) /\ IsSequence(waiting') /\ \A j \in 1..Len(waiting') : IsContract(waiting'[j])
    BY <1>1, SentTail DEF RefsInv
  <1>3. c \in DOMAIN disk /\ <<c, disk[c]>> \in Refs!Documents BY <1>2 DEF RefsInv, DiskOK
  <1>4. run' # None => BundleInv(run')
    <2>1. \E k \in DOMAIN Walked : Walked[k] = c BY <1>2 DEF IsContract
    <2> HIDE DEF c
    <2> QED BY <1>1, <1>3, <2>1, StartedIs
  <1>5. \A x \in DOMAIN loaded' :
          /\ IsContract(x)
          /\ loaded'[x] # None => BundleInv(loaded'[x]) /\ loaded'[x].stack = <<>> /\ loaded'[x].entry = x
    <2>1. CASE loaded' = Refs!WithRun(c, None) BY <2>1, <1>2, RunAdded
    <2>2. CASE UNCHANGED loaded BY <2>2 DEF RefsInv
    <2> QED BY <1>1, <2>1, <2>2
  <1>6. graph' = None BY <1>1 DEF RefsInv
  <1>7. DiskOK' /\ \A x : IsContract(x) => x \in DOMAIN disk' BY <1>1 DEF RefsInv, DiskOK
  <1> QED BY <1>2, <1>4, <1>5, <1>6, <1>7 DEF RefsInv

LEMMA RefsWalk == ASSUME Refs!TreeAssumption, RefsInv, Refs!Walk PROVE RefsInv'
  <1> DEFINE ref == run.texts[Refs!Last(run.stack).file][Head(Refs!Last(run.stack).todo)[1]][Head(Refs!Last(run.stack).todo)[2]]
  <1>1. run # None /\ run.stack # <<>> /\ Refs!Last(run.stack).todo # <<>> /\ UNCHANGED <<disk, waiting, loaded, graph>>
    BY SMTT(30) DEF Refs!Walk
  <1>2. PICK readable : run' = Refs!Follow(run, ref, readable) BY DEF Refs!Walk
  <1>3. ref = Present(run, Top(run).file, Spot(run)) BY DEF Present, Top, Spot
  <1> HIDE DEF ref
  <1>4. BundleInv(run) /\ BundleSound(run) BY <1>1 DEF RefsInv, BundleInv
  <1>5. HasNext(run)
    <2>2. Len(run.stack) \in Nat \ {0} /\ Refs!Last(run.stack) = run.stack[Len(run.stack)]
          /\ FrameOK(run, run.stack[Len(run.stack)])
      BY <1>1, <1>4, TopFrame
    <2>4. IsFrame(Refs!Last(run.stack)) BY <2>2 DEF FrameOK
    <2>5. PICK T : Refs!Last(run.stack).todo \in Seq(T) BY <2>4 DEF IsFrame, IsSequence
    <2>6. Len(Refs!Last(run.stack).todo) \in Nat \ {0} BY <1>1, <2>5
    <2> QED BY <2>2, <2>6 DEF HasNext
  <1>6. DiskOK BY DEF RefsInv
  <1>7. BundleInv(run') BY <1>2, <1>3, <1>4, <1>5, <1>6, FollowKeeps
  <1>8. graph' = None BY <1>1 DEF RefsInv
  <1>9. DiskOK' /\ \A x : IsContract(x) => x \in DOMAIN disk' BY <1>1 DEF RefsInv, DiskOK
  <1> QED BY <1>1, <1>7, <1>8, <1>9 DEF RefsInv

LEMMA RefsReach == ASSUME RefsInv, Refs!Reach PROVE RefsInv'
  <1>1. run # None /\ run.stack # <<>> /\ Refs!Last(run.stack).ahead /\ UNCHANGED <<disk, waiting, loaded, graph>>
        /\ run' = Refs!Reached(run)
    BY DEF Refs!Reach
  <1>2. BundleInv(run) BY <1>1 DEF RefsInv
  <1>3. BundleInv(run') BY <1>1, <1>2, ReachedKeeps
  <1>4. graph' = None BY <1>1 DEF RefsInv
  <1>5. DiskOK' /\ \A x : IsContract(x) => x \in DOMAIN disk' BY <1>1 DEF RefsInv, DiskOK
  <1> QED BY <1>1, <1>3, <1>4, <1>5 DEF RefsInv

LEMMA RefsAgain == ASSUME Refs!TreeAssumption, RefsInv, Refs!Again PROVE RefsInv'
  <1>1. run # None /\ run.stack # <<>> /\ Refs!Last(run.stack).again # {} /\ UNCHANGED <<disk, waiting, loaded, graph>>
        /\ run' = Refs!WalkedAgain(run)
    BY DEF Refs!Again
  <1>2. BundleInv(run) BY <1>1 DEF RefsInv
  <1>3. BundleInv(run') BY <1>1, <1>2, AgainKeeps
  <1>4. graph' = None BY <1>1 DEF RefsInv
  <1>5. DiskOK' /\ \A x : IsContract(x) => x \in DOMAIN disk' BY <1>1 DEF RefsInv, DiskOK
  <1> QED BY <1>1, <1>3, <1>4, <1>5 DEF RefsInv

LEMMA RefsReturn == ASSUME RefsInv, Refs!Return PROVE RefsInv'
  <1>1. run # None /\ run.stack # <<>> /\ Refs!Last(run.stack).todo = <<>> /\ UNCHANGED <<disk, waiting, loaded, graph>>
        /\ run' = Popped(run)
    BY DEF Refs!Return, Popped
  <1>2. BundleInv(run) BY <1>1 DEF RefsInv
  <1>3. BundleInv(run') BY <1>1, <1>2, PoppedKeeps
  <1>4. graph' = None BY <1>1 DEF RefsInv
  <1>5. DiskOK' /\ \A x : IsContract(x) => x \in DOMAIN disk' BY <1>1 DEF RefsInv, DiskOK
  <1> QED BY <1>1, <1>3, <1>4, <1>5 DEF RefsInv

LEMMA RefsBundled == ASSUME RefsInv, Refs!Bundled PROVE RefsInv'
  <1>1. run # None /\ run.stack = <<>> /\ UNCHANGED <<disk, waiting, graph>> /\ run' = None
        /\ loaded' = Refs!WithRun(run.entry, run)
    BY DEF Refs!Bundled
  <1>2. BundleInv(run) BY <1>1 DEF RefsInv
  <1>3. IsContract(run.entry) BY <1>2 DEF BundleInv, BundleSound, ReadOK, IsContract
  <1>4. \A x \in DOMAIN loaded' :
          /\ IsContract(x)
          /\ loaded'[x] # None => BundleInv(loaded'[x]) /\ loaded'[x].stack = <<>> /\ loaded'[x].entry = x
    BY <1>1, <1>2, <1>3, RunAdded
  <1>5. graph' = None BY <1>1 DEF RefsInv
  <1>6. DiskOK' /\ \A x : IsContract(x) => x \in DOMAIN disk' BY <1>1 DEF RefsInv, DiskOK
  <1> QED BY <1>1, <1>4, <1>5, <1>6 DEF RefsInv

LEMMA RefsReport == ASSUME RefsInv, Refs!Report PROVE RefsInv'
  <1>1. run = None /\ waiting = <<>> /\ UNCHANGED <<disk, waiting, run, loaded>>
        /\ graph'.nodes = Refs!Build(loaded).nodes /\ graph'.edges = Refs!Build(loaded).edges
    BY DEF Refs!Report
  <1>2. DiskOK' /\ \A x : IsContract(x) => x \in DOMAIN disk' BY <1>1 DEF RefsInv, DiskOK
  <1> QED BY <1>1, <1>2 DEF RefsInv

LEMMA RefsSave == ASSUME RefsInv, Refs!Save PROVE RefsInv'
  <1>1. UNCHANGED <<waiting, run, loaded, graph>> /\ graph = None BY DEF Refs!Save
  <1>2. PICK s \in Redone : s[1] \in DOMAIN disk /\ disk' = [disk EXCEPT ![s[1]] = s[2]] BY DEF Refs!Save
  <1>3. <<s[1], s[2]>> \in Refs!Documents BY DEF Refs!Documents
  <1>4. DOMAIN disk' = DOMAIN disk /\ \A f \in DOMAIN disk : disk'[f] = IF f = s[1] THEN s[2] ELSE disk[f] BY <1>2
  <1>5. DiskOK'
    <2> SUFFICES ASSUME NEW f \in DOMAIN disk PROVE <<f, disk'[f]>> \in Refs!Documents BY <1>4 DEF DiskOK
    <2>1. CASE f = s[1] BY <2>1, <1>3, <1>4
    <2>2. CASE f # s[1] BY <2>2, <1>4 DEF RefsInv, DiskOK
    <2> QED BY <2>1, <2>2
  <1>6. \A x : IsContract(x) => x \in DOMAIN disk' BY <1>4 DEF RefsInv
  <1> QED BY <1>1, <1>5, <1>6 DEF RefsInv

(* The graph of the references: what a file is reached from, and what a contract adds. *)

\* What is above a set of nodes, step by step.
LEMMA AboveIs ==
  ASSUME NEW g, NEW below, IsFiniteSet(g.edges)
  PROVE  \E R : /\ R[0] = below /\ \A k \in 1..Cardinality(g.edges) : R[k] = Refs!AndAbove(g, R[k - 1])
                /\ Refs!Above(g, below) = R[Cardinality(g.edges)]
  <1> DEFINE n == Refs!Cardinality(g.edges)
             base == below
             Then(prev, k) == Refs!AndAbove(g, prev)
             Steps(f, m) == f = [k \in 0..m |-> IF k = 0 THEN base ELSE Then(f[k - 1], k)]
             all == CHOOSE f : Steps(f, n)
  <1>1. Refs!Above(g, below) = all[n] /\ n \in Nat
    <2>1. n \in Nat BY RefsCount, FS_CardinalityType
    <2> QED BY <2>1 DEF Refs!Above
  <1> HIDE DEF Then, base, n
  <1>2. \E f : Steps(f, n)
    <2> DEFINE Bad == {m \in Nat : ~ \E f : Steps(f, m)}
    <2>1. CASE Bad = {} BY <2>1, <1>1
    <2>2. CASE Bad # {}
      <3> HIDE DEF Steps
      <3>1. PICK m \in Bad : \A j \in Bad : m <= j BY <2>2, Lowest
      <3> USE DEF Steps
      <3>2. CASE m = 0
        <4>1. Steps([k \in 0..0 |-> base], 0) OBVIOUS
        <4> QED BY <4>1, <3>1, <3>2
      <3>3. CASE m # 0
        <4>1. m - 1 \in Nat /\ ~ (m <= m - 1) BY <3>1, <3>3
        <4>2. PICK f : Steps(f, m - 1)
          <5> HIDE DEF Steps
          <5> QED BY <4>1, <3>1
        <4> DEFINE h == [k \in 0..m |-> IF k = m THEN Then(f[m - 1], m) ELSE f[k]]
        <4>3. ASSUME NEW k \in 0..m PROVE h[k] = IF k = 0 THEN base ELSE Then(h[k - 1], k)
          <5>1. CASE k = 0 BY <5>1, <4>1, <4>2
          <5>2. CASE k # 0 /\ k # m
            <6>1. k \in 0..(m - 1) /\ k - 1 \in 0..(m - 1) /\ k - 1 # m BY <5>2, <4>1
            <6>2. h[k] = f[k] /\ h[k - 1] = f[k - 1] BY <6>1, <5>2
            <6>3. f[k] = Then(f[k - 1], k) BY <6>1, <5>2, <4>2
            <6> QED BY <6>2, <6>3, <5>2
          <5>3. CASE k = m
            <6>1. m - 1 \in 0..m /\ m - 1 # m BY <4>1
            <6>2. h[m - 1] = f[m - 1] /\ h[m] = Then(f[m - 1], m) BY <6>1
            <6> QED BY <6>2, <5>3, <3>3
          <5> QED BY <5>1, <5>2, <5>3
        <4>4. h = [k \in 0..m |-> h[k]] OBVIOUS
        <4>5. Steps(h, m)
          <5> HIDE DEF h
          <5> QED BY <4>3, <4>4
        <4> HIDE DEF Steps, h
        <4> QED BY <4>5, <3>1
      <3> QED BY <3>2, <3>3
    <2> QED BY <2>1, <2>2
  <1>3. Steps(all, n)
    <2> HIDE DEF Steps
    <2> QED BY <1>2
  <1>4. ASSUME NEW k \in 0..n PROVE all[k] = IF k = 0 THEN base ELSE Then(all[k - 1], k)
    <2> HIDE DEF all
    <2> QED BY <1>3
  <1> HIDE DEF all
  <1>5. all[0] = base /\ \A k \in 1..n : all[k] = Then(all[k - 1], k)
    <2>1. 0 \in 0..n /\ \A k \in 1..n : k \in 0..n /\ k # 0 BY <1>1
    <2> QED BY <1>4, <2>1
  <1>6. n = Cardinality(g.edges) BY RefsCount DEF n
  <1> QED BY <1>1, <1>5, <1>6 DEF Then, base

\* What a contract adds, edge by edge.
LEMMA ContractIs ==
  ASSUME NEW g, NEW c, NEW edges, Len(edges) \in Nat
  PROVE  \E G : /\ G[0] = Refs!WithItself(g, c)
                /\ \A k \in 1..Len(edges) : G[k] = Refs!WithEdge(G[k - 1], c, edges[k])
                /\ Refs!WithContract(g, c, edges) = G[Len(edges)]
  <1> DEFINE n == Len(edges)
             base == Refs!WithItself(g, c)
             Then(prev, k) == Refs!WithEdge(prev, c, edges[k])
             Steps(f, m) == f = [k \in 0..m |-> IF k = 0 THEN base ELSE Then(f[k - 1], k)]
             all == CHOOSE f : Steps(f, n)
  <1>1. Refs!WithContract(g, c, edges) = all[n] /\ n \in Nat BY DEF Refs!WithContract
  <1> HIDE DEF Then, base, n
  <1>2. \E f : Steps(f, n)
    <2> DEFINE Bad == {m \in Nat : ~ \E f : Steps(f, m)}
    <2>1. CASE Bad = {} BY <2>1, <1>1
    <2>2. CASE Bad # {}
      <3> HIDE DEF Steps
      <3>1. PICK m \in Bad : \A j \in Bad : m <= j BY <2>2, Lowest
      <3> USE DEF Steps
      <3>2. CASE m = 0
        <4>1. Steps([k \in 0..0 |-> base], 0) OBVIOUS
        <4> QED BY <4>1, <3>1, <3>2
      <3>3. CASE m # 0
        <4>1. m - 1 \in Nat /\ ~ (m <= m - 1) BY <3>1, <3>3
        <4>2. PICK f : Steps(f, m - 1)
          <5> HIDE DEF Steps
          <5> QED BY <4>1, <3>1
        <4> DEFINE h == [k \in 0..m |-> IF k = m THEN Then(f[m - 1], m) ELSE f[k]]
        <4>3. ASSUME NEW k \in 0..m PROVE h[k] = IF k = 0 THEN base ELSE Then(h[k - 1], k)
          <5>1. CASE k = 0 BY <5>1, <4>1, <4>2
          <5>2. CASE k # 0 /\ k # m
            <6>1. k \in 0..(m - 1) /\ k - 1 \in 0..(m - 1) /\ k - 1 # m BY <5>2, <4>1
            <6>2. h[k] = f[k] /\ h[k - 1] = f[k - 1] BY <6>1, <5>2
            <6>3. f[k] = Then(f[k - 1], k) BY <6>1, <5>2, <4>2
            <6> QED BY <6>2, <6>3, <5>2
          <5>3. CASE k = m
            <6>1. m - 1 \in 0..m /\ m - 1 # m BY <4>1
            <6>2. h[m - 1] = f[m - 1] /\ h[m] = Then(f[m - 1], m) BY <6>1
            <6> QED BY <6>2, <5>3, <3>3
          <5> QED BY <5>1, <5>2, <5>3
        <4>4. h = [k \in 0..m |-> h[k]] OBVIOUS
        <4>5. Steps(h, m)
          <5> HIDE DEF h
          <5> QED BY <4>3, <4>4
        <4> HIDE DEF Steps, h
        <4> QED BY <4>5, <3>1
      <3> QED BY <3>2, <3>3
    <2> QED BY <2>1, <2>2
  <1>3. Steps(all, n)
    <2> HIDE DEF Steps
    <2> QED BY <1>2
  <1>4. ASSUME NEW k \in 0..n PROVE all[k] = IF k = 0 THEN base ELSE Then(all[k - 1], k)
    <2> HIDE DEF all
    <2> QED BY <1>3
  <1> HIDE DEF all
  <1>5. all[0] = base /\ \A k \in 1..n : all[k] = Then(all[k - 1], k)
    <2>1. 0 \in 0..n /\ \A k \in 1..n : k \in 0..n /\ k # 0 BY <1>1
    <2> QED BY <1>4, <2>1
  <1> QED BY <1>1, <1>5 DEF Then, base, n

\* The graph, contract by contract.
LEMMA BuildIs ==
  ASSUME NEW runsOf, Len(Walked) \in Nat
  PROVE  \E G : /\ G[0] = Refs!NoGraph
                /\ \A k \in 1..Len(Walked) : G[k] = Refs!WithLoaded(G[k - 1], runsOf, Walked[k])
                /\ Refs!Build(runsOf) = G[Len(Walked)]
  <1> DEFINE n == Len(Walked)
             base == Refs!NoGraph
             Then(prev, k) == Refs!WithLoaded(prev, runsOf, Walked[k])
             Steps(f, m) == f = [k \in 0..m |-> IF k = 0 THEN base ELSE Then(f[k - 1], k)]
             all == CHOOSE f : Steps(f, n)
  <1>1. Refs!Build(runsOf) = all[n] /\ n \in Nat BY DEF Refs!Build
  <1> HIDE DEF Then, base, n
  <1>2. \E f : Steps(f, n)
    <2> DEFINE Bad == {m \in Nat : ~ \E f : Steps(f, m)}
    <2>1. CASE Bad = {} BY <2>1, <1>1
    <2>2. CASE Bad # {}
      <3> HIDE DEF Steps
      <3>1. PICK m \in Bad : \A j \in Bad : m <= j BY <2>2, Lowest
      <3> USE DEF Steps
      <3>2. CASE m = 0
        <4>1. Steps([k \in 0..0 |-> base], 0) OBVIOUS
        <4> QED BY <4>1, <3>1, <3>2
      <3>3. CASE m # 0
        <4>1. m - 1 \in Nat /\ ~ (m <= m - 1) BY <3>1, <3>3
        <4>2. PICK f : Steps(f, m - 1)
          <5> HIDE DEF Steps
          <5> QED BY <4>1, <3>1
        <4> DEFINE h == [k \in 0..m |-> IF k = m THEN Then(f[m - 1], m) ELSE f[k]]
        <4>3. ASSUME NEW k \in 0..m PROVE h[k] = IF k = 0 THEN base ELSE Then(h[k - 1], k)
          <5>1. CASE k = 0 BY <5>1, <4>1, <4>2
          <5>2. CASE k # 0 /\ k # m
            <6>1. k \in 0..(m - 1) /\ k - 1 \in 0..(m - 1) /\ k - 1 # m BY <5>2, <4>1
            <6>2. h[k] = f[k] /\ h[k - 1] = f[k - 1] BY <6>1, <5>2
            <6>3. f[k] = Then(f[k - 1], k) BY <6>1, <5>2, <4>2
            <6> QED BY <6>2, <6>3, <5>2
          <5>3. CASE k = m
            <6>1. m - 1 \in 0..m /\ m - 1 # m BY <4>1
            <6>2. h[m - 1] = f[m - 1] /\ h[m] = Then(f[m - 1], m) BY <6>1
            <6> QED BY <6>2, <5>3, <3>3
          <5> QED BY <5>1, <5>2, <5>3
        <4>4. h = [k \in 0..m |-> h[k]] OBVIOUS
        <4>5. Steps(h, m)
          <5> HIDE DEF h
          <5> QED BY <4>3, <4>4
        <4> HIDE DEF Steps, h
        <4> QED BY <4>5, <3>1
      <3> QED BY <3>2, <3>3
    <2> QED BY <2>1, <2>2
  <1>3. Steps(all, n)
    <2> HIDE DEF Steps
    <2> QED BY <1>2
  <1>4. ASSUME NEW k \in 0..n PROVE all[k] = IF k = 0 THEN base ELSE Then(all[k - 1], k)
    <2> HIDE DEF all
    <2> QED BY <1>3
  <1> HIDE DEF all
  <1>5. all[0] = base /\ \A k \in 1..n : all[k] = Then(all[k - 1], k)
    <2>1. 0 \in 0..n /\ \A k \in 1..n : k \in 0..n /\ k # 0 BY <1>1
    <2> QED BY <1>4, <2>1
  <1> QED BY <1>1, <1>5 DEF Then, base, n

\* Who refers to something above a set is above it too: paths are no longer than there are edges.
LEMMA AboveClosed ==
  ASSUME NEW g, NEW below, IsFiniteSet(g.edges)
  PROVE  /\ \A x \in below : x \in Refs!Above(g, below)
         /\ \A e \in g.edges : e.target \in Refs!Above(g, below) => e.source \in Refs!Above(g, below)
  <1> DEFINE n == Cardinality(g.edges)
  <1>1. n \in Nat BY FS_CardinalityType
  <1>2. PICK R : /\ R[0] = below /\ \A k \in 1..n : R[k] = Refs!AndAbove(g, R[k - 1])
                 /\ Refs!Above(g, below) = R[n]
    BY AboveIs
  <1> DEFINE U(k) == {e \in g.edges : e.target \in R[k]}
             Closed(k) == \A e \in g.edges : e.target \in R[k] => e.source \in R[k]
             Good(k) == /\ \A x \in below : x \in R[k]
                        /\ Closed(k) \/ Cardinality(U(k)) >= k + 1
  <1>3. ASSUME NEW k \in 1..n, NEW x
        PROVE  x \in R[k] <=> x \in R[k - 1] \/ \E e \in g.edges : e.target \in R[k - 1] /\ x = e.source
    BY <1>2 DEF Refs!AndAbove
  <1>4. \A k : IsFiniteSet(U(k)) /\ Cardinality(U(k)) \in Nat /\ Cardinality(U(k)) <= n
    <2> TAKE k
    <2>1. U(k) \in SUBSET g.edges OBVIOUS
    <2> HIDE DEF U
    <2> QED BY <2>1, FS_Subset, FS_CardinalityType
  <1> HIDE DEF n
  <1>5. ASSUME NEW k, NEW T \in SUBSET U(k), NEW e \in U(k), e \notin T, NEW m \in Nat, Cardinality(T) >= m
        PROVE  Cardinality(U(k)) >= m + 1
    <2>1. T \in SUBSET U(k) /\ T \cup {e} \in SUBSET U(k) OBVIOUS
    <2> HIDE DEF U
    <2>2. IsFiniteSet(T) /\ Cardinality(T) \in Nat BY <1>4, <2>1, FS_Subset, FS_CardinalityType
    <2>3. Cardinality(T \cup {e}) = Cardinality(T) + 1 BY <1>5, <2>2, FS_AddElement
    <2>4. Cardinality(T \cup {e}) <= Cardinality(U(k)) BY <1>4, <2>1, FS_Subset
    <2>5. Cardinality(U(k)) \in Nat BY <1>4
    <2> HIDE DEF Good, Closed
    <2> QED BY <2>2, <2>3, <2>4, <2>5, <1>5
  <1>6. Good(0)
    <2>1. CASE Closed(0) BY <2>1, <1>2
    <2>2. CASE ~ Closed(0)
      <3>1. PICK e \in U(0) : TRUE BY <2>2
      <3>2. Cardinality({}) >= 0 /\ {} \in SUBSET U(0) /\ e \notin {} BY FS_EmptySet
      <3> HIDE DEF U
      <3>3. Cardinality(U(0)) >= 0 + 1 BY <1>5, <3>1, <3>2
      <3> QED BY <3>3, <1>2
    <2> QED BY <2>1, <2>2
  <1>7. ASSUME NEW k \in 1..n, Good(k - 1) PROVE Good(k)
    <2>1. \A x \in below : x \in R[k] BY <1>3, <1>7
    <2>2. CASE Closed(k - 1)
      <3>1. \A x : x \in R[k] <=> x \in R[k - 1] BY <1>3, <2>2
      <3>2. Closed(k) BY <2>2, <3>1
      <3> QED BY <2>1, <3>2
    <2>3. CASE ~ Closed(k - 1) /\ ~ Closed(k)
      <3>1. PICK e \in g.edges : e.target \in R[k] /\ e.source \notin R[k] BY <2>3
      <3>2. e \in U(k) /\ e \notin U(k - 1) BY <3>1, <1>3
      <3>3. U(k - 1) \in SUBSET U(k) BY <1>3
      <3>4. Cardinality(U(k - 1)) >= (k - 1) + 1 BY <1>7, <2>3
      <3>5. k \in Nat /\ (k - 1) + 1 = k BY <1>1
      <3> HIDE DEF U
      <3>6. Cardinality(U(k)) >= k + 1
        <4> HIDE DEF Good, Closed
        <4> QED BY <1>5, <3>2, <3>3, <3>4, <3>5
      <3> QED BY <2>1, <3>6
    <2>4. CASE Closed(k) BY <2>1, <2>4
    <2> QED BY <2>2, <2>3, <2>4
  <1>8. Good(n)
    <2> DEFINE Bad == {k \in 0..n : ~ Good(k)}
    <2> HIDE DEF Good
    <2> SUFFICES ASSUME Bad # {} PROVE FALSE BY <1>1
    <2>1. PICK k \in Bad : \A j \in Bad : k <= j
      <3>1. Bad \in SUBSET Nat OBVIOUS
      <3> HIDE DEF Bad
      <3> QED BY <3>1, Lowest
    <2>2. k \in 1..n /\ k - 1 \in 0..n /\ ~ (k <= k - 1)
      <3>1. k \in 0..n /\ k # 0 BY <2>1, <1>6
      <3> QED BY <3>1, <1>1
    <2>3. Good(k - 1) BY <2>1, <2>2
    <2> QED BY <1>7, <2>1, <2>2, <2>3
  <1>9. Closed(n)
    <2>1. Cardinality(U(n)) \in Nat /\ Cardinality(U(n)) <= n BY <1>4
    <2> HIDE DEF U, Closed
    <2> QED BY <1>1, <1>8, <2>1
  <1> QED BY <1>2, <1>8, <1>9

(* What a contract adds to the graph. *)

IsGraph(g) == /\ g \in [nodes : {g.nodes}, edges : {g.edges}, labels : {g.labels}, unplaced : {g.unplaced}]
              /\ IsFiniteSet(g.edges)

\* A label stands for the file that is called so.
LabelsOK(c, g) == \A l \in g.labels : \E f \in Refs!Named : l = <<Refs!Label(c, f), f>>

\* The graph has the edge of a bundling.
EdgeIn(g, r, j) ==
  \A f \in Refs!Named : r.edges[j].source = Refs!Label(r.entry, f) =>
    \E x \in g.edges : x.source = f /\ x.target = Refs!Join(f, r.edges[j].target)

LEMMA LabelOfItself ==
  ASSUME NEW c \in Seq(STRING), c # <<>>, ~ Refs!Remote(c)
  PROVE  Refs!Label(c, c) = <<Refs!Last(c)>>
  <1> DEFINE n == Len(c)
             home == Refs!Front(c)
  <1>1. n \in Nat \ {0} /\ Refs!Last(c) = c[n] BY DEF Refs!Last
  <1>2. home = [k \in 1..(n - 1) |-> c[k]] BY <1>1 DEF Refs!Front
  <1>3. home \in Seq(STRING) /\ Len(home) = n - 1 /\ \A k \in 1..(n - 1) : home[k] = c[k]
    <2>1. \A k \in 1..(n - 1) : c[k] \in STRING BY <1>1
    <2>2. home \in [1..(n - 1) -> STRING] BY <1>2, <2>1
    <2> QED BY <1>1, <1>2, <2>2
  <1> HIDE DEF home
  <1>4. Refs!IsPrefix(home, c) BY <1>1, <1>3 DEF Refs!IsPrefix
  <1>5. SubSeq(c, Len(home) + 1, Len(c)) = <<Refs!Last(c)>>
    <2>1. Len(home) + 1 = n BY <1>1, <1>3
    <2>2. SubSeq(c, n, n) = <<c[n]>>
      <3>1. SubSeq(c, n, n) = [i \in 1..(n - n + 1) |-> c[n + i - 1]] OBVIOUS
      <3>2. n - n + 1 = 1 /\ n + 1 - 1 = n BY <1>1
      <3>3. \A i \in 1..1 : i = 1 OBVIOUS
      <3>4. SubSeq(c, n, n) = [i \in 1..1 |-> c[n]] BY <3>1, <3>2, <3>3
      <3>5. <<c[n]>> = [i \in 1..1 |-> c[n]] OBVIOUS
      <3> QED BY <3>4, <3>5
    <2> QED BY <1>1, <2>1, <2>2
  <1> QED BY <1>4, <1>5 DEF Refs!Label, home

LEMMA WithEdgeGrows ==
  ASSUME NEW g, IsGraph(g), NEW c, NEW e
  PROVE  LET q == Refs!WithEdge(g, c, e)
         IN IsGraph(q) /\ \A x \in g.edges : x \in q.edges
  <1> DEFINE q == Refs!WithEdge(g, c, e)
             source == (CHOOSE l \in g.labels : l[1] = e.source)[2]
             target == Refs!Join(source, e.target)
             new == [source |-> source, target |-> target, refused |-> e.refused]
             added == IF \E x \in g.edges : x.source = source /\ x.target = target THEN {} ELSE {new}
  <1>1. CASE ~ Refs!Placed(g.labels, e.source)
    <2>1. q = [g EXCEPT !.unplaced = @ \cup {<<c, e.source>>}] BY <1>1 DEF Refs!WithEdge
    <2> HIDE DEF q
    <2>2. q.edges = g.edges /\ q \in [nodes : {q.nodes}, edges : {q.edges}, labels : {q.labels}, unplaced : {q.unplaced}]
      BY <2>1 DEF IsGraph
    <2> QED BY <2>2 DEF IsGraph, q
  <1>2. CASE Refs!Placed(g.labels, e.source)
    <2>1. q.edges = g.edges \cup added
          /\ q \in [nodes : {q.nodes}, edges : {q.edges}, labels : {q.labels}, unplaced : {q.unplaced}]
      BY <1>2 DEF Refs!WithEdge
    <2> HIDE DEF q
    <2>2. added = {} \/ added = {new} OBVIOUS
    <2> HIDE DEF added, new
    <2>3. IsFiniteSet(g.edges \cup added)
      <3>1. CASE added = {} BY <3>1 DEF IsGraph
      <3>2. CASE added = {new} BY <3>2, FS_AddElement DEF IsGraph
      <3> QED BY <2>2, <3>1, <3>2
    <2> QED BY <2>1, <2>3 DEF IsGraph, q
  <1> QED BY <1>1, <1>2

\* An edge from a file that is placed.
LEMMA WithEdgePlaces ==
  ASSUME Refs!TreeAssumption, NEW c, IsContract(c), NEW g, IsGraph(g), LabelsOK(c, g),
         NEW f \in Refs!Named, NEW e, e.source = Refs!Label(c, f), Refs!Placed(g.labels, Refs!Label(c, f)),
         e.resolved # None => Refs!Join(f, e.target) \in Refs!Named
                              /\ e.resolved = Refs!Label(c, Refs!Join(f, e.target))
  PROVE  LET q == Refs!WithEdge(g, c, e)
         IN /\ LabelsOK(c, q) /\ \A l \in g.labels : l \in q.labels
            /\ \E x \in q.edges : x.source = f /\ x.target = Refs!Join(f, e.target)
            /\ e.resolved # None => Refs!Placed(q.labels, e.resolved)
  <1> DEFINE q == Refs!WithEdge(g, c, e)
             chosen == CHOOSE l \in g.labels : l[1] = e.source
             target == Refs!Join(f, e.target)
             new == [source |-> f, target |-> target, refused |-> e.refused]
             added == IF \E x \in g.edges : x.source = f /\ x.target = target THEN {} ELSE {new}
             named == IF e.resolved = None \/ Refs!Placed(g.labels, e.resolved) THEN {} ELSE {<<e.resolved, target>>}
  <1>1. \A h, i \in Refs!Named : Refs!Label(c, h) = Refs!Label(c, i) => h = i
    <2>1. PICK k \in DOMAIN Walked : Walked[k] = c BY DEF IsContract
    <2> QED BY <2>1 DEF Refs!TreeAssumption
  <1>2. chosen \in g.labels /\ chosen[1] = e.source BY DEF Refs!Placed
  <1> HIDE DEF chosen
  <1>3. chosen[2] = f
    <2>1. PICK h \in Refs!Named : chosen = <<Refs!Label(c, h), h>> BY <1>2 DEF LabelsOK
    <2>2. chosen[1] = Refs!Label(c, h) /\ chosen[2] = h BY <2>1
    <2> QED BY <1>1, <1>2, <2>2
  <1>4. q.edges = g.edges \cup added /\ q.labels = g.labels \cup named
    BY <1>3 DEF Refs!WithEdge, chosen
  <1> HIDE DEF q
  <1>5. \E x \in q.edges : x.source = f /\ x.target = target
    <2>1. new.source = f /\ new.target = target OBVIOUS
    <2> HIDE DEF new
    <2> QED BY <1>4, <2>1
  <1>6. LabelsOK(c, q)
    <2> SUFFICES ASSUME NEW l \in q.labels PROVE \E h \in Refs!Named : l = <<Refs!Label(c, h), h>> BY DEF LabelsOK
    <2>1. CASE l \in g.labels BY <2>1 DEF LabelsOK
    <2>2. CASE l \in named
      <3>1. e.resolved # None /\ l = <<e.resolved, target>> BY <2>2
      <3> QED BY <3>1
    <2> QED BY <1>4, <2>1, <2>2
  <1>7. ASSUME e.resolved # None PROVE Refs!Placed(q.labels, e.resolved)
    <2>1. CASE Refs!Placed(g.labels, e.resolved) BY <2>1, <1>4 DEF Refs!Placed
    <2>2. CASE ~ Refs!Placed(g.labels, e.resolved)
      <3>1. <<e.resolved, target>> \in q.labels /\ <<e.resolved, target>>[1] = e.resolved BY <2>2, <1>4, <1>7
      <3> QED BY <3>1 DEF Refs!Placed
    <2> QED BY <2>1, <2>2
  <1> QED BY <1>4, <1>5, <1>6, <1>7 DEF q

\* A contract that was loaded has all its edges in the graph from then on.
LEMMA ContractAdds ==
  ASSUME Refs!TreeAssumption, NEW r, BundleSound(r), NEW g, IsGraph(g)
  PROVE  LET q == Refs!WithContract(g, r.entry, r.edges)
         IN /\ IsGraph(q) /\ \A x \in g.edges : x \in q.edges
            /\ \A j \in 1..Len(r.edges) : EdgeIn(q, r, j)
  <1> DEFINE c == r.entry
             n == Len(r.edges)
             q == Refs!WithContract(g, c, r.edges)
  <1>1. n \in Nat BY LengthsAre DEF BundleSound, EdgesOK
  <1>2. PICK G : /\ G[0] = Refs!WithItself(g, c)
                 /\ \A k \in 1..n : G[k] = Refs!WithEdge(G[k - 1], c, r.edges[k])
                 /\ q = G[n]
    <2> DEFINE es == r.edges
    <2>1. Len(es) \in Nat BY <1>1
    <2> HIDE DEF es
    <2>2. \E G : /\ G[0] = Refs!WithItself(g, c)
                 /\ \A k \in 1..Len(es) : G[k] = Refs!WithEdge(G[k - 1], c, es[k])
                 /\ Refs!WithContract(g, c, es) = G[Len(es)]
      BY <2>1, ContractIs
    <2> QED BY <2>2 DEF es
  <1>3. IsContract(c) /\ c \in Refs!Named
    <2>1. IsContract(c) BY DEF BundleSound, ReadOK, IsContract
    <2> QED BY <2>1, EntryIsNamed DEF BundleSound
  <1>4. /\ c \in Seq(STRING) /\ c # <<>> /\ ~ Refs!Remote(c)
        /\ \A f, h \in Refs!Named : Refs!Label(c, f) = Refs!Label(c, h) => f = h
        /\ \A f \in Refs!Named : Refs!Label(c, f) # None
    <2>1. PICK k \in DOMAIN Walked : Walked[k] = c BY <1>3 DEF IsContract
    <2>2. Walked \in Seq(Seq(STRING)) BY DEF Refs!TreeAssumption
    <2>3. Walked[k] \in Seq(STRING) BY <2>2
    <2> QED BY <2>1, <2>3 DEF Refs!TreeAssumption
  <1> DEFINE Good(k) == /\ IsGraph(G[k]) /\ LabelsOK(c, G[k])
                        /\ \A x \in g.edges : x \in G[k].edges
                        /\ \A f \in Refs!Named : LedTo(r, f, k) => Refs!Placed(G[k].labels, Refs!Label(c, f))
                        /\ \A j \in 1..k : EdgeIn(G[k], r, j)
  <1> HIDE DEF q, n, c
  <1>5. Good(0)
    <2>1. /\ G[0].edges = g.edges /\ G[0].labels = {<<<<Refs!Last(c)>>, c>>}
          /\ G[0] \in [nodes : {G[0].nodes}, edges : {G[0].edges}, labels : {G[0].labels}, unplaced : {G[0].unplaced}]
      BY <1>2 DEF Refs!WithItself, IsGraph
    <2>2. IsGraph(G[0]) BY <2>1 DEF IsGraph
    <2>3. Refs!Label(c, c) = <<Refs!Last(c)>> BY <1>4, LabelOfItself
    <2>4. G[0].labels = {<<Refs!Label(c, c), c>>} BY <2>1, <2>3
    <2>5. LabelsOK(c, G[0]) BY <2>4, <1>3 DEF LabelsOK
    <2>6. ASSUME NEW f \in Refs!Named, LedTo(r, f, 0) PROVE Refs!Placed(G[0].labels, Refs!Label(c, f))
      <3>1. f = c BY <2>6 DEF LedTo, c
      <3>2. PICK pair : pair = <<Refs!Label(c, c), c>> OBVIOUS
      <3>3. pair[1] = Refs!Label(c, c) /\ pair \in G[0].labels BY <2>4, <3>2
      <3>4. Refs!Placed(G[0].labels, Refs!Label(c, c)) BY <3>3 DEF Refs!Placed
      <3> QED BY <3>1, <3>4
    <2>7. \A j \in 1..0 : FALSE OBVIOUS
    <2> QED BY <2>1, <2>2, <2>5, <2>6, <2>7
  <1>6. ASSUME NEW k \in 1..n, Good(k - 1) PROVE Good(k)
    <2> DEFINE e == r.edges[k]
               old == G[k - 1]
               new == G[k]
    <2>1. new = Refs!WithEdge(old, c, e) BY <1>2
    <2>2. k - 1 \in Nat /\ k \in Nat BY <1>1
    <2>3. EdgeOK(r, e, k - 1) BY DEF BundleSound, EdgesOK, n
    <2>4. PICK f \in Refs!Named :
            /\ e.source = Refs!Label(c, f) /\ LedTo(r, f, k - 1)
            /\ e.resolved # None =>
                 /\ Refs!Join(f, e.target) \in Refs!Named
                 /\ e.resolved = Refs!Label(c, Refs!Join(f, e.target))
      BY <2>3 DEF EdgeOK, c
    <2>5. /\ IsGraph(old) /\ LabelsOK(c, old)
          /\ \A x \in g.edges : x \in old.edges
          /\ \A h \in Refs!Named : LedTo(r, h, k - 1) => Refs!Placed(old.labels, Refs!Label(c, h))
          /\ \A j \in 1..(k - 1) : EdgeIn(old, r, j)
      BY <1>6
    <2>10. Refs!Placed(old.labels, Refs!Label(c, f)) BY <2>4, <2>5
    <2> HIDE DEF old, new
    <2>6. IsGraph(new) /\ \A x \in old.edges : x \in new.edges BY <2>1, <2>5, WithEdgeGrows
    <2>7. /\ LabelsOK(c, new) /\ \A l \in old.labels : l \in new.labels
          /\ \E x \in new.edges : x.source = f /\ x.target = Refs!Join(f, e.target)
          /\ e.resolved # None => Refs!Placed(new.labels, e.resolved)
      <3> HIDE DEF e
      <3> QED BY <1>3, <2>1, <2>4, <2>5, <2>10, WithEdgePlaces
    <2>8. ASSUME NEW h \in Refs!Named, LedTo(r, h, k) PROVE Refs!Placed(new.labels, Refs!Label(c, h))
      <3>1. CASE LedTo(r, h, k - 1) BY <3>1, <2>5, <2>7 DEF Refs!Placed
      <3>2. CASE ~ LedTo(r, h, k - 1)
        <4>1. h # r.entry /\ \E j \in 1..k : r.edges[j].resolved = Refs!Label(c, h) BY <2>8, <3>2 DEF LedTo, c
        <4>2. PICK j \in 1..k : r.edges[j].resolved = Refs!Label(c, h) BY <4>1
        <4>3. j = k
          <5>1. j \in 1..(k - 1) \/ j = k BY <2>2
          <5>2. j \notin 1..(k - 1) BY <3>2, <4>2 DEF LedTo, c
          <5> QED BY <5>1, <5>2
        <4> QED BY <4>2, <4>3, <2>7, <1>4
      <3> QED BY <3>1, <3>2
    <2>9. ASSUME NEW j \in 1..k PROVE EdgeIn(new, r, j)
      <3>1. CASE j = k
        <4> SUFFICES ASSUME NEW h \in Refs!Named, e.source = Refs!Label(c, h)
                     PROVE  \E x \in new.edges : x.source = h /\ x.target = Refs!Join(h, e.target)
          BY <3>1 DEF EdgeIn, c
        <4>1. h = f BY <1>4, <2>4
        <4> QED BY <4>1, <2>7
      <3>2. CASE j # k
        <4>1. j \in 1..(k - 1) BY <3>2, <2>2
        <4> QED BY <4>1, <2>5, <2>6 DEF EdgeIn
      <3> QED BY <3>1, <3>2
    <2> QED BY <2>5, <2>6, <2>7, <2>8, <2>9 DEF new
  <1>7. Good(n)
    <2> DEFINE Bad == {k \in 0..n : ~ Good(k)}
    <2> HIDE DEF Good
    <2> SUFFICES ASSUME Bad # {} PROVE FALSE BY <1>1 DEF n
    <2>1. PICK k \in Bad : \A j \in Bad : k <= j
      <3>1. Bad \in SUBSET Nat OBVIOUS
      <3> HIDE DEF Bad
      <3> QED BY <3>1, Lowest
    <2>2. k \in 1..n /\ k - 1 \in 0..n /\ ~ (k <= k - 1)
      <3>1. k \in 0..n /\ k # 0 BY <2>1, <1>5
      <3> QED BY <3>1, <1>1
    <2>3. Good(k - 1) BY <2>1, <2>2
    <2> QED BY <1>6, <2>1, <2>2, <2>3
  <1> QED BY <1>2, <1>7 DEF q, n, c

LEMMA BuildHolds ==
  ASSUME Refs!TreeAssumption, RefsInv
  PROVE  /\ IsFiniteSet(Refs!Build(loaded).edges)
         /\ \A c \in DOMAIN loaded : loaded[c] # None =>
              \A j \in 1..Len(loaded[c].edges) : EdgeIn(Refs!Build(loaded), loaded[c], j)
  <1> DEFINE n == Len(Walked)
             q == Refs!Build(loaded)
             There(c) == c \in DOMAIN loaded /\ loaded[c] # None
             HasEdges(g, c) == \A j \in 1..Len(loaded[c].edges) : EdgeIn(g, loaded[c], j)
  <1>1. n \in Nat /\ DOMAIN Walked = 1..n
    <2>1. Walked \in Seq(Seq(STRING)) BY DEF Refs!TreeAssumption
    <2> QED BY <2>1
  <1>2. PICK G : /\ G[0] = Refs!NoGraph
                 /\ \A k \in 1..n : G[k] = Refs!WithLoaded(G[k - 1], loaded, Walked[k])
                 /\ q = G[n]
    BY <1>1, BuildIs
  <1> DEFINE Good(k) == IsGraph(G[k]) /\ \A m \in 1..k : There(Walked[m]) => HasEdges(G[k], Walked[m])
  <1> HIDE DEF q, n
  <1>3. Good(0)
    <2>1. /\ G[0].edges = {}
          /\ G[0] \in [nodes : {G[0].nodes}, edges : {G[0].edges}, labels : {G[0].labels}, unplaced : {G[0].unplaced}]
      BY <1>2 DEF Refs!NoGraph
    <2>2. IsGraph(G[0]) BY <2>1, FS_EmptySet DEF IsGraph
    <2>3. \A m \in 1..0 : FALSE OBVIOUS
    <2> QED BY <2>2, <2>3
  <1>4. ASSUME NEW k \in 1..n, Good(k - 1) PROVE Good(k)
    <2> DEFINE c == Walked[k]
               old == G[k - 1]
               new == G[k]
    <2>1. new = Refs!WithLoaded(old, loaded, c) BY <1>2
    <2>2. IsGraph(old) /\ \A m \in 1..(k - 1) : There(Walked[m]) => HasEdges(old, Walked[m]) BY <1>4
    <2>3. ASSUME There(c)
          PROVE  IsGraph(new) /\ (\A x \in old.edges : x \in new.edges) /\ HasEdges(new, c)
      <3>1. BundleSound(loaded[c]) /\ loaded[c].entry = c BY <2>3 DEF RefsInv, BundleInv
      <3>2. new = Refs!WithContract(old, c, loaded[c].edges) BY <2>1, <2>3 DEF Refs!WithLoaded
      <3> HIDE DEF new, old, c
      <3> QED BY <2>2, <3>1, <3>2, ContractAdds
    <2>4. ~ There(c) => new = old BY <2>1 DEF Refs!WithLoaded
    <2> HIDE DEF new, old
    <2>5. IsGraph(new) /\ (\A x \in old.edges : x \in new.edges) BY <2>2, <2>3, <2>4
    <2>6. ASSUME NEW m \in 1..k, There(Walked[m]) PROVE HasEdges(new, Walked[m])
      <3>1. m \in 1..(k - 1) \/ m = k BY <1>1
      <3>2. CASE m \in 1..(k - 1)
        <4>1. HasEdges(old, Walked[m]) BY <3>2, <2>2, <2>6
        <4> QED BY <4>1, <2>5 DEF EdgeIn
      <3>3. CASE m = k BY <3>3, <2>3, <2>6
      <3> QED BY <3>1, <3>2, <3>3
    <2> QED BY <2>5, <2>6 DEF new
  <1>5. Good(n)
    <2> DEFINE Bad == {k \in 0..n : ~ Good(k)}
    <2> HIDE DEF Good
    <2> SUFFICES ASSUME Bad # {} PROVE FALSE BY <1>1 DEF n
    <2>1. PICK k \in Bad : \A j \in Bad : k <= j
      <3>1. Bad \in SUBSET Nat OBVIOUS
      <3> HIDE DEF Bad
      <3> QED BY <3>1, Lowest
    <2>2. k \in 1..n /\ k - 1 \in 0..n /\ ~ (k <= k - 1)
      <3>1. k \in 0..n /\ k # 0 BY <2>1, <1>3
      <3> QED BY <3>1, <1>1
    <2>3. Good(k - 1) BY <2>1, <2>2
    <2> QED BY <1>4, <2>1, <2>2, <2>3
  <1>6. ASSUME NEW c, There(c) PROVE HasEdges(q, c)
    <2>1. PICK m \in DOMAIN Walked : Walked[m] = c BY <1>6 DEF RefsInv, IsContract
    <2> QED BY <1>1, <1>2, <1>5, <1>6, <2>1
  <1>7. IsFiniteSet(q.edges) BY <1>2, <1>5 DEF IsGraph
  <1> QED BY <1>6, <1>7 DEF q

\* Up from a file that references of a contract led to, there is the contract.
LEMMA UpToContract ==
  ASSUME Refs!TreeAssumption, RefsInv, NEW c \in DOMAIN loaded, loaded[c] # None, NEW A,
         \A e \in Refs!Build(loaded).edges : e.target \in A => e.source \in A
  PROVE  \A k \in 0..Len(loaded[c].edges) : \A f \in Refs!Named : LedTo(loaded[c], f, k) /\ f \in A => c \in A
  <1> DEFINE r == loaded[c]
             n == Len(r.edges)
             Good(k) == \A f \in Refs!Named : LedTo(r, f, k) /\ f \in A => c \in A
             Bad == {k \in 0..n : ~ Good(k)}
  <1>1. BundleSound(r) /\ r.entry = c BY DEF RefsInv, BundleInv
  <1>2. n \in Nat BY <1>1, LengthsAre DEF BundleSound, EdgesOK
  <1>3. \A j \in 1..n : EdgeIn(Refs!Build(loaded), r, j) BY BuildHolds
  <1>4. \A f, h \in Refs!Named : Refs!Label(c, f) = Refs!Label(c, h) => f = h
    <2>1. PICK k \in DOMAIN Walked : Walked[k] = c BY DEF RefsInv, IsContract
    <2> QED BY <2>1 DEF Refs!TreeAssumption
  <1>5. \A f \in Refs!Named : Refs!Label(c, f) # None
    <2>1. PICK k \in DOMAIN Walked : Walked[k] = c BY DEF RefsInv, IsContract
    <2> QED BY <2>1 DEF Refs!TreeAssumption
  <1> HIDE DEF r
  <1> SUFFICES ASSUME Bad # {} PROVE FALSE BY DEF r
  <1>6. PICK k \in Bad : \A j \in Bad : k <= j
    <2>1. Bad \in SUBSET Nat BY <1>2
    <2> HIDE DEF Bad
    <2> QED BY <2>1, Lowest
  <1>7. PICK f \in Refs!Named : LedTo(r, f, k) /\ f \in A /\ c \notin A BY <1>6
  <1>8. f # c BY <1>7
  <1>9. PICK j \in 1..k : r.edges[j].resolved = Refs!Label(c, f) BY <1>1, <1>7, <1>8 DEF LedTo
  <1>10. k \in 0..n /\ j \in 1..n /\ j - 1 \in 0..n /\ ~ (k <= j - 1)
    <2>1. k \in 0..n BY <1>6
    <2> QED BY <1>2, <2>1
  <1>11. EdgeOK(r, r.edges[j], j - 1) BY <1>1, <1>10 DEF BundleSound, EdgesOK
  <1>12. PICK h \in Refs!Named :
           /\ r.edges[j].source = Refs!Label(c, h) /\ LedTo(r, h, j - 1)
           /\ r.edges[j].resolved # None =>
                /\ Refs!Join(h, r.edges[j].target) \in Refs!Named
                /\ r.edges[j].resolved = Refs!Label(c, Refs!Join(h, r.edges[j].target))
    BY <1>1, <1>11 DEF EdgeOK
  <1>13. f = Refs!Join(h, r.edges[j].target) BY <1>4, <1>5, <1>9, <1>12
  <1>14. PICK x \in Refs!Build(loaded).edges : x.source = h /\ x.target = f
    BY <1>1, <1>3, <1>10, <1>12, <1>13 DEF EdgeIn
  <1>15. h \in A BY <1>7, <1>14
  <1>16. Good(j - 1) BY <1>6, <1>10
  <1> QED BY <1>7, <1>12, <1>15, <1>16

\* Every file a reference leads to has the contract among its dependents.
LEMMA NobodyMissed ==
  ASSUME Refs!TreeAssumption, RefsInv, graph # None, NEW c \in DOMAIN loaded, loaded[c] # None
  PROVE  Refs!NobodyIsMissed(loaded[c])
  <1> DEFINE r == loaded[c]
  <1>1. BundleInv(r) /\ r.stack = <<>> /\ r.entry = c BY DEF RefsInv
  <1>2. BundleSound(r) /\ Attended(r) BY <1>1 DEF BundleInv
  <1>3. graph.edges = Refs!Build(loaded).edges BY DEF RefsInv
  <1>4. IsFiniteSet(graph.edges) /\ \A j \in 1..Len(r.edges) : EdgeIn(Refs!Build(loaded), r, j)
    BY <1>3, BuildHolds
  <1>5. \A f, h \in Refs!Named : Refs!Label(c, f) = Refs!Label(c, h) => f = h
    <2>1. PICK k \in DOMAIN Walked : Walked[k] = c BY DEF RefsInv, IsContract
    <2> QED BY <2>1 DEF Refs!TreeAssumption
  <1>6. ASSUME <<c, "contract">> \in graph.nodes, \A x \in r.findings : x.rule # "deep",
               NEW f, NEW at, f \in DOMAIN r.original, at \in Here(r, f), Settled(r, f, at),
               Written(r, f, at).kind # "here"
        PROVE  c \in Refs!DependentsOf(graph, Refs!Join(PathOf(r, f), Written(r, f, at)))
    <2> DEFINE was == Written(r, f, at)
               path == PathOf(r, f)
               node == Refs!Join(path, was)
               below == Refs!Parents(graph, node)
               A == Refs!Above(graph, below)
    <2>1. HasEdge(r, path, was) BY <1>6 DEF Settled, Deep
    <2>2. path \in Refs!Named BY <1>2, <1>6, ReadIsNamed DEF BundleSound
    <2> HIDE DEF was, path
    <2>3. PICK k \in 1..Len(r.edges) : r.edges[k].source = Refs!Label(c, path) /\ r.edges[k].target = was
      BY <1>1, <2>1 DEF HasEdge
    <2>4. EdgeOK(r, r.edges[k], k - 1) BY <1>2 DEF BundleSound, EdgesOK
    <2>5. LedTo(r, path, k - 1)
      <3>1. PICK h \in Refs!Named : r.edges[k].source = Refs!Label(c, h) /\ LedTo(r, h, k - 1)
        BY <1>1, <2>4 DEF EdgeOK
      <3>2. h = path BY <1>5, <2>2, <2>3, <3>1
      <3> QED BY <3>1, <3>2
    <2>6. PICK edge \in graph.edges : edge.source = path /\ edge.target = node
      BY <1>1, <1>3, <1>4, <2>2, <2>3 DEF EdgeIn
    <2>7. path \in below BY <2>6 DEF Refs!Parents
    <2> HIDE DEF below, A, node
    <2>8. (\A x \in below : x \in A) /\ \A e \in graph.edges : e.target \in A => e.source \in A
      BY <1>4, AboveClosed DEF A
    <2>9. \A j \in 0..Len(r.edges) : \A h \in Refs!Named : LedTo(r, h, j) /\ h \in A => c \in A
      BY <1>3, <2>8, UpToContract
    <2>10. k - 1 \in 0..Len(r.edges)
      <3>1. Len(r.edges) \in Nat BY <1>2, LengthsAre DEF BundleSound, EdgesOK
      <3> QED BY <3>1
    <2>11. c \in A BY <2>2, <2>5, <2>7, <2>8, <2>9, <2>10
    <2> QED BY <1>6, <2>11 DEF Refs!DependentsOf, A, below, node, was, path
  <1>7. ASSUME NEW o \in Refs!Origins(r)
        PROVE  \E at : /\ o[1] \in DOMAIN r.original /\ at \in Here(r, o[1]) /\ Settled(r, o[1], at)
                       /\ Written(r, o[1], at) = r.original[o[1]][o[2]][o[3]]
    <2>0. PICK p \in Refs!Parts(r) : \E at \in PlacesIn(r, p) : o = <<p[1], at[1], at[2]>>
      BY DEF Refs!Origins, PlacesIn
    <2>1. PICK at \in PlacesIn(r, p) : o = <<p[1], at[1], at[2]>> BY <2>0
    <2>2. o[1] = p[1] /\ o[2] = at[1] /\ o[3] = at[2] BY <2>1
    <2>3. IsPart(r, p) BY <1>2, PartsAre
    <2>4. p[1] \in DOMAIN r.original /\ at \in Here(r, p[1]) BY <2>3, PartIsHere DEF IsPart
    <2>5. ~ Awaited(r, p[1], at)
      <3>1. Len(r.stack) = 0 BY <1>1
      <3> QED BY <3>1 DEF Awaited
    <2>6. Settled(r, p[1], at) BY <1>2, <2>5 DEF Attended
    <2>7. Written(r, o[1], at) = r.original[o[1]][o[2]][o[3]] BY <2>2 DEF Written
    <2> QED BY <2>2, <2>4, <2>6, <2>7
  <1> HIDE DEF r
  <1>8. ASSUME <<r.entry, "contract">> \in graph.nodes, \A x \in r.findings : x.rule # "deep",
               NEW o \in Refs!Origins(r), r.original[o[1]][o[2]][o[3]].kind # "here"
        PROVE  r.entry \in Refs!DependentsOf(graph, Refs!Join(Refs!PathOf(r, o[1]), r.original[o[1]][o[2]][o[3]]))
    <2>1. PICK at : /\ o[1] \in DOMAIN r.original /\ at \in Here(r, o[1]) /\ Settled(r, o[1], at)
                    /\ Written(r, o[1], at) = r.original[o[1]][o[2]][o[3]]
      BY <1>7
    <2> QED BY <1>1, <1>6, <1>8, <2>1 DEF PathOf
  <1> QED BY <1>8 DEF Refs!NobodyIsMissed, r


LEMMA RefsNext == ASSUME Refs!TreeAssumption, RefsInv, [Refs!Next]_refVars PROVE RefsInv'
  <1>1. CASE Refs!Load BY <1>1, RefsLoad
  <1>2. CASE Refs!Walk BY <1>2, RefsWalk
  <1>3. CASE Refs!Return BY <1>3, RefsReturn
  <1>4. CASE Refs!Bundled BY <1>4, RefsBundled
  <1>5. CASE Refs!Report BY <1>5, RefsReport
  <1>6. CASE Refs!Save BY <1>6, RefsSave
  <1>7. CASE UNCHANGED refVars BY <1>7 DEF refVars, RefsInv, DiskOK
  <1>8. CASE Refs!Reach BY <1>8, RefsReach
  <1>9. CASE Refs!Again BY <1>9, RefsAgain
  <1> QED BY <1>1, <1>2, <1>3, <1>4, <1>5, <1>6, <1>7, <1>8, <1>9 DEF Refs!Next

LEMMA InvKeepsReferences == ASSUME Refs!TreeAssumption, RefsInv PROVE Refs!ReferencesAreKept
  <1> SUFFICES ASSUME NEW c \in DOMAIN loaded, loaded[c] # None
               PROVE  Refs!MeaningIsKept(loaded[c]) /\ (graph # None => Refs!NobodyIsMissed(loaded[c]))
    BY DEF Refs!ReferencesAreKept
  <1>1. BundleInv(loaded[c]) /\ loaded[c].stack = <<>> BY DEF RefsInv
  <1> QED BY <1>1, MeaningKept, NobodyMissed

\* Whatever the files of the tree refer to, however deep and however often they are saved
\* while they are read, as long as no two files that references lead to have one name in the
\* reports (bundle.py:224-238 leaves out the scheme and what lies above): every reference
\* of a bundled contract stands for the fragment its own file means, or a finding says why
\* not and it stands for nothing, or for what the contract would mean by it; and the graph
\* names each contract that an edit of a file concerns (bundle, build_graph, dependents_of).
THEOREM ReferencesKept ==
  ASSUME Refs!TreeAssumption
  PROVE  CommandsSpec => []ReferencesAreKept
  <1> DEFINE StageInv == stage = "refs" => RefsInv
  <1>1. CommandsInit => StageInv BY RefsStart DEF CommandsInit
  <1>2. StageInv /\ [CommandsNext]_commandVars => StageInv'
    <2> SUFFICES ASSUME StageInv, [CommandsNext]_commandVars, stage' = "refs" PROVE RefsInv'
      OBVIOUS
    <2>1. stage = "refs" /\ [Refs!Next]_refVars
      BY DEF CommandsNext, commandVars, refVars
    <2> QED BY <2>1, RefsNext
  <1>3. StageInv => ReferencesAreKept BY InvKeepsReferences DEF ReferencesAreKept
  <1> QED BY <1>1, <1>2, <1>3, PTL DEF CommandsSpec
=============================================================================
