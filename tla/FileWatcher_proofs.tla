-------------------------- MODULE FileWatcher_proofs --------------------------
(* What a rerun is based on holds no half-saved file, for any number of files  *)
(* and edits.  A save that begins after the settling sleep did stamps its file *)
(* later than the snapshot before the sleep, so two snapshots that agree have  *)
(* not met it (Settling).  The bound on times counts what may still be         *)
(* stamped: a save under way will be once more (Stamps).                       *)
EXTENDS FileWatcher, FiniteSets, FiniteSetTheorems, TLAPS

Torn == {f \in Files : file[f] = "torn"}

\* Times that were given, and that will be when the saves under way end.
Stamps == /\ IsFiniteSet(Torn)
          /\ now + (IF Used THEN 1 ELSE 0) + Cardinality(Torn) <= 2 * edits + 2

\* Modification times only grow, and snapshots are of earlier ones.
Past == \A f \in Files : /\ 1 <= mtime[f] /\ mtime[f] <= now
                         /\ taking[f] <= mtime[f] /\ current[f] <= mtime[f]
                         /\ state[f] <= mtime[f]

\* What this snapshot found half saved it has looked at.
Looked == /\ pc \in {"sleep", "asleep"} => torn = {}
          /\ pc = "snapshot" => torn \cap todo = {}

\* After the settling sleep a half-saved file was so before it, or is stamped later.
Settling ==
  round = "settle" =>
    /\ pc \in {"asleep", "snapshot", "compare"} =>
         \A f \in Files : /\ current[f] < now
                          /\ file[f] = "torn" => f \in slow \/ current[f] < mtime[f]
    /\ pc \in {"snapshot", "compare"} =>
         \A f \in torn : f \in slow \/ current[f] < taking[f]
    /\ pc = "run" => torn \subseteq slow

IInv == TypeOK /\ Stamps /\ Past /\ Looked /\ Settling

-------------------------------------------------------------------------------
LEMMA Begins == Init => IInv
  <1> SUFFICES ASSUME Init PROVE IInv OBVIOUS
  <1> USE WatcherAssumption DEF Init, MISSING
  <1>1. TypeOK
    BY DEF TypeOK, Kinds, Times
  <1>2. Stamps
    <2>1. Torn = {}
      BY DEF Torn
    <2>2. ~Used
      BY DEF Used
    <2> QED BY <2>1, <2>2, FS_EmptySet DEF Stamps
  <1>3. Past /\ Looked /\ Settling
    BY DEF Past, Looked, Settling
  <1> QED BY <1>1, <1>2, <1>3 DEF IInv

(* The latest time, and the next, are within the bound.                        *)
LEMMA InTime ==
  ASSUME TypeOK, Stamps
  PROVE  /\ Cardinality(Torn) \in Nat
         /\ now <= 2 * MaxEdits + 2
         /\ Later \in Times /\ now <= Later
  <1>1. Cardinality(Torn) \in Nat
    BY FS_CardinalityType DEF Stamps
  <1>2. now + (IF Used THEN 1 ELSE 0) <= 2 * MaxEdits + 2
    <2>1. 2 * edits <= 2 * MaxEdits
      BY WatcherAssumption DEF TypeOK
    <2> QED BY <1>1, <2>1, WatcherAssumption DEF Stamps, TypeOK, Times, MISSING
  <1> QED BY <1>1, <1>2, WatcherAssumption DEF TypeOK, Times, MISSING, Later

-------------------------------------------------------------------------------
(* The editor.                                                                 *)

(* What a write leaves of the invariant, once its stamps are counted.          *)
LEMMA WriteKeeps ==
  ASSUME IInv, NEW f \in Files, NEW k \in Kinds, Touch(f, k), Stamps',
         edits' \in 0..MaxEdits,
         slow' = slow \/ (pc = "asleep" /\ k # "torn" /\ slow' = slow \ {f})
  PROVE  IInv'
  <1> USE DEF Touch, watcher
  <1>1. TypeOK'
    BY DEF IInv, TypeOK, Kinds
  <1>2. Past'
    <2>1. \A g \in Files : taking[g] \in Nat /\ current[g] \in Nat /\ state[g] \in Nat /\ mtime[g] \in Nat /\ now \in Nat
      BY WatcherAssumption DEF IInv, TypeOK, Times, MISSING
    <2> QED BY <2>1 DEF IInv, TypeOK, Past
  <1>3. Looked'
    BY DEF IInv, Looked
  <1>4. Settling'
    <2> SUFFICES ASSUME round = "settle" PROVE Settling' BY DEF Settling
    <2>1. ASSUME pc \in {"asleep", "snapshot", "compare"}, NEW g \in Files
          PROVE  /\ current[g] < now
                 /\ file'[g] = "torn" => g \in slow' \/ current[g] < mtime'[g]
      <3>1. current[g] < now
        BY <2>1 DEF IInv, Settling
      <3>2. CASE g = f
        BY <3>1, <3>2 DEF IInv, TypeOK
      <3>3. CASE g # f
        BY <2>1, <3>3 DEF IInv, TypeOK, Settling
      <3> QED BY <3>1, <3>2, <3>3
    <2>2. ASSUME pc \in {"snapshot", "compare", "run"} PROVE slow' = slow
      BY <2>2
    <2> QED BY <2>1, <2>2 DEF IInv, Settling
  <1> QED BY <1>1, <1>2, <1>3, <1>4 DEF IInv

(* An edit counts for the stamp it gives and the one a save still owes.        *)
LEMMA EditKeeps ==
  ASSUME IInv, NEW f \in Files, NEW k \in Kinds, file[f] # "torn", Edit(f, k)
  PROVE  IInv'
  <1> USE DEF Edit
  <1>1. edits' \in 0..MaxEdits /\ edits' = edits + 1 /\ edits \in Nat
    BY WatcherAssumption DEF IInv, TypeOK
  <1>2. Torn' \in {Torn, Torn \cup {f}} /\ f \notin Torn
    BY DEF Torn, Touch, IInv, TypeOK
  <1>3. IsFiniteSet(Torn') /\ Cardinality(Torn') \in Nat /\ Cardinality(Torn') <= Cardinality(Torn) + 1
    <2>1. IsFiniteSet(Torn) /\ Cardinality(Torn) \in Nat
      BY FS_CardinalityType DEF IInv, Stamps
    <2>2. CASE Torn' = Torn
      BY <2>1, <2>2
    <2>3. CASE Torn' = Torn \cup {f}
      <3>1. IsFiniteSet(Torn \cup {f}) /\ Cardinality(Torn \cup {f}) = Cardinality(Torn) + 1
        BY <1>2, <2>1, FS_AddElement
      <3> QED BY <2>1, <2>3, <3>1
    <2> QED BY <1>2, <2>2, <2>3
  <1>4. Stamps'
    <2>1. now' = now /\ now \in Nat /\ Cardinality(Torn) \in Nat
      BY InTime DEF IInv, Touch, TypeOK, Times, MISSING
    <2>2. now + Cardinality(Torn) <= 2 * edits + 2
      BY <1>1, <2>1 DEF IInv, Stamps
    <2> QED BY <1>1, <1>3, <2>1, <2>2 DEF Stamps
  <1> QED BY <1>1, <1>4, WriteKeeps

(* The stamp a save owed is given.                                             *)
LEMMA EndSaveKeeps ==
  ASSUME IInv, NEW f \in Files, EndSave(f)
  PROVE  IInv'
  <1>1. PICK k \in {"broken", "good"} :
          /\ file[f] = "torn" /\ Touch(f, k)
          /\ slow' = IF pc = "asleep" THEN slow \ {f} ELSE slow
          /\ edits' = edits
    BY DEF EndSave
  <1>2. Torn' = Torn \ {f} /\ f \in Torn
    BY <1>1 DEF Torn, Touch, IInv, TypeOK
  <1>3. IsFiniteSet(Torn') /\ Cardinality(Torn') = Cardinality(Torn) - 1
    BY <1>2, FS_RemoveElement DEF IInv, Stamps
  <1>4. Stamps'
    <2>1. now' = now /\ now \in Nat /\ Cardinality(Torn) \in Nat
      BY <1>1, InTime DEF IInv, Touch, TypeOK, Times, MISSING
    <2>2. now + Cardinality(Torn) <= 2 * edits + 2
      BY <2>1 DEF IInv, Stamps, TypeOK
    <2> QED BY <1>1, <1>3, <2>1, <2>2, WatcherAssumption DEF Stamps, IInv, TypeOK
  <1>5. edits' \in 0..MaxEdits /\ k \in Kinds
    BY <1>1 DEF IInv, TypeOK, Kinds
  <1> QED BY <1>1, <1>4, <1>5, WriteKeeps

LEMMA EditorKeeps ==
  ASSUME IInv, NEW f \in Files, BeginSave(f) \/ Replace(f) \/ Remove(f)
  PROVE  IInv'
  <1>1. CASE BeginSave(f)
    BY <1>1, EditKeeps DEF BeginSave, Kinds
  <1>2. CASE Replace(f)
    BY <1>2, EditKeeps DEF Replace, Kinds
  <1>3. CASE Remove(f)
    BY <1>3, EditKeeps DEF Remove, Kinds
  <1> QED BY <1>1, <1>2, <1>3

-------------------------------------------------------------------------------
(* Time.                                                                       *)

(* The next time is one nobody has stamped a file with.                        *)
LEMMA NextTime ==
  ASSUME IInv, now' = Later, UNCHANGED editor
  PROVE  Stamps' /\ now' \in Times /\ now <= now' /\ \A f \in Files : mtime[f] < now'
  <1> USE DEF editor
  <1>1. now \in Nat /\ \A f \in Files : mtime[f] \in Nat /\ mtime[f] <= now
    BY DEF IInv, TypeOK, Past, Times, MISSING
  <1>2. \A f \in Files : mtime[f] < now'
    BY <1>1 DEF Later, Used
  <1>3. ~Used'
    BY <1>1, <1>2 DEF Used
  <1>4. Torn' = Torn
    BY DEF Torn
  <1>5. now' = now + (IF Used THEN 1 ELSE 0)
    BY <1>1 DEF Later
  <1>6. Stamps'
    BY <1>3, <1>4, <1>5, InTime DEF IInv, Stamps, TypeOK
  <1> QED BY <1>2, <1>6, InTime DEF IInv

LEMMA TickKeeps == ASSUME IInv, Tick PROVE IInv'
  <1> USE DEF Tick, watcher, history, editor
  <1>1. Stamps' /\ now' \in Times /\ now <= now' /\ now \in Nat /\ now' \in Nat
    BY NextTime DEF IInv, TypeOK, Times, MISSING
  <1>2. TypeOK'
    BY <1>1 DEF IInv, TypeOK
  <1>3. Past' /\ Looked'
    BY <1>1 DEF IInv, TypeOK, Past, Looked, Times, MISSING
  <1>4. Settling'
    <2>1. \A f \in Files : current[f] \in Nat
      BY DEF IInv, TypeOK, Times, MISSING
    <2> QED BY <1>1, <2>1 DEF IInv, Settling
  <1> QED BY <1>1, <1>2, <1>3, <1>4 DEF IInv

LEMMA SleepKeeps == ASSUME IInv, Sleep PROVE IInv'
  <1> USE DEF Sleep, editor
  <1>1. Stamps' /\ now' \in Times /\ now <= now' /\ now \in Nat /\ now' \in Nat
    BY NextTime DEF IInv, TypeOK, Times, MISSING
  <1>2. TypeOK'
    BY <1>1 DEF IInv, TypeOK
  <1>3. Past' /\ Looked'
    BY <1>1 DEF IInv, TypeOK, Past, Looked, Times, MISSING
  <1>4. Settling'
    <2>1. \A f \in Files : current[f] \in Nat /\ mtime[f] \in Nat /\ current[f] <= mtime[f] /\ mtime[f] < now'
      BY NextTime DEF IInv, TypeOK, Past, Times, MISSING
    <2> QED BY <1>1, <2>1 DEF Settling
  <1> QED BY <1>1, <1>2, <1>3, <1>4 DEF IInv

-------------------------------------------------------------------------------
(* The watcher.                                                                *)

LEMMA Quiet ==
  ASSUME IInv, UNCHANGED <<editor, now>>
  PROVE  Stamps'
  <1>1. Torn' = Torn /\ Used' = Used
    BY DEF Torn, Used, editor
  <1> QED BY <1>1 DEF IInv, Stamps, editor

LEMMA LoadKeeps == ASSUME IInv, NEW f \in Files, Load(f) PROVE IInv'
  <1> USE DEF Load, EndRun, editor
  <1>1. Stamps'
    BY Quiet
  <1>2. TypeOK'
    BY DEF IInv, TypeOK
  <1>3. Past'
    BY DEF IInv, Past
  <1>4. Looked' /\ Settling'
    BY DEF IInv, TypeOK, Looked, Settling
  <1> QED BY <1>1, <1>2, <1>3, <1>4 DEF IInv

LEMMA InterruptKeeps == ASSUME IInv, Interrupt PROVE IInv'
  <1> USE DEF Interrupt, EndRun, editor
  <1>1. Stamps'
    BY Quiet
  <1>2. TypeOK'
    BY DEF IInv, TypeOK
  <1>3. Past'
    BY DEF IInv, Past
  <1>4. Looked' /\ Settling'
    BY DEF IInv, TypeOK, Looked, Settling
  <1> QED BY <1>1, <1>2, <1>3, <1>4 DEF IInv

(* A half-saved file that is looked at shows the stamp it has.                 *)
LEMMA LookKeeps == ASSUME IInv, NEW f \in Files, Look(f) PROVE IInv'
  <1> USE DEF Look, editor
  <1>1. Stamps'
    BY Quiet
  <1>2. TypeOK'
    <2>1. PICK v \in Times : taking' = [taking EXCEPT ![f] = v]
      <3>1. MISSING \in Times /\ mtime[f] \in Times
        BY WatcherAssumption DEF IInv, TypeOK, Times, MISSING
      <3> QED BY <3>1
    <2>2. taking' \in [Files -> Times]
      BY <2>1 DEF IInv, TypeOK
    <2>3. torn' \subseteq Files /\ todo' \subseteq Files
      BY DEF IInv, TypeOK
    <2> QED BY <2>2, <2>3 DEF IInv, TypeOK
  <1>3. Past'
    BY DEF IInv, TypeOK, Past, MISSING, Times
  <1>4. Looked'
    BY DEF IInv, TypeOK, Looked
  <1>5. Settling'
    <2> SUFFICES ASSUME round = "settle"
                 PROVE  \A g \in torn' : g \in slow \/ current[g] < taking'[g]
      BY DEF IInv, Settling
    <2> TAKE g \in torn'
    <2>1. CASE g = f
      <3>1. f \notin torn
        BY DEF IInv, Looked
      <3>2. file[f] = "torn"
        BY <2>1, <3>1
      <3> QED BY <2>1, <3>2 DEF IInv, TypeOK, Settling
    <2>2. CASE g # f
      BY <2>2 DEF IInv, TypeOK, Settling
    <2> QED BY <2>1, <2>2
  <1> QED BY <1>1, <1>2, <1>3, <1>4, <1>5 DEF IInv

LEMMA AwaitKeeps == ASSUME IInv, Still \/ Unsettled \/ Wake PROVE IInv'
  <1> USE DEF Still, Unsettled, Wake, Await, editor, history
  <1>1. Stamps'
    BY Quiet
  <1>2. TypeOK'
    BY DEF IInv, TypeOK
  <1>3. Past'
    BY DEF IInv, Past
  <1>4. Looked' /\ Settling'
    BY DEF IInv, TypeOK, Looked, Settling
  <1> QED BY <1>1, <1>2, <1>3, <1>4 DEF IInv

(* Two snapshots that agree: no file in them was stamped between the two.      *)
LEMMA SettledKeeps == ASSUME IInv, Settled PROVE IInv'
  <1> USE DEF Settled, Rerun, editor, history
  <1>1. Stamps'
    BY Quiet
  <1>2. TypeOK'
    BY DEF IInv, TypeOK
  <1>3. Past'
    BY DEF IInv, Past
  <1>4. Looked'
    BY DEF Looked
  <1>5. Settling'
    <2>1. ASSUME NEW f \in torn PROVE f \in slow
      <3>1. f \in slow \/ current[f] < taking[f]
        BY DEF IInv, Settling
      <3>2. current[f] \in Nat /\ taking[f] = current[f]
        BY DEF IInv, TypeOK, Times, MISSING
      <3> QED BY <3>1, <3>2
    <2> QED BY <2>1 DEF Settling
  <1> QED BY <1>1, <1>2, <1>3, <1>4, <1>5 DEF IInv

-------------------------------------------------------------------------------
LEMMA StepKeeps == IInv /\ [Next]_vars => IInv'
  <1> SUFFICES ASSUME IInv, [Next]_vars PROVE IInv' OBVIOUS
  <1>1. CASE Editor
    BY <1>1, EditorKeeps, EndSaveKeeps DEF Editor
  <1>2. CASE Tick
    BY <1>2, TickKeeps
  <1>3. CASE Watch
    BY <1>3, LoadKeeps, LookKeeps, AwaitKeeps, SettledKeeps, SleepKeeps DEF Watch
  <1>4. CASE Interrupt
    BY <1>4, InterruptKeeps
  <1>5. CASE UNCHANGED vars
    <2>1. UNCHANGED <<editor, now>>
      BY <1>5 DEF vars
    <2>2. Stamps'
      BY <2>1, Quiet
    <2>3. TypeOK' /\ Past' /\ Looked' /\ Settling'
      BY <1>5 DEF vars, editor, watcher, history, IInv, TypeOK, Past, Looked, Settling
    <2> QED BY <2>2, <2>3 DEF IInv
  <1> QED BY <1>1, <1>2, <1>3, <1>4, <1>5 DEF Next

(* The times, places and snapshots of the watcher are what their comments say. *)
THEOREM TypeCorrect == Spec => []TypeOK
  <1>1. IInv => TypeOK
    BY DEF IInv
  <1> QED BY Begins, StepKeeps, <1>1, PTL DEF Spec

(* A rerun is based on a snapshot that met no save in the middle, unless that  *)
(* save took longer than the settling sleep.                                   *)
THEOREM SettledWhole == Spec => []SettledIsWhole
  <1>1. IInv => SettledIsWhole
    BY DEF IInv, Settling, SettledIsWhole
  <1> QED BY Begins, StepKeeps, <1>1, PTL DEF Spec

===============================================================================
