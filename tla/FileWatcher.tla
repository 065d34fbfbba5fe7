------------------------------ MODULE FileWatcher ------------------------------
(***************************************************************************)
(* `apiverity watch` (cli/watch.py and cmd_watch): a command is run once,  *)
(* and again whenever the files it names have changed and settled.  All    *)
(* that tells the watcher of a change is the files' modification times,    *)
(* taken one file after the other while an editor goes on writing.         *)
(*                                                                         *)
(* A modification time has a granularity: `now` is the one the next write  *)
(* gets, and several writes may get the same.  Both sleeps of the watcher  *)
(* are longer than that.  Times never go back.                             *)
(***************************************************************************)
EXTENDS Naturals

CONSTANTS Files,     \* the files named by the command
          MaxEdits   \* bound: saves, replacements and removals by the editor

ASSUME WatcherAssumption == MaxEdits \in Nat

MISSING == 0

\* A save empties the file before it writes; what it writes may not be a contract.
Kinds == {"absent", "torn", "broken", "good"}
Times == MISSING..(2 * MaxEdits + 2)

VARIABLES
  file,      \* what each file is
  mtime,     \* when it was last written (or removed)
  now, edits,
  pc,        \* what the watcher does next
  round,     \* what its snapshot is: the first, one of a poll or one of the settling
  todo,      \* files the run has not loaded, or the snapshot has not looked at
  taking,    \* the snapshot being taken
  current,   \* the snapshot before it, while the files settle
  state,     \* the snapshot of the last run
  fresh,     \* history: the last run that loaded the file loaded what it is now
  excused,   \* history: edited during the first run, or its load interrupted
  torn,      \* history: files found half saved by this snapshot
  slow       \* history: saves that were going on when the last sleep began

editor == <<file, mtime, edits>>
watcher == <<pc, round, todo, taking, current, state>>
history == <<fresh, excused, torn, slow>>
vars == <<editor, now, watcher, history>>

Init == /\ file \in [Files -> {"absent", "good"}]
        /\ mtime = [f \in Files |-> 1] /\ now = 2 /\ edits = 0
        /\ pc = "run" /\ round = "first" /\ todo = Files
        /\ taking = [f \in Files |-> MISSING] /\ current = taking /\ state = taking
        /\ fresh = [f \in Files |-> FALSE]
        /\ excused = {} /\ torn = {} /\ slow = {}

-------------------------------------------------------------------------------
(* The editor. *)

Used == \E f \in Files : mtime[f] = now

\* File f becomes a k.
Touch(f, k) ==
  /\ file' = [file EXCEPT ![f] = k]
  /\ mtime' = [mtime EXCEPT ![f] = now]
  /\ fresh' = [fresh EXCEPT ![f] = FALSE]
  /\ excused' = IF round = "first" THEN excused \cup {f} ELSE excused
  /\ UNCHANGED <<now, watcher, torn>>

Edit(f, k) == /\ edits < MaxEdits
              /\ edits' = edits + 1
              /\ Touch(f, k)
              /\ UNCHANGED slow

BeginSave(f) == file[f] # "torn" /\ Edit(f, "torn")
EndSave(f) == \E k \in {"broken", "good"} :
                /\ file[f] = "torn"
                /\ Touch(f, k)
                /\ slow' = IF pc = "asleep" THEN slow \ {f} ELSE slow
                /\ UNCHANGED edits
Replace(f) == \E k \in {"broken", "good"} : file[f] # "torn" /\ Edit(f, k)
Remove(f) == file[f] \notin {"absent", "torn"} /\ Edit(f, "absent")

Later == IF Used THEN now + 1 ELSE now

Tick == /\ Used
        /\ now' = Later
        /\ UNCHANGED <<editor, watcher, history>>

-------------------------------------------------------------------------------
(* The watcher. *)

\* The first run is followed by a snapshot, a later one by the next poll.
EndRun == /\ pc' = IF round = "first" THEN "snapshot" ELSE "sleep"
          /\ round' = IF round = "first" THEN "first" ELSE "poll"
          /\ todo' = Files /\ torn' = {}

\* The command loads a file.  One that is absent or is no contract ends the
\* process (SystemExit); of one that is half saved either may be true.
Load(f) ==
  /\ pc = "run" /\ f \in todo
  /\ \/ /\ file[f] \in {"good", "torn"}
        /\ fresh' = [fresh EXCEPT ![f] = TRUE]
        /\ excused' = excused \ {f}
        /\ IF todo = {f} THEN EndRun
           ELSE todo' = todo \ {f} /\ UNCHANGED <<pc, round, torn>>
     \/ /\ file[f] # "good"
        /\ pc' = "gone"
        /\ UNCHANGED <<round, todo, fresh, excused, torn>>
  /\ UNCHANGED <<editor, now, taking, current, state, slow>>

\* Ctrl-C cuts the command short (main returns), or ends the watcher.
Interrupt ==
  /\ \/ /\ pc = "run" /\ EndRun
        /\ excused' = excused \cup todo
     \/ /\ pc \notin {"gone", "stopped"}
        /\ pc' = "stopped"
        /\ UNCHANGED <<round, todo, excused, torn>>
  /\ UNCHANGED <<editor, now, taking, current, state, fresh, slow>>

\* snapshot looks at one file.
Look(f) ==
  /\ pc = "snapshot" /\ f \in todo
  /\ taking' = [taking EXCEPT ![f] = IF file[f] = "absent" THEN MISSING ELSE mtime[f]]
  /\ todo' = todo \ {f}
  /\ torn' = IF file[f] = "torn" THEN torn \cup {f} ELSE torn
  /\ pc' = IF todo = {f} THEN "compare" ELSE "snapshot"
  /\ UNCHANGED <<editor, now, round, current, state, fresh, excused, slow>>

\* The watcher sleeps, and takes a snapshot for r.
Await(r) == pc' = "sleep" /\ round' = r /\ todo' = Files /\ torn' = {}

\* Mutant: only what is newer counts as changed.
Changed_Newer(before, after) == {f \in Files : after[f] > before[f]}

\* diff
Changed(before, after) == {f \in Files : before[f] # after[f]}

\* The first snapshot is what later ones are compared with; a poll that finds no
\* change goes on polling.
Still ==
  /\ pc = "compare"
  /\ round = "first" \/ (round = "poll" /\ Changed(state, taking) = {})
  /\ state' = IF round = "first" THEN taking ELSE state
  /\ Await(round)
  /\ UNCHANGED <<editor, now, taking, current, fresh, excused, slow>>

\* A change was found, or the files have changed again since.
Unsettled ==
  /\ pc = "compare"
  /\ \/ round = "poll" /\ Changed(state, taking) # {}
     \/ round = "settle" /\ taking # current
  /\ current' = taking
  /\ Await("settle")
  /\ UNCHANGED <<editor, now, taking, state, fresh, excused, slow>>

Rerun(seen) ==
  /\ state' = seen
  /\ pc' = "run" /\ todo' = Files
  /\ UNCHANGED <<editor, now, round, taking, current, history>>

\* Mutant: what is run is not what later snapshots are compared with.
Settled_Forgotten ==
  /\ pc = "compare" /\ round = "settle" /\ taking = current
  /\ Rerun(state)

\* Mutant: one settling snapshot is enough, whatever it finds.
Settled_Once ==
  /\ pc = "compare" /\ round = "settle"
  /\ Rerun(taking)

\* Two snapshots in a row agree: the command is run.
Settled ==
  /\ pc = "compare" /\ round = "settle" /\ taking = current
  /\ Rerun(current)

\* A sleep is longer than the granularity of modification times.  After the
\* first one the watcher polls.
Sleep == /\ pc = "sleep"
         /\ pc' = "asleep"
         /\ now' = Later
         /\ slow' = {f \in Files : file[f] = "torn"}
         /\ round' = IF round = "first" THEN "poll" ELSE round
         /\ UNCHANGED <<editor, todo, taking, current, state, fresh, excused, torn>>

Wake == /\ pc = "asleep"
        /\ pc' = "snapshot"
        /\ UNCHANGED <<editor, now, round, todo, taking, current, state, history>>

-------------------------------------------------------------------------------
Editor == \E f \in Files : BeginSave(f) \/ EndSave(f) \/ Replace(f) \/ Remove(f)

Watch == \/ \E f \in Files : Load(f) \/ Look(f)
         \/ Still \/ Unsettled \/ Settled \/ Sleep \/ Wake

Next == Editor \/ Tick \/ Watch \/ Interrupt

Spec == Init /\ [][Next]_vars

\* The watcher's loop goes on; the editor and the user need not do anything.
FairSpec == Spec /\ WF_vars(Watch)

-------------------------------------------------------------------------------
(* Properties. *)

TypeOK ==
  /\ file \in [Files -> Kinds]
  /\ mtime \in [Files -> Times] /\ now \in Times /\ edits \in 0..MaxEdits
  /\ pc \in {"run", "snapshot", "compare", "sleep", "asleep", "gone", "stopped"}
  /\ round \in {"first", "poll", "settle"}
  /\ todo \subseteq Files
  /\ taking \in [Files -> Times] /\ current \in [Files -> Times] /\ state \in [Files -> Times]
  /\ fresh \in [Files -> BOOLEAN]
  /\ excused \subseteq Files /\ torn \subseteq Files /\ slow \subseteq Files

Over == pc \in {"gone", "stopped"}

\* "Changes are allowed to settle": the snapshot a rerun is based on found no
\* file half saved, unless a save took longer than the settling sleep.
SettledIsWhole == pc = "run" /\ round = "settle" /\ slow = {} => torn = {}

\* "You edit a file, nothing re-runs, and the last output on screen is stale":
\* not so, whenever the edit comes -- between two looks, during a rerun, twice
\* within one modification time -- unless it comes during the first run.
EveryEditIsRun ==
  \A f \in Files : ~fresh[f] ~> (fresh[f] \/ f \in excused \/ Over)

\* Once nobody edits any more, the watcher stops running the command.
ComesToRest == <>[](Over \/ pc # "run")

===============================================================================
