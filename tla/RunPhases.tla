------------------------------- MODULE RunPhases -------------------------------
(***************************************************************************)
(* What the run queue promises, with every request a single step: a run    *)
(* waits, is held by one worker, and is over.  It never goes back, the     *)
(* oldest waiting run is granted first, and submitted runs keep their ids. *)
(* JobQueue implements this (as long as its process does not die); the     *)
(* promises a restart keeps are stated there.                              *)
(***************************************************************************)
EXTENDS Naturals, Sequences

Phases == {"waiting", "held", "over"}

VARIABLE phase   \* the phase of each run, by id

Waiting == {r \in DOMAIN phase : phase[r] = "waiting"}

Init == phase = <<>>

\* A submitted run usually waits; one recorded after the fact may be over.
Submit == \E p \in Phases : phase' = Append(phase, p)

Grant == \E r \in Waiting : /\ \A q \in Waiting : r <= q
                            /\ phase' = [phase EXCEPT ![r] = "held"]

\* The worker finishes the run, or somebody cancels it.
Conclude == \E r \in DOMAIN phase : phase' = [phase EXCEPT ![r] = "over"]

Next == Submit \/ Grant \/ Conclude

Spec == Init /\ [][Next]_phase
===============================================================================
