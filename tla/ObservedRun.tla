----------------------------- MODULE ObservedRun ----------------------------
(* What a compiled program promises: it shows the calls its source shows, in *)
(* order and one at a time, it then ends as its source ends, and once it is  *)
(* started it does get there.                                                *)
EXTENDS Naturals, Sequences

VARIABLES
    meaning,   \* [seen, outcome] of the source
    seen,      \* the calls shown so far
    outcome    \* "compiling", "running", then how the run ended

vars == <<meaning, seen, outcome>>

Init == seen = <<>> /\ outcome = "compiling"

Begin == outcome = "compiling" /\ outcome' = "running" /\ UNCHANGED <<meaning, seen>>

Show ==
    /\ outcome = "running"
    /\ Len(seen) < Len(meaning.seen)
    /\ seen' = Append(seen, meaning.seen[Len(seen) + 1])
    /\ UNCHANGED <<meaning, outcome>>

Finish ==
    /\ outcome = "running"
    /\ seen = meaning.seen
    /\ outcome' = meaning.outcome
    /\ UNCHANGED <<meaning, seen>>

Spec == Init /\ [][Begin \/ Show \/ Finish]_vars /\ WF_vars(Show \/ Finish)
=============================================================================
