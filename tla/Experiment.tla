----------------------------- MODULE Experiment -----------------------------
(***************************************************************************)
(* What an unpacked experiment is for its user, whatever unpacker holds    *)
(* it: the contents of its input and output files.  They change by runs,   *)
(* which generate outputs, by uploads, and by going back to what was       *)
(* unpacked; nothing else the commands do, and no failure of theirs, may   *)
(* change them, though an experiment can be lost.                          *)
(***************************************************************************)
CONSTANTS IoFiles, Contents, Outputs, Uploadable

VARIABLES
    state,  \* "none" or "ready"
    world,  \* file -> content
    first   \* what it was when it was made ready

vars == <<state, world, first>>

World  == [IoFiles -> Contents]
Nobody == [f \in IoFiles |-> "absent"]

Init == state = "none" /\ world = Nobody /\ first = Nobody

Setup == /\ state = "none" /\ state' = "ready"
         /\ first' \in World
         /\ world' = first'

Run == /\ state = "ready" /\ UNCHANGED <<state, first>>
       /\ \E wrote \in SUBSET Outputs :
            world' = [f \in IoFiles |-> IF f \in wrote THEN "generated" ELSE world[f]]

Upload == /\ state = "ready" /\ UNCHANGED <<state, first>>
          /\ \A f \in IoFiles : world'[f] \in Uploadable \cup {world[f]}
          /\ world' \in World

Reset == /\ state = "ready" /\ UNCHANGED <<state, first>>
         /\ world' = first

Lose == /\ state = "ready" /\ state' = "none"
        /\ world' = Nobody /\ first' = Nobody

Next == Setup \/ Run \/ Upload \/ Reset \/ Lose
Spec == Init /\ [][Next]_vars
=============================================================================
