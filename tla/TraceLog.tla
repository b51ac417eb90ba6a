------------------------------ MODULE TraceLog ------------------------------
(***************************************************************************)
(* What a tracer promises, whatever its threads and pipes: every process   *)
(* has a log of what it did; the trace copies each log in order, lags      *)
(* behind it, and is closed only when it has caught up with all of them.   *)
(***************************************************************************)
EXTENDS Naturals, Sequences

CONSTANT Tids

VARIABLES happened,  \* tid -> what it did
          recorded,  \* tid -> what the trace says it did
          closed     \* the trace is final

logVars == <<happened, recorded, closed>>

LogInit == happened = recorded /\ closed = FALSE

\* A process does one more thing.
Happen(t) ==
    /\ ~closed
    /\ Len(happened'[t]) = Len(happened[t]) + 1
    /\ happened' = [happened EXCEPT ![t] = Append(@, happened'[t][Len(happened[t]) + 1])]
    /\ UNCHANGED <<recorded, closed>>

\* The trace gets the next thing that process did.
Record(t) ==
    /\ ~closed
    /\ Len(recorded[t]) < Len(happened[t])
    /\ recorded' = [recorded EXCEPT ![t] = Append(@, happened[t][Len(@) + 1])]
    /\ UNCHANGED <<happened, closed>>

Close ==
    /\ ~closed
    /\ recorded = happened
    /\ closed' = TRUE
    /\ UNCHANGED <<happened, recorded>>

LogNext == Close \/ \E t \in Tids : Happen(t) \/ Record(t)

LogSpec == LogInit /\ [][LogNext]_logVars
==============================================================================
