--------------------------- MODULE TraceAnalysis ----------------------------
(***************************************************************************)
(* What reprozip reads out of a trace: the files to pack, the input and    *)
(* output files of each run (tracer/trace.py), and the packages the files  *)
(* come from (tracer/linux_pkgs.py, traceutils.py).                        *)
(*                                                                         *)
(* A trace is the sequence of its runs, in the order of their ids: the     *)
(* timestamp of the first process, and the rows of executed_files and      *)
(* opened_files of all its processes.  Links, directories and file names   *)
(* are left out: a file stands for what its path resolves to.              *)
(***************************************************************************)
EXTENDS Integers, Sequences, FiniteSets, SequencesExt

CONSTANTS
    Files,
    Magic,      \* those under /dev, /proc or /sys
    System,     \* those under a system directory
    Hidden,     \* those the filter plugins take off the inputs
    Packages,
    Claims      \* System file -> the packages whose list names it

Modes == {"exec", "read", "write", "stat"}
Row   == [file: Files, mode: Modes, ts: Nat]
Run   == [ts: Nat, rows: Seq(Row)]

ASSUME TraceAnalysisAssumption ==
    /\ Magic \subseteq Files /\ System \subseteq Files /\ Hidden \subseteq Files
    /\ Claims \in [System -> SUBSET Packages]

-----------------------------------------------------------------------------
(* TracedFile: how a file was used, by one run or by all.                  *)

Read(use) == IF use = "none" THEN "read" ELSE use

\* Faulty variant: a write makes an output of a file that was read before.
WrittenOverRead(use) == IF use = "read then written" THEN use ELSE "written"

Written(use) == CASE use = "none" -> "written"
                  [] use = "read" -> "read then written"
                  [] OTHER        -> use

Used(use, mode) == CASE mode \in {"exec", "read"} -> Read(use)
                     [] mode = "write"            -> Written(use)
                     [] OTHER                     -> use

-----------------------------------------------------------------------------
(* get_files() *)

Rows(trace) == FlattenSeq([r \in DOMAIN trace |-> trace[r].rows])

\* A row goes after those that are not later.
Insert(rows, row) ==
    InsertAt(rows, 1 + Cardinality({i \in DOMAIN rows : rows[i].ts <= row.ts}), row)

RowsByTime(trace) == FoldLeft(Insert, <<>>, Rows(trace))

\* How many of the runs to come have started before a row.
Passed(starts, ts) ==
    CHOOSE k \in 0 .. Len(starts) :
        /\ \A i \in 1 .. k : ts > starts[i]
        /\ k = Len(starts) \/ ts <= starts[k + 1]

Unused(trace) ==
    LET none == [f \in Files |-> "none"]
    IN  [starts |-> [i \in 1 .. Len(trace) - 1 |-> trace[i + 1].ts], run |-> 1,
         seen |-> {}, executed |-> {}, what |-> none,
         runs |-> [r \in 1 .. Len(trace) + 1 |-> none],
         access_files |-> [r \in 1 .. Len(trace) + 1 |-> {}]]

\* Faulty variant: the run is not incremented.
AccountRunStays(s, row, disk) ==
    [s EXCEPT !.seen = @ \cup {row.file},
              !.executed = IF row.mode = "exec" THEN @ \cup {row.file} ELSE @,
              !.what[row.file] = Used(@, row.mode),
              !.runs[1][row.file] = Used(@, row.mode),
              !.access_files[1] = @ \cup ({row.file} \cap disk)]

\* One turn of the loop on the rows.
Account(s, row, disk) ==
    LET k == Passed(s.starts, row.ts)
        r == s.run + k
        executed == IF row.mode = "exec" THEN s.executed \cup {row.file} ELSE s.executed
    IN  [starts |-> SubSeq(s.starts, k + 1, Len(s.starts)), run |-> r,
         seen |-> s.seen \cup {row.file}, executed |-> executed,
         what |-> [s.what EXCEPT ![row.file] = Used(@, row.mode)],
         runs |-> [s.runs EXCEPT ![r][row.file] = Used(@, row.mode)],
         access_files |-> [s.access_files EXCEPT ![r] =
                               @ \cup ({row.file} \cap (disk \ executed))]]

\* The files to pack, and for each run reached the inputs and the outputs.
get_files(trace, disk) ==
    LET s == FoldLeft(LAMBDA a, row : Account(a, row, disk), Unused(trace), RowsByTime(trace))
        Of(r, use) == {f \in s.access_files[r] \cap disk : s.runs[r][f] = use}
                         \ (Magic \cup System)
    IN  [files   |-> {f \in s.seen : s.what[f] # "written"} \ Magic,
         inputs  |-> [r \in 1 .. s.run |-> Of(r, "read") \ (s.executed \cup Hidden)],
         outputs |-> [r \in 1 .. s.run |-> Of(r, "written")]]

-----------------------------------------------------------------------------
(* compile_inputs_outputs(), names aside: izip() stops at the shortest. *)

\* Faulty variant: runs numbered from one more.
compile_inputs_outputsFromOne(nruns, inputs, outputs) ==
    [f \in UNION {inputs[r] \cup outputs[r] : r \in DOMAIN inputs} |->
        [read_runs  |-> {r + 1 : r \in {q \in 1 .. nruns : q \in DOMAIN inputs /\ f \in inputs[q]}},
         write_runs |-> {r + 1 : r \in {q \in 1 .. nruns : q \in DOMAIN outputs /\ f \in outputs[q]}}]]

compile_inputs_outputs(nruns, inputs, outputs) ==
    LET zip == (1 .. nruns) \cap DOMAIN inputs
    IN  [f \in UNION {inputs[r] \cup outputs[r] : r \in DOMAIN inputs} |->
            [read_runs  |-> {r \in zip : f \in inputs[r]},
             write_runs |-> {r \in zip : f \in outputs[r]}]]

-----------------------------------------------------------------------------
(* Packages *)

\* identify_packages(): a file that two packages claim is in none of them.
identify_packages(files) ==
    LET Of(p) == {f \in files \cap System : Claims[f] = {p}}
    IN  [files |-> files \ UNION {Of(p) : p \in Packages},
         packages |-> [p \in Packages |-> Of(p)]]

\* combine_files()
combine_files(new, old) ==
    [files |-> old.files \cup new.files,
     packages |-> [p \in Packages |-> old.packages[p] \cup new.packages[p]]]
=============================================================================
