------------------------------- MODULE Graph --------------------------------
(***************************************************************************)
(* reprounzip graph (unpackers/graph.py): from the rows of a trace, taken  *)
(* by timestamp, read_events() makes programs, that is pairs of a process  *)
(* and the binary it runs, and the edges between them and files; then      *)
(* generate() and graph_dot() filter and aggregate both for display.       *)
(*                                                                         *)
(* A step is one turn of the loop on the rows.  The rows are those of runs *)
(* traced one after the other; exec is only recorded for the leader of a   *)
(* thread group, whose threads are gone from then on.                      *)
(***************************************************************************)
EXTENDS Integers, Sequences, FiniteSets

CONSTANTS
    Files,
    Binaries,    \* those that are executed
    PackageOf,   \* file -> package of the configuration, or "none"
    InOut,       \* the files in inputs_outputs
    Truncated,   \* file -> its first directories: --otherfiles depth:n
    Filters,     \* what --regex-* and --aggregate make of each file: another, or "none"
    MaxProcs, MaxRows   \* bounds on a trace

VARIABLES
    all_forks,     \* --all-forks
    all_programs,  \* the programs, in the order they are made
    processes,     \* process -> the program it is in
    run,           \* how many runs have started
    edges,
    alive,    \* history: the processes that may still do something
    leader,   \*   of the thread group of each process
    running,  \*   the binary each executes
    did,      \*   what was done, by what, in which run
    hasty,    \*   processes that did something between their creation and exec
    nrows

shown == <<all_programs, processes, run, edges>>
truth == <<alive, leader, running, did, hasty, nrows>>
vars  == <<all_forks, shown, truth>>

Procs    == 1 .. MaxProcs
Images   == Binaries \cup {"none"}
Modes    == {"read", "write", "exec"}
Program  == [pid: Procs, run: Nat, parent: Nat, thread: BOOLEAN, acted: BOOLEAN,
             binary: Images, created: {"initial", "fork", "exec", "fork+exec"}]
Edge     == [prog: Nat \ {0}, file: Files, mode: Modes]

ASSUME GraphAssumption ==
    /\ Binaries \subseteq Files /\ "none" \notin Files /\ InOut \subseteq Files
    /\ Truncated \in [Files -> Files] /\ Filters \subseteq [Files -> Files \cup {"none"}]
    /\ DOMAIN PackageOf = Files
    /\ MaxProcs \in Nat /\ MaxRows \in Nat

TypeOK ==
    /\ all_forks \in BOOLEAN /\ run \in Nat
    /\ all_programs \in Seq(Program)
    /\ DOMAIN processes \subseteq Procs
    /\ \A p \in DOMAIN processes : processes[p] \in DOMAIN all_programs
    /\ edges \subseteq Edge /\ \A e \in edges : e.prog \in DOMAIN all_programs
    /\ \A i \in DOMAIN all_programs : all_programs[i].parent \in 0 .. i - 1

Init ==
    /\ all_forks \in BOOLEAN
    /\ all_programs = <<>> /\ processes = <<>> /\ run = 0 /\ edges = {}
    /\ alive = {} /\ leader = <<>> /\ running = <<>> /\ did = {} /\ hasty = {}
    /\ nrows = 0

-----------------------------------------------------------------------------
(* read_events() *)

Adds(program) == all_programs' = Append(all_programs, program)
Doing(p, file, mode) == [pid |-> p, binary |-> running[p], run |-> run, file |-> file, mode |-> mode]

\* A row of processes, without parent: the runs are those of sequential traces.
RunStarts ==
    /\ Len(processes) < MaxProcs
    /\ LET p == Len(processes) + 1
       IN  /\ Adds([pid |-> p, run |-> run + 1, parent |-> 0, thread |-> FALSE,
                    acted |-> FALSE, binary |-> "none", created |-> "initial"])
           /\ processes' = Append(processes, Len(all_programs) + 1)
           /\ alive' = {p}
           /\ leader' = Append(leader, p) /\ running' = Append(running, "none")
    /\ run' = run + 1
    /\ UNCHANGED <<edges, did, hasty>>

\* A process that acts before its exec, unless that splits it anyway.
Hurries(p) ==
    IF all_forks \/ all_programs[processes[p]].acted THEN hasty ELSE hasty \cup {p}

\* Faulty variant: the binary of the parent is not inherited.
ProcessCreatedNoBinary(parent, thread) ==
    /\ Len(processes) < MaxProcs
    /\ LET p == Len(processes) + 1
       IN  /\ Adds([pid |-> p, run |-> run, parent |-> processes[parent],
                    thread |-> thread, acted |-> FALSE, binary |-> "none",
                    created |-> "fork"])
           /\ processes' = Append(processes, Len(all_programs) + 1)
           /\ alive' = alive \cup {p}
           /\ leader' = Append(leader, IF thread THEN leader[parent] ELSE p)
           /\ running' = Append(running, running[parent])
    /\ hasty' = Hurries(parent)
    /\ UNCHANGED <<run, edges, did>>

ProcessCreated(parent, thread) ==
    /\ Len(processes) < MaxProcs
    /\ LET p == Len(processes) + 1
           from == all_programs[processes[parent]]
       IN  /\ Adds([pid |-> p, run |-> run, parent |-> processes[parent],
                    thread |-> thread, acted |-> FALSE, binary |-> from.binary,
                    created |-> "fork"])
           /\ processes' = Append(processes, Len(all_programs) + 1)
           /\ alive' = alive \cup {p}
           /\ leader' = Append(leader, IF thread THEN leader[parent] ELSE p)
           /\ running' = Append(running, running[parent])
    /\ hasty' = Hurries(parent)
    /\ UNCHANGED <<run, edges, did>>

FileOpened(p, file, mode) ==
    /\ edges' = edges \cup {[prog |-> processes[p], file |-> file, mode |-> mode]}
    /\ did' = did \cup {Doing(p, file, mode)}
    /\ hasty' = Hurries(p)
    /\ UNCHANGED <<all_programs, processes, run, alive, leader, running>>

\* Faulty variants: the process is still said to be in the first program; the
\* program is looked up in the map of processes once it is in the list.
ExecutedStays(p, binary) ==
    LET i == processes[p]
    IN  /\ UNCHANGED processes
        /\ IF ~all_forks /\ ~all_programs[i].acted
           THEN all_programs' = [all_programs EXCEPT ![i].binary = binary,
                                    ![i].created = "fork+exec", ![i].acted = TRUE]
           ELSE Adds([pid |-> p, run |-> run, parent |-> i, thread |-> FALSE,
                      acted |-> TRUE, binary |-> binary, created |-> "exec"])
ExecutedOwnParent(p, binary) ==
    LET i == processes[p]
        n == Len(all_programs) + 1
    IN  IF ~all_forks /\ ~all_programs[i].acted
        THEN /\ all_programs' = [all_programs EXCEPT ![i].binary = binary,
                                    ![i].created = "fork+exec", ![i].acted = TRUE]
             /\ UNCHANGED processes
        ELSE /\ Adds([pid |-> p, run |-> run, parent |-> n, thread |-> FALSE,
                      acted |-> TRUE, binary |-> binary, created |-> "exec"])
             /\ processes' = [processes EXCEPT ![p] = n]

\* The program is split in two, unless it has not been in an exec: nothing but
\* an exec sets acted.
Executed(p, binary) ==
    LET i == processes[p]
    IN  IF ~all_forks /\ ~all_programs[i].acted
        THEN /\ all_programs' = [all_programs EXCEPT ![i].binary = binary,
                                    ![i].created = "fork+exec", ![i].acted = TRUE]
             /\ UNCHANGED processes
        ELSE /\ Adds([pid |-> p, run |-> run, parent |-> i, thread |-> FALSE,
                      acted |-> TRUE, binary |-> binary, created |-> "exec"])
             /\ processes' = [processes EXCEPT ![p] = Len(all_programs) + 1]

FileExecuted(p, binary) ==
    /\ leader[p] = p
    /\ Executed(p, binary)
    /\ edges' = edges \cup {[prog |-> processes'[p], file |-> binary, mode |-> "exec"]}
    /\ running' = [running EXCEPT ![p] = binary]
    /\ did' = did \cup {[Doing(p, binary, "exec") EXCEPT !.binary = binary]}
    /\ alive' = alive \ {t \in alive : t # p /\ leader[t] = p}
    /\ UNCHANGED <<run, leader, hasty>>

Next ==
    /\ nrows < MaxRows /\ nrows' = nrows + 1 /\ UNCHANGED all_forks
    /\ \/ RunStarts
       \/ \E p \in alive, thread \in BOOLEAN : ProcessCreated(p, thread)
       \/ \E p \in alive, file \in Files \ Binaries, mode \in {"read", "write"} :
              FileOpened(p, file, mode)
       \/ \E p \in alive, binary \in Binaries : FileExecuted(p, binary)

Spec == Init /\ [][Next]_vars

-----------------------------------------------------------------------------
(* generate() and graph_dot() *)

\* parse_levels(): what --packages, --processes and --otherfiles may say; in
\* --otherfiles depth:n all files are kept, truncated.
Levels == [pkgs      |-> {"file", "package", "ignore", "drop"},
           processes |-> {"thread", "process", "run"},
           other     |-> {"all", "depth", "io", "no"}]

\* The files and the edges to show, and those of the files that are in a package.
generate(filter, level_pkgs, level_other_files) ==
    LET kept     == {[e EXCEPT !.file = filter[e.file]] :
                        e \in {x \in edges : filter[x.file] # "none"}}
        files    == {e.file : e \in kept}
        packaged == {f \in files : level_pkgs # "ignore" /\ PackageOf[f] # "none"}
        other    == CASE level_other_files = "all"   -> files \ packaged
                      [] level_other_files = "depth" -> {Truncated[f] : f \in files \ packaged}
                      [] level_other_files = "io"    -> (files \ packaged) \cap InOut
                      [] level_other_files = "no"    -> {}
        Shorter(e) == IF e.file \in packaged THEN e ELSE [e EXCEPT !.file = Truncated[@]]
    IN  [packaged |-> packaged, other_files |-> other,
         edges |-> IF level_other_files = "depth" THEN {Shorter(e) : e \in kept}
                   ELSE {e \in kept : e.file \in packaged \cup other}]

\* Process.dot_endpoint() without its levels: from a thread to what it is a
\* thread of.
NonThread[i \in DOMAIN all_programs] ==
    IF all_programs[i].thread THEN NonThread[all_programs[i].parent] ELSE i

\* Faulty variant: a thread is taken to be one of a process, never of a thread.
dot_endpointOneUp(i, level_processes) ==
    CASE level_processes = "run"     -> <<"run", all_programs[i].run>>
      [] level_processes = "process" ->
            <<"prog", IF all_programs[i].thread THEN all_programs[i].parent ELSE i>>
      [] level_processes = "thread"  -> <<"prog", i>>

dot_endpoint(i, level_processes) ==
    CASE level_processes = "run"     -> <<"run", all_programs[i].run>>
      [] level_processes = "process" -> <<"prog", NonThread[i]>>
      [] level_processes = "thread"  -> <<"prog", i>>

\* Run.dot()
ProgramNodes(level_processes) ==
    IF level_processes = "run" THEN {<<"run", r>> : r \in 1 .. run}
    ELSE {<<"prog", i>> : i \in {j \in DOMAIN all_programs :
                                    level_processes = "thread" \/ ~all_programs[j].thread}}

\* Package.dot_endpoint()
file_endpoint(f, g, level_pkgs) ==
    IF f \in g.packaged /\ level_pkgs = "package" THEN <<"pkg", PackageOf[f]>> ELSE <<"file", f>>

\* Package.dot() and the other files
FileNodes(g, level_pkgs) ==
    {<<"file", f>> : f \in g.other_files} \cup
    CASE level_pkgs = "file"    -> {<<"file", f>> : f \in g.packaged}
      [] level_pkgs = "package" -> {<<"pkg", PackageOf[f]>> : f \in g.packaged}
      [] OTHER                  -> {}

\* The edges written.
graph_dot(g, level_pkgs) ==
    {e \in g.edges : level_pkgs = "drop" => e.file \notin g.packaged}

-----------------------------------------------------------------------------
(* graph_json() *)

\* Faulty variant: a thread is given the entry of its parent, whatever it is.
prog_mapOneUp(level_processes) ==
    [i \in DOMAIN all_programs |->
        IF level_processes = "process" /\ all_programs[i].thread
        THEN all_programs[i].parent ELSE i]

\* Run.json(): the entry where the files of each program go.
prog_map(level_processes) ==
    [i \in DOMAIN all_programs |->
        IF level_processes = "process" THEN NonThread[i] ELSE i]

\* The entries that Run.json() makes.
Entries(level_processes) ==
    {i \in DOMAIN all_programs : level_processes = "thread" \/ ~all_programs[i].thread}

\* Process.json() is called without its argument for a whole run, and looks the
\* parent up among the entries; Package.json() wants packages shown as files.
JsonFails(g, level_processes, level_pkgs) ==
    \/ level_processes = "run" /\ run > 0
    \/ \E i \in Entries(level_processes) :
          all_programs[i].parent \notin Entries(level_processes) \cup {0}
    \/ level_pkgs \in {"package", "drop"} /\ g.packaged # {}

\* The reads and writes of each entry, an execution being a read.
graph_json(g, level_processes) ==
    [i \in Entries(level_processes) |->
        LET Of(modes) == {e.file : e \in {x \in g.edges :
                            prog_map(level_processes)[x.prog] = i /\ x.mode \in modes}}
        IN  [reads |-> Of({"read", "exec"}), writes |-> Of({"write"})]]

-----------------------------------------------------------------------------
(* Properties *)

\* The comment of read_events(): a program is "the couple (process, binary)".
\* What the edges say is what was done, by the binary that did it and in its
\* run, no more and no less; but a process that opens a file or forks before
\* its first exec is shown as if the exec had come first.
EdgesOfPrograms ==
    LET Says(e) == LET g == all_programs[e.prog]
                   IN  [pid |-> g.pid, binary |-> g.binary, run |-> g.run,
                        file |-> e.file, mode |-> e.mode]
    IN  {Says(e) : e \in {x \in edges : all_programs[x.prog].pid \notin hasty}}
            = {d \in did : d.pid \notin hasty}

\* "forking creates a new program (with the same binary) and exec'ing creates
\* a new program as well (with the same process)": the label of each arrow
\* between programs is what happened, and the arrows make one tree per run.
LineageShown ==
    /\ \A i \in DOMAIN all_programs :
        LET g == all_programs[i]
            q == all_programs[g.parent]
        IN  g.parent # 0 =>
                /\ g.run = q.run /\ (g.pid = q.pid <=> g.created = "exec")
                /\ g.created = "fork" /\ q.pid \notin hasty => g.binary = q.binary
    /\ \A r \in 1 .. run : \E i \in DOMAIN all_programs :
        /\ all_programs[i].run = r /\ all_programs[i].parent = 0
        /\ \A j \in DOMAIN all_programs :
              all_programs[j].run = r /\ all_programs[j].parent = 0 => j = i

\* At every level of detail the edges written join nodes that are drawn: files
\* filtered, replaced, truncated or aggregated in packages, and the program of
\* a thread's leader, in its run, where threads are not.
EndpointsDrawn ==
    /\ \A level \in Levels.processes : \A e \in edges :
        LET n == dot_endpoint(e.prog, level)
        IN  /\ n \in ProgramNodes(level)
            /\ level = "run" \/ all_programs[n[2]].run = all_programs[e.prog].run
            /\ level = "process" => all_programs[n[2]].pid = leader[all_programs[e.prog].pid]
    /\ \A filter \in Filters, level_pkgs \in Levels.pkgs, level_other_files \in Levels.other :
        LET g == generate(filter, level_pkgs, level_other_files)
        IN  \A e \in graph_dot(g, level_pkgs) :
                file_endpoint(e.file, g, level_pkgs) \in FileNodes(g, level_pkgs)

\* The JSON of --processes thread is always written, that of --processes process
\* unless a thread forked; and in either every file is read or written by the
\* entry of the process that did, or whose thread did, in its run.
JsonWritten ==
    LET g == generate([f \in Files |-> f], "file", "all")
        Leader(i) == [pid |-> leader[all_programs[i].pid], run |-> all_programs[i].run]
        Is(i)     == [pid |-> all_programs[i].pid, run |-> all_programs[i].run]
        ThreadForked == \E i, j \in DOMAIN all_programs :
            /\ all_programs[i].parent = j /\ ~all_programs[i].thread
            /\ leader[all_programs[j].pid] # all_programs[j].pid
    IN  /\ ~JsonFails(g, "thread", "file")
        /\ JsonFails(g, "process", "file") => ThreadForked
        /\ \A level \in {"thread", "process"} :
             LET json == graph_json(g, level)
                 Who(i) == IF level = "process" THEN Leader(i) ELSE Is(i)
             IN  \A e \in g.edges : \E i \in DOMAIN json :
                    /\ Is(i) = Who(e.prog)
                    /\ e.file \in (IF e.mode = "write" THEN json[i].writes ELSE json[i].reads)
=============================================================================
