------------------------------ MODULE Packing -------------------------------
(***************************************************************************)
(* reprozip from the trace to the pack: the trace directory (trace.sqlite3 *)
(* and config.yml), which 'trace', 'reset', 'combine' and the user change, *)
(* and the pack that 'pack' makes of it.                                   *)
(*                                                                         *)
(* One command runs at a time; it may be killed between any two steps, and *)
(* the user may remove files of the experiment meanwhile.  The tracer is   *)
(* modules Tracer and TraceLog: here it commits a run, or rolls it back.   *)
(***************************************************************************)
EXTENDS TraceAnalysis

CONSTANTS
    Programs,   \* what the traced commands do: sequences of accesses
    Others,     \* traces made in other directories, to combine
    OnDisk,     \* the files there at first
    Faults,     \* what may go wrong: see the actions
    MaxRuns,    \* bound: the runs of a trace
    MaxGone     \* bound: the files of OnDisk that may be missing at a time

VARIABLES
    disk,     \* the files that exist
    clock,    \* CLOCK_MONOTONIC since the trace or the machine was started
    dir,      \* the trace directory exists
    schema,   \* the tables of trace.sqlite3: as the tracer makes them, or combined
    trace,    \* its runs
    config,   \* config.yml
    target,   \* the pack
    pc, loc,
    gaps      \* history: what went wrong with this trace

vars == <<disk, clock, dir, schema, trace, config, target, pc, loc, gaps>>

Access   == [file: Files, mode: Modes]
NoConfig == [exists |-> FALSE]
NoPack   == [exists |-> FALSE]
Partial  == [exists |-> TRUE, done |-> FALSE]

Config == [exists: {TRUE}, valid: BOOLEAN, asWritten: BOOLEAN,
           runs: Seq(1 .. MaxRuns), files: SUBSET Files,
           packages: [Packages -> SUBSET Files], packed: SUBSET Packages,
           patterns: SUBSET Files, iofiles: SUBSET Files,
           use: [Files -> [read_runs: SUBSET (1 .. MaxRuns), write_runs: SUBSET (1 .. MaxRuns)]],
           disk: SUBSET Files]   \* history: what existed when it was written

Pack == [exists: {TRUE}, done: {TRUE}, config: Config, data: SUBSET Files, trace: Seq(Run),
         disk: SUBSET Files, rebooted: BOOLEAN]   \* history: what existed when the data was
                                                  \* added, and whether the trace spans a reboot

ASSUME PackingAssumption ==
    /\ Programs \subseteq Seq(Access) /\ Others \subseteq Seq(Run)
    /\ OnDisk \subseteq Files /\ MaxRuns \in Nat \ {0} /\ MaxGone \in Nat

TypeOK ==
    /\ disk \in SUBSET Files /\ clock \in Nat /\ dir \in BOOLEAN
    /\ schema \in {"tracer", "combined"}
    /\ trace \in Seq(Run) /\ Len(trace) <= MaxRuns
    /\ config \in Config \cup {NoConfig}
    /\ target \in Pack \cup {NoPack, Partial}
    /\ pc \in {"idle", "tracing", "configuring", "saving", "packing", "packed data"}
    /\ gaps \subseteq {"killed", "reboot"}

Init ==
    /\ disk = OnDisk /\ clock = 0 /\ dir = FALSE
    /\ schema = "tracer" /\ trace = <<>>
    /\ config = NoConfig /\ target = NoPack
    /\ pc = "idle" /\ loc = NoConfig /\ gaps = {}

Idle == pc = "idle"

\* A bound: a pack, which no command reads, is moved away before the next one
\* that is not 'pack'.
Moved == ~target.exists
Step(label, l) == pc' = label /\ loc' = l
Return == Step("idle", NoConfig)

-----------------------------------------------------------------------------
(* trace *)

\* trace() up to the tracer: append to the trace directory, or replace it, by
\* option or by prompt.
Trace ==
    /\ Idle /\ Moved
    /\ \/ Len(trace) < MaxRuns /\ UNCHANGED <<trace, schema, config, gaps>>
       \/ /\ dir /\ trace' = <<>> /\ schema' = "tracer" /\ config' = NoConfig
          /\ gaps' = {}
    /\ dir' = TRUE
    /\ clock' = IF trace' = trace THEN clock ELSE 0
    /\ Step("tracing", NoConfig)
    /\ UNCHANGED <<disk, target>>

WrittenBy(program) == {program[i].file : i \in {j \in DOMAIN program : program[j].mode = "write"}}

\* Only what exists, or was written before, is read.
Runnable(program) ==
    \A i \in DOMAIN program :
        \/ program[i].mode = "write"
        \/ program[i].file \in disk \cup WrittenBy(SubSeq(program, 1, i - 1))

\* The tracer's timestamps: of the first process, then of each row.
Recorded(program) ==
    [ts |-> clock + 1,
     rows |-> [i \in DOMAIN program |->
                  [file |-> program[i].file, mode |-> program[i].mode, ts |-> clock + 1 + i]]]

\* _pytracer.execute() commits the run.  A command that cannot be executed
\* leaves its process, with no executed file.
TracerCommits ==
    /\ pc = "tracing" /\ schema = "tracer"
    /\ \E program \in Programs \cup (IF "exec" \in Faults THEN {<<>>} ELSE {}) :
        /\ Runnable(program)
        /\ trace' = Append(trace, Recorded(program))
        /\ disk' = disk \cup WrittenBy(program)
        /\ clock' = clock + 1 + Len(program)
    /\ Step("configuring", [overwrite |-> FALSE])
    /\ UNCHANGED <<dir, schema, config, target, gaps>>

\* It raises an error: the trace was rolled back, or has not the tracer's tables.
TracerFails ==
    /\ pc = "tracing" /\ ("abort" \in Faults \/ schema = "combined")
    /\ Return
    /\ UNCHANGED <<disk, clock, dir, schema, trace, config, target, gaps>>

-----------------------------------------------------------------------------
(* write_configuration() *)

Executed(run)  == \E i \in DOMAIN run.rows : run.rows[i].mode = "exec"
Executions     == FoldLeft(LAMBDA found, r : IF Executed(trace[r]) THEN Append(found, r) ELSE found,
                           <<>>, [r \in DOMAIN trace |-> r])
\* Faulty variant: the query is not sorted from the last.
LastExecutionFirst == IF Executions = <<>> THEN <<>> ELSE <<Head(Executions)>>

LastExecution  == IF Executions = <<>> THEN <<>> ELSE <<Last(Executions)>>

\* load_config() accepts the file.
Loads(c) == c.exists /\ c.valid

\* The configuration written: every top-level process that executed a file, or
\* those of the configuration in place and the last one.  Nothing else of the
\* old configuration is kept.  sort: --dont-identify-packages was not given.
Configuration(overwrite, sort) ==
    LET found == get_files(trace, disk)
        ident == IF sort THEN identify_packages(found.files)
                 ELSE [files |-> found.files, packages |-> [p \in Packages |-> {}]]
        runs  == IF overwrite \/ ~config.exists THEN Executions
                                                ELSE config.runs \o LastExecution
        io    == compile_inputs_outputs(Len(runs), found.inputs, found.outputs)
        none  == [read_runs |-> {}, write_runs |-> {}]
    IN  [exists |-> TRUE, valid |-> TRUE, asWritten |-> TRUE, runs |-> runs,
         files |-> ident.files, packages |-> ident.packages, packed |-> Packages,
         patterns |-> {}, iofiles |-> DOMAIN io,
         use |-> [f \in Files |-> IF f \in DOMAIN io THEN io[f] ELSE none],
         disk |-> disk]

\* What config.yml may be until save_config() ends: it does not load, or loads
\* without the files and perhaps the runs.
Torn(c) ==
    LET cut == [c EXCEPT !.asWritten = FALSE, !.files = {}, !.packages = [p \in Packages |-> {}]]
    IN  {[cut EXCEPT !.valid = FALSE], cut, [cut EXCEPT !.runs = <<>>]}

\* Up to save_config(), whose open() empties the file.  The query fails on
\* combined tables, which have no exit_timestamp.
Configure ==
    /\ pc = "configuring"
    /\ \/ /\ schema = "tracer" /\ (loc.overwrite \/ ~config.exists \/ Loads(config))
          /\ \E sort \in BOOLEAN :
              LET c == Configuration(loc.overwrite, sort)
              IN  /\ Len(c.runs) <= MaxRuns
                  /\ Step("saving", [all |-> loc.overwrite \/ ~config.exists, config |-> c])
                  /\ config' \in Torn(c)
          /\ UNCHANGED gaps
       \/ /\ schema = "combined" \/ ~(loc.overwrite \/ ~config.exists \/ Loads(config))
          /\ Return /\ gaps' = gaps \cup {"killed"} /\ UNCHANGED config
    /\ UNCHANGED <<disk, clock, dir, schema, trace, target>>

Save ==
    /\ pc = "saving"
    /\ config' = loc.config
    /\ gaps' = IF loc.all THEN gaps \ {"killed"} ELSE gaps
    /\ Return
    /\ UNCHANGED <<disk, clock, dir, schema, trace, target>>

-----------------------------------------------------------------------------
(* reset and combine *)

Reset ==
    /\ Idle /\ Moved /\ dir
    /\ Step("configuring", [overwrite |-> TRUE])
    /\ UNCHANGED <<disk, clock, dir, schema, trace, config, target, gaps>>

\* combine_traces() of this trace and another, then write_configuration().
Combine ==
    /\ Idle /\ Moved /\ dir
    /\ \E other \in Others :
        /\ Len(trace) + Len(other) <= MaxRuns
        /\ trace' \in {trace \o other, other \o trace}
    /\ schema' = "combined"
    /\ Step("configuring", [overwrite |-> TRUE])
    /\ UNCHANGED <<disk, clock, dir, config, target, gaps>>

-----------------------------------------------------------------------------
(* pack *)

Listed(c) == c.files \cup UNION {c.packages[p] : p \in c.packed}

\* canonicalize_config()
Canonical(c, sort) ==
    LET add  == c.patterns \cap disk
        new  == IF sort THEN identify_packages(add)
                ELSE [files |-> add, packages |-> [p \in Packages |-> {}]]
        both == combine_files(new, c)
    IN  [c EXCEPT !.files = both.files, !.packages = both.packages, !.patterns = {}]

\* pack() refuses a target that exists; the target is created before the files
\* are read.
PackStarts ==
    /\ Idle /\ ~target.exists /\ Loads(config)
    /\ \E sort \in BOOLEAN : Step("packing", Canonical(config, sort))
    /\ target' = Partial
    /\ UNCHANGED <<disk, clock, dir, schema, trace, config, gaps>>

\* Faulty variant: the lists keep the missing files.
PackAddsKeepsLists ==
    /\ pc = "packing"
    /\ Step("packed data", [data |-> Listed(loc) \cap disk, disk |-> disk, config |-> loc])
    /\ UNCHANGED <<disk, clock, dir, schema, trace, config, target, gaps>>

\* Missing files are dropped from the lists.
PackAdds ==
    /\ pc = "packing"
    /\ Step("packed data",
            [data |-> Listed(loc) \cap disk, disk |-> disk,
             config |-> [loc EXCEPT !.files = @ \cap disk,
                                    !.packages = [p \in Packages |->
                                        IF p \in loc.packed THEN @[p] \cap disk ELSE @[p]]]])
    /\ UNCHANGED <<disk, clock, dir, schema, trace, config, target, gaps>>

PackEnds ==
    /\ pc = "packed data"
    /\ target' = [exists |-> TRUE, done |-> TRUE, config |-> loc.config,
                  data |-> loc.data, trace |-> trace, disk |-> loc.disk,
                  rebooted |-> "reboot" \in gaps]
    /\ Return
    /\ UNCHANGED <<disk, clock, dir, schema, trace, config, gaps>>

\* An error, or a kill, leaves the target as it is.
PackFails ==
    /\ "crash" \in Faults /\ pc \in {"packing", "packed data"}
    /\ Return
    /\ UNCHANGED <<disk, clock, dir, schema, trace, config, target, gaps>>

-----------------------------------------------------------------------------
(* The pack as reprounzip reads it *)

\* RPZPack(): a pack that was not finished is not a tar file, or one without
\* its version.
Opens(p)   == p.exists /\ p.done
RPZPack(p) == [config |-> p.config, trace |-> p.trace, data |-> p.data]

\* load_config(canonical=True) of reprounzip, with which every unpacker starts.
CanonicalLoads(c) == Loads(c) /\ c.patterns = {}

-----------------------------------------------------------------------------
(* The user and the machine *)

\* A bound: one edit between two writes of the configuration.  A path given
\* twice in inputs_outputs does not load.
EditConfig ==
    /\ Idle /\ Moved /\ Loads(config) /\ config.asWritten
    /\ \/ \E p \in Packages : config.packages[p] # {}
                              /\ config' = [config EXCEPT !.asWritten = FALSE, !.packed = @ \ {p}]
       \/ \E f \in config.files : config' = [config EXCEPT !.asWritten = FALSE, !.files = @ \ {f}]
       \/ \E f \in Files : config' = [config EXCEPT !.asWritten = FALSE, !.patterns = @ \cup {f}]
       \/ config.iofiles # {} /\ config' = [config EXCEPT !.asWritten = FALSE, !.valid = FALSE]
    /\ UNCHANGED <<disk, clock, dir, schema, trace, target, pc, loc, gaps>>

RemoveFile ==
    /\ "remove" \in Faults /\ ((Idle /\ Moved) \/ pc = "packing")
    /\ \E f \in disk : Cardinality(OnDisk \ (disk \ {f})) <= MaxGone /\ disk' = disk \ {f}
    /\ UNCHANGED <<clock, dir, schema, trace, config, target, pc, loc, gaps>>

RemovePack ==
    /\ Idle /\ target.exists /\ target' = NoPack
    /\ UNCHANGED <<disk, clock, dir, schema, trace, config, pc, loc, gaps>>

Kill ==
    /\ "crash" \in Faults /\ pc \in {"tracing", "configuring", "saving"}
    /\ gaps' = IF pc = "tracing" \/ (pc = "configuring" /\ ~config.exists)
               THEN gaps ELSE gaps \cup {"killed"}
    /\ Return
    /\ UNCHANGED <<disk, clock, dir, schema, trace, config, target>>

Reboot ==
    /\ "reboot" \in Faults /\ Idle /\ Moved /\ clock > 0
    /\ clock' = 0
    /\ gaps' = IF trace = <<>> THEN gaps ELSE gaps \cup {"reboot"}
    /\ UNCHANGED <<disk, dir, schema, trace, config, target, pc, loc>>

Next ==
    \/ Trace \/ TracerCommits \/ TracerFails \/ Configure \/ Save \/ Reset \/ Combine
    \/ PackStarts \/ PackAdds \/ PackEnds \/ PackFails
    \/ EditConfig \/ RemoveFile \/ RemovePack \/ Kill \/ Reboot

Spec == Init /\ [][Next]_vars

-----------------------------------------------------------------------------
(* Properties *)

AllExecuted == \A i \in DOMAIN trace : Executed(trace[i])

\* The configuration is that of the whole trace: no command failed to execute,
\* none was killed before it was written, nothing was combined.
Settled ==
    /\ Idle /\ Loads(config)
    /\ schema = "tracer" /\ "killed" \notin gaps /\ AllExecuted

\* docs/packing.rst: a run is appended by 'trace --continue', and 'reset' puts
\* the configuration back to its initial state: its runs are those of the
\* trace, in order, whatever sequence of commands, aborts and edits made it.
RunsConfigured == Settled => config.runs = [i \in DOMAIN trace |-> i]

\* The uses of a file by a run, read from what the run did, not from timestamps.
Uses(rows, f) == {i \in DOMAIN rows : rows[i].file = f}
ModesOf(r, f) == {trace[r].rows[i].mode : i \in Uses(trace[r].rows, f)}
EverExecuted(f) == \E r \in DOMAIN trace : "exec" \in ModesOf(r, f)
OnlyReads(r, f) == "read" \in ModesOf(r, f) /\ "write" \notin ModesOf(r, f)
WritesFirst(r, f) ==
    LET rows == trace[r].rows
        rw   == {i \in Uses(rows, f) : rows[i].mode # "stat"}
    IN  rw # {} /\ rows[Min(rw)].mode = "write"

\* The comment save_config() writes: "Inputs are files that are only read by a
\* run", "Outputs are files that are generated by a run", and each is listed
\* for exactly those runs, as long as the clock did not restart between two.
FilesOfTheirRuns ==
    Settled /\ "reboot" \notin gaps =>
        \A f \in config.disk \ (Magic \cup System) : ~EverExecuted(f) =>
            /\ config.use[f].write_runs = {r \in DOMAIN trace : WritesFirst(r, f)}
            /\ config.use[f].read_runs  = IF f \in Hidden THEN {}
                                          ELSE {r \in DOMAIN trace : OnlyReads(r, f)}

\* What every unpacker relies on: the configuration in a pack that opens loads,
\* and lists the files the pack holds, whatever was edited, removed or moved to a
\* package between the trace and the pack.
PackListsItsData ==
    Opens(target) => LET p == RPZPack(target)
                     IN  CanonicalLoads(p.config) /\ p.data = Listed(p.config)

\* How a trace first uses a file.
FirstUse(t, f) ==
    LET rows == Rows(t)
        rw   == {i \in Uses(rows, f) : rows[i].mode # "stat"}
    IN  IF rw # {} THEN rows[Min(rw)].mode ELSE IF Uses(rows, f) # {} THEN "stat" ELSE "none"

\* The pack can be run somewhere else: made from a configuration as it was
\* written, it holds every file that the runs in its trace used before they
\* wrote it and that still existed.
PackComplete ==
    /\ Opens(target) /\ target.config.asWritten /\ ~target.rebooted
    /\ target.config.runs = [r \in DOMAIN target.trace |-> r]
    => \A f \in target.disk \ Magic :
          FirstUse(target.trace, f) \in {"exec", "read", "stat"} => f \in RPZPack(target).data
=============================================================================
