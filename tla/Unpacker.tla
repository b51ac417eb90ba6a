------------------------------ MODULE Unpacker ------------------------------
(***************************************************************************)
(* What the unpackers of reprounzip share (unpackers/common/misc.py): the  *)
(* experiment directory, the dictionary pickled in its .reprounzip file,   *)
(* and the status this dictionary keeps of every input and output file.    *)
(*                                                                         *)
(* One command of the user runs at a time.  pc, dct and loc are where it   *)
(* is, the dictionary it holds in memory and its other local variables;    *)
(* every call to an external program, and every write of the dictionary,   *)
(* is a step of its own, so that a failure or a crash can fall between.    *)
(***************************************************************************)
EXTENDS Integers, Sequences, FiniteSets, Functions

CONSTANTS
    IoFiles,     \* the names in inputs_outputs
    Origin,      \* where each comes from: other_files, a packed package, a
                 \* package left out of the pack, or nowhere (not packed)
    ReadBy,      \* read_runs of each
    WrittenBy,   \* write_runs of each
    NRuns,       \* how many runs were traced
    LocalFiles,  \* paths of the user's own files
    UploadArgs,  \* the arguments 'upload' is called with
    RunArgs,     \* the runs 'run' is called with
    Faults       \* what may go wrong: see the actions

VARIABLES
    dir,      \* the target directory exists
    meta,     \* what its .reprounzip holds
    backup,   \* content the archive kept in it can restore: data.tgz, inputs.tar.gz
    pc, dct, loc,
    stale,    \* history: files whose status the code has let go wrong
    crashed,  \* history: a command was killed since the setup
    left      \* history: a directory was removed and something of it remains

sharedVars == <<dir, meta, backup, pc, dct, loc, stale, crashed, left>>

Runs     == 0 .. NRuns - 1
Contents == {"original", "installed", "generated", "absent"} \cup LocalFiles
World    == [IoFiles -> Contents]
Nothing  == [f \in IoFiles |-> "absent"]
Status   == {"None", "False", "True"} \cup LocalFiles
Image    == Nat     \* 0: none

Meta     == [unpacker: {"docker", "directory", "chroot", "vagrant"},
             input_files: [IoFiles -> Status],
             initial: Image, current: Image,   \* docker
             mounted: BOOLEAN,                 \* chroot
             use_chroot: BOOLEAN]              \* vagrant
NoMeta   == [unpacker |-> "none"]

\* The locals of a command: the runs to execute, the files really written, those
\* of them whose status is not told, the file specifications left, the files
\* copied for 'docker build', the image and the container at hand, and the
\* function that comes next.
NoLoc    == [runs |-> {}, wrote |-> {}, told |-> {}, specs |-> <<>>, staged |-> <<>>,
             image |-> 0, box |-> 0, then |-> "none"]

Spec_    == [from: LocalFiles \cup {"restore", "missing"},
             name: IoFiles \cup {"unknown"}, bypath: BOOLEAN]

ASSUME UnpackerAssumption ==
    /\ NRuns \in Nat
    /\ Origin \in [IoFiles -> {"other", "packed", "unpacked", "none"}]
    /\ ReadBy \in [IoFiles -> SUBSET Runs] /\ WrittenBy \in [IoFiles -> SUBSET Runs]
    /\ UploadArgs \subseteq Seq(Spec_) /\ RunArgs \subseteq Seq(Nat \X Int)
    /\ LocalFiles \cap {"original", "installed", "generated", "absent",
                        "None", "False", "True", "restore", "missing"} = {}

SharedTypeOK ==
    /\ dir \in BOOLEAN /\ crashed \in BOOLEAN /\ left \in BOOLEAN
    /\ meta \in Meta \cup {NoMeta} /\ dct \in Meta \cup {NoMeta}
    /\ backup \in World
    /\ stale \in SUBSET IoFiles
    /\ loc.runs \subseteq Runs /\ loc.wrote \subseteq IoFiles
    /\ loc.specs \in Seq(Spec_)
    /\ ~dir => meta = NoMeta

SharedInit ==
    /\ dir = FALSE /\ meta = NoMeta /\ backup = Nothing
    /\ pc = "idle" /\ dct = NoMeta /\ loc = NoLoc
    /\ stale = {} /\ crashed = FALSE /\ left = FALSE

-----------------------------------------------------------------------------
(* The pack. *)

Packed(f)   == Origin[f] \in {"other", "packed"}
DataTgz     == [f \in IoFiles |-> IF Packed(f) THEN "original" ELSE "absent"]
OutputsOf(rs) == {f \in IoFiles : WrittenBy[f] \cap rs # {}}

\* Faulty variant: the bounds are compared with > instead of >=.
GetRunsOffByOne(arg) ==
    LET Last(i) == IF arg[i][2] = -1 THEN NRuns - 1 ELSE arg[i][2]
        Bad(i)  == arg[i][1] > NRuns \/ Last(i) > NRuns \/ Last(i) < arg[i][1]
    IN  CASE arg = <<>> -> Runs
          [] \E i \in DOMAIN arg : Bad(i) -> {}
          [] OTHER -> UNION {arg[i][1] .. Last(i) : i \in DOMAIN arg}

\* get_runs(): the runs named by an argument, a list of ranges where -1 leaves
\* the end open; the empty list stands for no argument, that is every run.
\* {} when the function exits instead.
GetRuns(arg) ==
    LET Last(i) == IF arg[i][2] = -1 THEN NRuns - 1 ELSE arg[i][2]
        Bad(i)  == arg[i][1] >= NRuns \/ Last(i) >= NRuns \/ Last(i) < arg[i][1]
    IN  CASE arg = <<>> -> Runs
          [] \E i \in DOMAIN arg : Bad(i) -> {}
          [] OTHER -> UNION {arg[i][1] .. Last(i) : i \in DOMAIN arg}

-----------------------------------------------------------------------------
(* The status of the files. *)

metadata_initial_iofiles ==
    [f \in IoFiles |-> IF Packed(f) THEN "None" ELSE "False"]

metadata_update_run(files, runs) ==
    [f \in IoFiles |-> IF f \in OutputsOf(runs) THEN "True" ELSE files[f]]

NewMeta(type) ==
    [unpacker |-> type, input_files |-> metadata_initial_iofiles, initial |-> 0,
     current |-> 0, mounted |-> FALSE, use_chroot |-> FALSE]

\* The meaning the docstring of metadata_initial_iofiles() gives to a status.
Tells(status, content) ==
    CASE status = "None"  -> content \in {"original", "installed"}
      [] status = "False" -> content = "absent"
      [] status = "True"  -> content = "generated"
      [] OTHER            -> content = status

-----------------------------------------------------------------------------
(* A command: target_must_exist and metadata_read() first, then its steps. *)

Idle == pc = "idle"

Reads(type) == Idle /\ dir /\ meta.unpacker = type

\* metadata_write()
Writes(d) == meta' = d

Call(label, d, l) == pc' = label /\ dct' = d /\ loc' = l
Continue(label)   == pc' = label /\ UNCHANGED <<dct, loc>>
Return            == Call("idle", NoMeta, NoLoc)

\* Every setup refuses an existing directory.  A bound: no new setup when an
\* image, a machine or a mount remains of the last one.
CanSetUp == Idle /\ ~dir /\ ~left

\* The unpacked directory is complete.
Unpacked(m, archive) ==
    /\ dir' = TRUE /\ meta' = m /\ backup' = archive /\ crashed' = FALSE
    /\ UNCHANGED left
    /\ stale' = {f \in IoFiles : Origin[f] = "unpacked" /\ m.unpacker # "directory"}

\* The directory exists, with no .reprounzip: the setup gave up.
LeftBehind == dir' = TRUE /\ UNCHANGED <<meta, backup, stale, crashed, left>>

RmTree(remains) ==
    /\ dir' = FALSE /\ meta' = NoMeta /\ backup' = Nothing
    /\ left' = (left \/ remains)
    /\ stale' = {} /\ crashed' = FALSE

KeepDir == UNCHANGED <<dir, backup, left>>

-----------------------------------------------------------------------------
(* FileUploader.run(), one file specification at a time. *)

SpecOutcome(s) ==
    IF s.name = "unknown" \/ s.from = "missing" THEN "exit"
    ELSE IF s.from = "restore" /\ backup[s.name] = "absent" THEN "skip" ELSE "put"

Uploaded(s) == IF s.from = "restore" THEN backup[s.name] ELSE s.from

\* Faulty variant: a restored file keeps the status it had.
StatusAfterNotRestored(files, s) ==
    IF s.bypath \/ s.from = "restore" THEN files ELSE [files EXCEPT ![s.name] = s.from]

\* input_files is keyed by what the user typed: given as /path, the entry of
\* the file itself stays as it was.
StatusAfter(files, s) ==
    IF s.bypath THEN files
    ELSE [files EXCEPT ![s.name] = IF s.from = "restore" THEN "None" ELSE s.from]

StaleAfter(set, s) == IF s.bypath THEN set \cup {s.name} ELSE set \ {s.name}

-----------------------------------------------------------------------------
(* The process is killed: what it had done to the files stays untold.  A   *)
(* bound: once in the life of a directory.                                 *)

Crash(types) ==
    /\ "crash" \in Faults
    /\ ~Idle /\ ~crashed /\ meta.unpacker \in types
    /\ stale' = stale \cup loc.wrote
    /\ crashed' = TRUE
    /\ Return
    /\ UNCHANGED <<dir, meta, backup, left>>
=============================================================================
