# ReproZip: a TLA+ model of tracing, packing and unpacking, its model checking and its proofs

ReproZip runs a program under `ptrace(2)`, records the files it opens and the
processes it creates in an SQLite database, packs those files, and unpacks them
on another machine as a directory, a chroot, a Docker image or a Vagrant
machine. This directory holds TLA+ modules translated from the code, TLC runs
that check them on small instances, and proofs checked by TLAPS for every value
of the constants. It follows the data through the whole system: the
multi-threaded native tracer, what is read out of a trace and packed, the four
unpackers, and the graph drawn from a trace.

## 1. Inventory of the system

| Part | Source | State it keeps | Operations | Module |
|---|---|---|---|---|
| Tracer main loop | `native/tracer.c` | `processes[]`, thread groups, `tid_worker_pipe_list`, `pollfds`, `num_workers` | `fork_and_trace`, `trace`, `cleanup`, `sigint_handler` | `Tracer`, `ProcessTable` |
| System call workers | `native/syscalls.c` | per thread: `tid`, `process`; fields of the process slot | `syscall_handle`, one handler per call, `syscall_execve_event`, `syscall_fork_event` | `Tracer` |
| Remote memory access | `native/ptrace_utils.c` | none (one request in flight) | `tracee_getword`, `tracee_strlen`, `tracee_read`, `tracee_strdup` | `Tracer` |
| Worker vectors | `native/vector.c` | array, size, capacity | `vector_add/find/delete`, `vpollfd_add/delete` | `ProcessTable` |
| Trace database | `native/database.c` | one SQLite connection, one transaction, prepared statements | `db_init`, `db_add_*`, `db_close` | `Tracer`, `TraceDb` |
| Python binding | `native/pytracer.c` | none | argument conversion | - |
| Trace analysis | `reprozip/tracer/trace.py` | `config.yml` | `get_files`, `compile_inputs_outputs`, `write_configuration` | `TraceAnalysis`, `Packing` |
| Trace merging | `reprozip/traceutils.py` | target database | `combine_traces`, `combine_files` | `TraceAnalysis`, `Packing` |
| Package identification | `reprozip/tracer/linux_pkgs.py` | files not yet attributed | `search_for_files`, `identify_packages` | `TraceAnalysis` |
| Packing, filters | `reprozip/pack.py`, `common.py`, `filters.py` | the pack | `pack`, `canonicalize_config`, `load_config`, `save_config` | `Packing` |
| Unpackers, common | `reprounzip/unpackers/common/misc.py` | `.reprounzip` pickle, input file states | `FileUploader`, `FileDownloader`, `get_runs`, metadata | `Unpacker` |
| Directory and chroot | `reprounzip/unpackers/default.py` | `mounted` flag, mount points, the tree | `chroot_mount`, `chroot_run`, `unmount`, `destroy` | `LocalUnpacker` |
| Docker | `reprounzip-docker/.../docker.py` | `initial_image`, `current_image`, images, containers, input files | `setup`, `reset`, `run`, `upload`, `download`, `destroy` | `DockerUnpacker` |
| Vagrant | `reprounzip-vagrant/.../vagrant/__init__.py` | the machine, its mounts, input files | `setup`, `run`, `upload`, `download`, `suspend`, `destroy` | `VagrantUnpacker` |
| Graph | `unpackers/graph.py` | programs, edges | `read_events`, `generate`, `graph_dot`, `graph_json` | `Graph` |
| Info, command lines | `pack_info.py`, `main.py` | none | presentation | - |
| Qt interface, VisTrails | `reprounzip-qt`, `reprounzip-vistrails` | windows, modules | user interface | - |

How they interact: the tracer writes a database that the analysis turns into a
configuration file, which packing reads; an unpacker reads the pack and keeps
its own state in the experiment's directory; the graph reads a pack or a trace
directory. Within one command all of them are sequential except the tracer,
which is where the order of events is hard; in the others it is what is left
when a command fails, or is killed, between two of its effects.

**The tracer.** Only the thread that started a tracee may call `ptrace` on it.
The main thread therefore waits for stops, and for each system call stop writes
a `struct Process*` to the pipe of the tracee's worker thread. The worker runs
the handler. When the handler needs the tracee's memory, or is done and wants
the tracee to run, it writes a request to its other pipe; the main thread polls
those pipes, performs the `ptrace` call, and writes the result back into the
*same pipe that carries the pointers*. Fork, exec, exit and signal stops are
handled by the main thread itself. What is hard, and the property that says it
goes right:

- the child of a fork is seen before or after the fork event of its parent
  (`UnknownHasCreator`, `UniqueTids`, `CommitComplete`);
- a pointer and a result are both untyped words of one pipe (`PipesTyped`);
- two threads resume tracees: none twice, none never (`StopInHand`);
- a worker holds a pointer to a slot that others free and reuse
  (`WorkerOwnsSlot`);
- thread groups are shared and counted (`GroupRefs`), two vectors share an index
  (`VectorsAligned`);
- `execve()` changes the tid of the thread that calls it, and kills the others
  (`ExecOfCaller`);
- threads share a working directory, their workers resolve paths against it at
  their own pace (`RecordedPrefix`);
- tracees are killed at any time (`ExitsRecorded`, `AllProcesses`,
  `OnlyKillsAbort`), insertions fail, ^C arrives (`CommitComplete`);
- and the whole must end (`EventuallyFinished`).

**From the trace to the pack.** The configuration is written from the rows of
the database, sorted by time; each `--continue` appends to the one in place, the
user edits it, and `pack` reads it later, on a disk that may have changed. Hard:
which run a row belongs to is told by timestamps (`FilesOfTheirRuns`); the list
of runs is extended from a configuration that a kill, a reset or a failing
command may have left behind the trace (`RunsConfigured`); files vanish while
the pack is made (`PackListsItsData`); and all that the runs needed must be in it
(`PackComplete`).

**The unpackers.** Every command reads the pickled dictionary `.reprounzip`,
calls external programs (docker, vagrant, ssh, mount) that may fail, and writes
the dictionary back at some point between them. Hard: what the dictionary says
of the files must be true of them (`StatusTold`); images must neither be removed
while recorded nor pile up unrecorded (`InitialImageKept`, `CurrentImageExists`,
`NoImageLost`); a tree in which the host's `/dev` is mounted must not be removed
(`HostSafeUnlessTorn`, `MountsRecorded`, `HostSafe`); and whatever fails or is
killed, the contents of the experiment change by a run, an upload or a reset, all
at once (`ImplementsExperiment`).

**The graph.** A program is a process *and* the binary it runs. Hard: rows of
processes arrive interleaved, an exec before which nothing happened is folded
into the program that forked, and levels of detail hide threads, processes or
packages (`EdgesOfPrograms`, `LineageShown`, `EndpointsDrawn`, `JsonWritten`).

## 2. Modules

| Module | What it is |
|---|---|
| `Linux` | The tracer's environment, external to the repository: tracees, their stops, `ptrace(2)` and `wait(2)` as the tracer uses them, and the history `did` of what each tracee really did |
| `ProcessTable` | The tables as values: slots, `trace_find_process`, `trace_get_empty_process`, `trace_free_process`, thread groups, `vector.c` |
| `Tracer` | The tracer: main thread, workers, pipes, database; the specification and its properties |
| `TraceLog` | What the tracer promises, abstractly: programs do things, a log follows them, and is closed when it has everything |
| `TraceDb` | The SQLite connection statement by statement, main thread and workers on it at once |
| `TraceAnalysis` | Operators: files, inputs, outputs and packages read out of a trace |
| `Packing` | The trace directory and the pack: `trace`, `reset`, `combine`, `pack`, the user's edits, kills and reboots |
| `Unpacker` | What the unpackers share: the directory, its dictionary, the status of the files, uploads, kills |
| `DockerUnpacker`, `LocalUnpacker`, `VagrantUnpacker` | One unpacker each, every external call a step |
| `Unpackers` | The unpackers side by side on one directory, and the map to `Experiment` |
| `Experiment` | What an unpacked experiment is for its user, abstractly |
| `Graph` | `read_events()` row by row; filters, levels, DOT and JSON as operators |
| `MCTracer`, `MCTraceDb`, `MCPacking`, `MCUnpackers`, `MCGraph` | The modules the runs name |
| `TracerTables`, `TracerPipes`, `TracerStops`, `TracerTrace` | Proofs about `ProcessTable` and `Tracer` |
| `PackingProofs`, `GraphProofs` | Proofs about `Packing`, `Graph` |
| `UnpackersProofs`, `ExperimentProofs` | Proofs about `Unpackers`: mounts and initial image; types, images and the refinement of `Experiment` |

### `Tracer` against the code

| `Tracer` | Code |
|---|---|
| `procs` | `processes[]`; a slot number is a `struct Process*` (the table grows by adding blocks, slots never move) |
| `groups` | `struct ThreadGroup`, keyed by tgid: `refs`, `wd` |
| `list`, `pollfds`, `num_workers` | `tid_worker_pipe_list`, `pollfds`, `num_workers` |
| `mpc`, `todo` | where `trace()` is: waiting, about to poll, serving the entries `poll()` found ready; or how `fork_and_trace()` ended |
| `workers` | each thread of `syscall_handle()`: idle (blocked for a pointer), `peek` or `resume` (blocked for a result), exited |
| `toWorker`, `toTracer` | the two pipes of a worker |
| `dbProcs`, `dbRows` | `processes`; `opened_files` and `executed_files` |
| `WaitNothing` ... `SignalForwarded` | one iteration of the `wait3()` half of `trace()`, one action per branch |
| `Poll`, `Serve` | the `read:` half |
| `StopHandled`, `StopPeeks`, `PathRead`, `PeekAgain`, `InsertFails`, `Answered`, `BadPointer` | a worker from one read of its pipe to the next |
| `Commit`, `Rollback`, `Interrupt` | the ends of `fork_and_trace()`, and the second ^C |

A stop reported by the main loop falls into exactly one `WaitStep` action,
which does all that the loop does with it, including the database insertion,
the resumption and the choice to poll or to wait again (`continue` in the code
goes back to `wait`). A NULL thread group or binary that the code would
dereference sends `mpc` to `"segv"`; where the guard is a condition of the code
and the outcome is `return -1`, `mpc` is `"failed"`. A failing insertion of the
main thread is the disjunct `InsertionFails`.

`TraceLog` and the map from `Tracer` to it: `happened` is the kernel's history
`did`, `recorded` what the database holds for each tid, `closed` is
`mpc = "committed"`. The steps of `TraceLog` are "a program does something",
"the log gets the next thing some program did", "the log is closed, complete".
It says in one formula that nothing is lost, reordered, recorded twice or for
another process.

### `Packing` against the code

`trace`, `config` and `target` are `trace.sqlite3`, `config.yml` and the `.rpz`
file; `pc` and `loc` are where a command is and what it holds. `Trace`,
`TracerCommits`, `TracerFails` are `trace()` up to and with
`_pytracer.execute()`; `Configure` and `Save` are `write_configuration()` up to
the `open()` that empties the file, and the rest of `save_config()`; between them
the file is any of `Torn`. `Reset`, `Combine`, `PackStarts`, `PackAdds`,
`PackEnds` are the other commands. `get_files` is a fold of `Account`, one turn
of the loop over the rows, with the code's queue of the runs' start times; the
properties judge it by what the runs did, in the order they did it, never by
timestamps. `gaps` remembers what the code cannot know: a command killed between
the commit and the configuration, a clock that restarted.

Left out: links and directories (a file stands for what its path resolves to),
the names given to inputs and outputs, sizes, the databases of dpkg and rpm (a
package *claims* files), the plugins of `filters.py` (the set `Hidden`), the
renumbering of ids by `combine`, done in SQL.

### The unpackers against the code

`dir`, `meta` and `backup` are the target directory, its `.reprounzip` and the
archive restored from; `pc`, `dct` and `loc` are where the command is, the
dictionary it loaded and its locals. A command starts with `Reads(type)`
(`target_must_exist`, `metadata_read`), and each call of an external program and
each `metadata_write` is a step, so that a failure or a kill falls between any
two. `images` and `boxes` are what the Docker daemon holds, `mounts` what is
mounted under `target/root` (a count for each point), `vm` the virtual machine.
The guard of an action is a condition or an early return of the command; the
failing branch of a call is a disjunct under an element of `Faults`.

The history variables are `stale` (files of which the code has let the status go
wrong, each at a line named in the module), `crashed`, `torn` (a mount command
stopped half-way), `hostWiped`, `destroyed`, `kept` (images whose removal the
daemon refused) and `left` (something of a removed directory remains).

`Experiment` is the map's target: `state`, the contents `world` of the input and
output files, and `first`, what they were. Its steps are a setup, a run, an
upload, a reset and a loss. `Unpackers` maps the files of the current image, the
machine or the tree to `world`. What it shows is that the several steps of a
`docker commit` or of an upload are one change of the experiment, at the step
where the recorded image changes.

Left out: the copies that `download` makes (it changes nothing of the experiment;
its container and its machine are modelled), the install of packages, X11,
signals, the interactive shell. One command at a time: nothing in reprounzip
locks a directory, so two at once are the user's doing.

### `Graph` against the code

A step is one turn of the loop of `read_events()` on the rows sorted by time; it
does to `all_programs`, `processes` (the map from process ids), `run` and `edges`
what that turn does. `alive`, `leader`, `running`, `did` and `hasty` are the
traced processes themselves. `generate`, `dot_endpoint`, `graph_dot`, `prog_map`,
`graph_json` are operators on the state, so that the properties about them are
checked for every trace and every combination of levels. `Filters` stands for
what `--regex-filter`, `--regex-replace` and `--aggregate` make of each path:
the regular expressions themselves, labels and colours are left out.

### What is abstracted in the tracer

- The directory the first process starts in is recorded twice (once by
  `db_add_first_process`, once by `fork_and_trace`); in the model both rows are in
  the database, and in `did`, from the start.
- A directory is its depth below the initial one, a path is relative, `chdir`
  goes down one level: enough to tell a path resolved against the right
  directory from one that is not. Strings and byte-wise reads are not modelled;
  a path is one successful peek.
- The calls are `open`, `chdir`, `fork`, `clone` (of a thread), `execve`, `exit`
  and `exit_group`. `link`, `rename`, `stat`, `mkdir`, `readlink`, `*at` and
  sockets go through the same protocol as `open` and are left out, with `vfork`
  and `clone` of a process, which go the way of `fork`.
- Tids are not reused. Group stops (SIGSTOP delivered to a running tracee),
  SIGTRAP, CPU times, the capacity of the vectors, verbosity and the register
  layouts of the architectures are left out.
- Atomicity: the handling of one stop by the main thread is one step, and so is
  what a worker does between two reads of its pipe. The worker's writes to the
  table race with the main thread in C without any lock. The one race known to
  matter inside such a step, `chdir()` replacing the `wd` that another worker is
  reading (`syscalls.c:351`), is listed as a hazard and is not shown by these
  runs; the order of whole steps is.
- The kernel's side is the part of `ptrace(2)` the code relies on. Two facts of
  it carry much weight: a child's first stop and its parent's fork event may be
  reported in either order, and a leader's exit is reported after the exits of
  its threads.

## 3. Runs

`tlc -config X.cfg M`, where M is `MCTracer`, `MCTraceDb`, `MCUnpackers`,
`MCPacking` or `MCGraph`, each about two minutes at most.

| Run | Instance | What it shows |
|---|---|---|
| `tracer_forks` | 3 tids; open, chdir, fork, execve; 3 calls | `TypeOK`, `StopInHand`, `WorkerOwnsSlot`, `UnknownHasCreator`, `CommitComplete`, `AllProcesses`, and that `Tracer` implements `TraceLog` |
| `tracer_threads` | 3 tids; open, clone, exit, exit_group; 3 calls | `UniqueTids`, `GroupRefs`, `PipesTyped`, `RecordedPrefix` |
| `tracer_kills` | 2 tids; open, fork; SIGKILL anywhere; 4 calls and kills; fair | `PipesTyped`, `StopInHand`, `ExitsRecorded`, `OnlyKillsAbort`, `EventuallyFinished` |
| `tracer_exec` | 2 tids; clone, execve, exit; failing insertions | `VectorsAligned`, `GroupRefs`, also after the pipes are out of step |
| `tracer_faults` | 2 tids; open, chdir, fork, execve; signals, failing calls and insertions, bad pointers, ^C | what is committed is complete, and every row is right |
| `unpackers` | the four unpackers; 3 files, 2 runs; failing docker, ssh, mount, umount, provisioning, setups; kills and reboots | `StatusTold`, `InitialImageKept`, `CurrentImageExists`, `NoImageLost`, `HostSafeUnlessTorn`, `MountsRecorded`, and that `Unpackers` implements `Experiment` |
| `packing` | 6 files, 3 programs, 2 packages, 2 runs; aborts, kills, reboots, vanishing files | `RunsConfigured`, `FilesOfTheirRuns`, `PackListsItsData`, `PackComplete` |
| `graph` | every trace of 6 rows with 3 processes, 2 binaries, 2 files | `EdgesOfPrograms`, `LineageShown`, `EndpointsDrawn`, `JsonWritten` |
| `tracer_unknown` | 3 tids; clone, fork | violates `UnknownHasCreator` |
| `tracer_confusion` | 2 tids; clone, execve | violates `ExecOfCaller` |
| `tracedb_rowid` | 3 processes, 5 opened files | violates `FilesOfProcesses` |
| `unpackers_host` | 1 file; failing mounts | violates `HostSafe` |

**Bounds of the tracer.** `MaxCalls` is the number of calls, signals and kills
of a behaviour; exits are free. `InitSlots` is 1, where the code has 16, so that
the table doubles in every run with a fork: the doubling matters, the number does
not. Three tids give a process, its child and a grandchild or a sibling, so a
fork event, a first stop and an exit of three different processes can be
pending together; where the property needs two actors two tids are used. Three
calls are enough for a fork by each of two processes and a call in the child,
for a thread and a path used by its leader, and for two threads in `execve` at
once. `tracedb_rowid` needs three processes, one that forks, the one that is
made and one whose worker inserts a row meanwhile.

**Bounds of the unpackers.** Three images: the initial one, the current one and
the one being made. One container at a time: the daemon's refusal to remove an
image needs one. Mounts are stacked twice at most, the machine's once. The three
files are one that was packed, an output that was not, and one of a package left
out of the pack; a run reads and writes some of them, and the uploads restore a
file, replace it by name and by path, and fail in the middle. A command is killed
once in the life of a directory, `docker rmi` fails for no reason only while no
other image was refused (it fails whenever a container uses the image), and no
new setup follows a removal that left an image, a machine or a mount: the next
directory would not see it.

**Bounds of packing.** Two runs (`MaxRuns`), one file of those there at first may
be missing at a time (`MaxGone`), the configuration is edited once between two
writes, and a pack is moved away before the next command that is not `pack`. Two
runs suffice for a run to take the place of another; the programs write what
others read, and one makes the program another executes. The clock restarts when
the trace is replaced, which keeps it bounded by the length of two runs.

**Bounds of the graph.** Six rows (`MaxRows`) and three processes (`MaxProcs`):
two runs, or a thread of a thread, or a child that executes twice.

**Deadlock** is checked in every run of `Tracer`: `Stops` lets the model stutter
only once the tracer has ended. The others may stop where the system may: `TraceDb`
when every process has exited, `Unpackers` when what is left of a removed
experiment forbids a new setup, `Packing` at an error with the trace complete,
`Graph` at the end of the rows.

**Fairness** (`FairSpec`, run `tracer_kills`): weak fairness of the main thread
(it polls with a 50 ms timeout and then waits without blocking, so it never
stays asleep), of each worker (a POSIX thread blocked on a pipe runs when there
is something to read), and of each tracee for what programs do themselves; not
for kills and signals, which need not happen. The commands of the other parts
are calls of a sequential program that the user makes or not: no liveness is
claimed of them.

**What the passing runs leave out**, because it is wrong there: `tracer_forks` has
no threads, `tracer_threads` no `execve`, `chdir` or `fork`, and only `tracer_kills`
has SIGKILL. The preconditions in the properties of the other runs (`stale`,
`torn`, `crashed`, `gaps`, `hasty`) name what the code gets wrong; section 4 says
where.

## 4. What the violating runs show

- `tracer_unknown`. The comment at `tracer.c:462` says that only UNKNOWN
  processes remaining "can't happen", as each has a creator in the table. A
  thread's `exit_group()` (or SIGKILL) may end the creator between the child's
  first stop and its own fork event. The event is never reported, the child
  stays UNKNOWN and stopped, and the trace is rolled back when the others end.
- `tracer_confusion`. `syscall_execve_event()` takes the leader's own
  `execve_info` if there is one. If the leader is in `execve()` as well, and is
  killed by the thread whose call succeeds, the leader's path is recorded. The
  comment at `syscalls.c:503` says that no confusion is possible.
- `tracedb_rowid`. `db_add_process()` inserts a process and then selects
  `last_insert_rowid()`, "Get id". Workers insert into `opened_files` on the same
  connection without a lock around the pair; SQLite answers with the rowid of
  whatever was inserted last, in any table. The new process then works under the
  number of an opened file, and all of its rows, and its children's `parent`,
  carry it.
- `unpackers_host`. `chroot_mount()` records the mounts after the last of them.
  When the one of `/dev/pts` or `/proc` fails, `/dev` stays bound and unrecorded;
  `chroot_destroy()`, "unmounting first if necessary", then removes the tree
  through it.

Seen while modelling, without a run of their own.

*Tracer.* When a thread's `execve()` takes over the leader's tid, the leader's
worker may be waiting for a result, and the next pointer arrives in its place:
`PipesTyped` fails with `clone` and `execve` together. A worker resolves a path
against its group's `wd` when it gets to it, so that another thread's `chdir()`,
made after that call, may be handled before it: `RecordedPrefix` fails with
`clone` and `chdir`. The last process of the table may be killed just after it
forked; the loop ends with `nprocs == 0` and commits, and the child is in no row:
`AllProcesses` fails with SIGKILL. A peek that fails answers -1, which holds no
zero byte, so `tracee_strlen()` reads on and the worker never comes back
(`ptrace_utils.c:107`); a handler that fails ends its worker and leaves the tracee
stopped for ever (`syscalls.c:1240`), so the trace never ends: this is why
`tracer_faults` states safety only.

*Packing.* `trace --continue` of a command that cannot be executed lists the
previous run twice (`trace.py:399`). `combine` leaves the `parent` column as it is
(`traceutils.py:188`) and makes tables without `exit_timestamp`, so that
`write_configuration()` fails on its result, which `docs/packing.rst:164` says is
packed like any other. `load_iofiles()` calls `.update` on a list when a path is
given twice (`common.py:367`), and so do packs from before 0.7 with a file used by
two runs.

*Unpackers.* The package installers never report a failure (`PKG_NOT_INSTALLED`
is compared with `None`). `destroy/docker` never writes the metadata. After a
reboot a chroot marked mounted can be neither unmounted nor destroyed: `umount`
is called with no argument. A machine created with `--dont-bind-magic-dirs` and a
chroot cannot be used: the directories its commands mount on are missing. The
`grep` for an earlier mount in it matches no line of `/proc/mounts`. `sys.exit` in a
setup leaves a directory without `.reprounzip`, which no command removes. A
download killed half-way leaves a file that the cache takes for complete
(`utils.py:395`).

*Graph.* The lambdas of `--regex-replace` close over the loop variable, so every
pattern is replaced by the last text (`graph.py:467`). `--json` with `--processes
run` fails, as `Process.json()` is called without its argument, and so it does
with `--processes process` when a thread forked, and with packages not shown as
files. With `--processes process` the arrows from a thread that forked start at a
node that is not drawn.

## 5. Proofs

`tlapm` proves these for every value of the constants, from their assumptions
alone: those of `Linux` and `ProcessTable` (`Tids` is a finite set of positive naturals with
`First` in it; `InitSlots` is positive), `UnpackerAssumption` and
`DockerAssumption` (the pack's files, runs and arguments are what their names
say), `LocalAssumption` and `VagrantAssumption` (the bounds on mounts are numbers), `TraceAnalysisAssumption` and `PackingAssumption`, `GraphAssumption`
(binaries are files, the filters map files to files or drop them). Some theorems
assume more. `InitialImageSafe`, `CurrentImageSafe`, `ImagesAccounted`, `StatusIsTold` and
`ExperimentImplemented` need an input or output file, as without one an
image and no image are the same value of the model. Those about the workers and the trace hold only
for some programs and faults, which each theorem states as a formula over the constants
`Calls` and `Faults`; section 4 has the runs that break them outside:

| Hypothesis | Says | Without it |
|---|---|---|
| `NoExecInThreads` | no program both clones threads and calls `execve()` | the `execve()` of a thread kills its leader in the middle of a conversation (`tracer_confusion`) |
| `SelfExits` | no threads, no kill from outside | a process that dies of another's `exit_group()` or of a signal frees its slot while its worker still writes to it, and takes with it the fork event that would have attached its child (`tracer_unknown`); a process killed between the end of a call and the stop that tells of it has no row for that call, so that `CommitComplete` fails; a thread's `chdir()` is handled after paths used since (section 4) |
| `Attentive` | no insertion fails; programs that call `execve()` are `SelfExits` | a worker whose insertion fails stops with its tracee in hand, and an `execve()` that is killed leaves a pending stop no worker expects |
| `Undisturbed` | no threads, no insertion fails, nobody presses ^C (processes may be killed) | `trace()` is left at the second ^C; a worker whose insertion fails stops answering; for threads `tracer_confusion` |

| Theorem | Says | Rests on |
|---|---|---|
| `TracerTables!VectorsStayAligned` | `[]VectorsAligned` | `VInv`: the vectors are equal sequences without duplicates; `DeleteKeeps` |
| `TracerTables!StateIsWellFormed` | `[]TInv`: types; every pointer sent to a worker or held by one is in the table; `poll`'s ready entries still have their request | `VInv` |
| `TracerTables!TypesHold` | `[]TypeOK` | `TInv` |
| `TracerTables!TidsStayUnique` | `[]UniqueTids` | `TablesInv` |
| `TracerTables!RefsCountUsers` | `[]GroupRefs` | `TablesInv` |
| `TracerPipes!PipesStayTyped` | `NoExecInThreads => []PipesTyped` | `TInv`, `TablesInv`, `PipesInv` |
| `TracerStops!WorkersOwnTheirSlots` | `SelfExits => []WorkerOwnsSlot` | `PipesInv`, `StillStopped` |
| `TracerStops!UnknownsAreAwaited` | `SelfExits => []UnknownHasCreator` | `PipesInv`, `CallOrder`, `StillStopped`, `CreatorsInv` |
| `TracerStops!StopsInHand` | `Attentive => []StopInHand` | `PipesInv`, `AttendInv` |
| `TracerTrace!ExitsAreRecorded` | `NoExecInThreads => []ExitsRecorded` | `TInv`, `PipesInv`, `LedgerInv` |
| `TracerTrace!AllProcessesRecorded` | `SelfExits => []AllProcesses` | `CreatorsInv`, `LedgerInv`, `ToldInv` |
| `TracerTrace!RowsAreHistory` | `SelfExits => []RecordedPrefix` | `PhaseInv`, `LedgerInv`, `RowsInv` |
| `TracerTrace!CommittedIsComplete` | `SelfExits => []CommitComplete` | `LedgerInv`, `ToldInv`, `RowsInv` |
| `TracerTrace!TracerImplementsLog` | without failing insertions, `SelfExits => ImplementsLog` | `PhaseInv`, `ToldInv`, `RowsInv`, `SomeLeft`, `Kept` |
| `TracerTrace!NothingElseAborts` | `Undisturbed => []OnlyKillsAbort` | `PipesInv`, `CallOrder`, `PhaseInv`, `Heard`, `SomeLeft` |
| `PackingProofs!PacksListTheirData` | `[]PackListsItsData` | `PackInv` |
| `PackingProofs!PackTyped` | `[]TypeOK` | `TypeInv` |
| `PackingProofs!RunsAreConfigured` | `[]RunsConfigured` | `TypeInv`, `RunsInv` |
| `PackingProofs!FilesAreOfTheirRuns` | `[]FilesOfTheirRuns` | `TypeInv`, `RunsInv`, `TimeInv`, `UseInv` |
| `PackingProofs!PacksAreComplete` | `[]PackComplete` | `TypeInv`, `RunsInv`, `Counted`, `TimeInv`, `CompleteInv` |
| `UnpackersProofs!HostSafety` | `[]HostSafeUnlessTorn` | `DictInv`, `MountInv` |
| `UnpackersProofs!RecordedMounts` | `[]MountsRecorded` | `DictInv`, `MountInv` |
| `UnpackersProofs!InitialImageSafe` | `[]InitialImageKept` | `DictInv`, `LocInv`, `ImageInv` |
| `ExperimentProofs!UnpackersTyped` | `[]TypeOK` | `DictInv`, `LocInv`, `MountInv`, `Owners`, `HomeInv` |
| `ExperimentProofs!CurrentImageSafe` | `[]CurrentImageExists` | `WholeInv`: those, `ImageInv`, `ShelfInv`, `KeepInv` |
| `ExperimentProofs!ImagesAccounted` | `[]NoImageLost` | `WholeInv` |
| `ExperimentProofs!ExperimentImplemented` | `ImplementsExperiment` | `WholeInv`, `Allowed` |
| `ExperimentProofs!StatusIsTold` | `[]StatusTold` | `WholeInv`, `TellInv` |
| `GraphProofs!GraphTyped` | `[]TypeOK` | `GraphInv` |
| `GraphProofs!Lineage` | `[]LineageShown` | `GraphInv` |
| `GraphProofs!EdgesHold` | `[]EdgesOfPrograms` | `EdgeInv` |
| `GraphProofs!Drawn` | `[]EndpointsDrawn` | `ThreadInv` |
| `GraphProofs!Written` | `[]JsonWritten` | `ThreadInv` |

*Types of the tracer* (`TInv`) is the conjunction of `KernelInv` (the tracees), `WellTyped`
(the tracer), `PointersInv` and `ServeInv`. Types alone are not inductive. A worker
writes to the slot whose pointer it holds, so pointers have to be in the table,
and they stay there because the table only grows. `Serve` reads the head of a
worker's pipe, so each entry in `todo` must have a request: only a worker adds
requests, and only `Serve` removes one, with its entry.

*Tables of the tracer* (`TablesInv`). `UniqueTids` and `GroupRefs` are not inductive: a fork
event makes the thread group of the child with `refs` 1, which is right only if no
slot points to that group yet. `NewGroups` says so for every unborn tid and for
every child whose fork event is still to come, and that no two pending events name
one child; `NullGroups` says that a FREE or UNKNOWN slot points to no group, so that
taking one for a new process changes no count. The steps fall in three kinds, with a
lemma for each: those that change neither tids, statuses nor groups of slots
(`AlikeKeepsTables`: all of the workers' steps), those that free a slot
(`FreeKeepsTables`: exit, exec, cleanup), and those that fill one (first stop, fork
event). That a step of the kernel or a `ptrace` request makes no tracee unborn and
no fork event out of nothing (`Quiet`) is what keeps `NewGroups`. These hold in the
model whether or not the pipes are out of step: a stray word read as a result
changes which row is recorded, never the tables.

*Pipes of the workers* (`PipesInv`). A worker reads pointers and answers from one untyped
pipe, so `PipesTyped` says that the words in it are those its next reads expect. To
keep it one has to know when the main thread sends a pointer: only on a syscall stop,
so that the worker must have no stop of that tracee in hand. `Pipes` says it: a worker
that is `Busy` has a tracee that waits for it, or is dead, and so does not stop. It also says which slot
the worker works on and what it asks. `Stages` ties the lists to the tracees: who is listed,
who is in use, who is UNKNOWN. `KernelOrder` and `SlotsInOrder` say which events a tracee
is stopped by and, without `clone`, that each thread group is one process. That is where
`NoExecInThreads` comes in: an `execve()` of a thread makes the leader stop, whose
worker may be serving the leader's own call.

*Tracer stops*. `WorkerOwnsSlot` follows from `StillStopped`: the tracee of a worker
that is at work is still in the ptrace-stop it was told of. Only a kill ends such a
stop from outside, which is what `SelfExits` excludes. `UnknownHasCreator` is not inductive
either. A fork event that comes first makes a slot ATTACHED, a first stop that comes first
makes one UNKNOWN; what holds of both orders is `Place`: a living tracee has a slot, or the
fork event that tells of it is still to come, and unless it is ATTACHED it is still in its
first stop. The parent of an UNKNOWN process has been run, so it is ATTACHED.
`CallOrder` says which events stop a tracee where in its call (no tracee is stopped by a fork
event but in `fork()`), `TraceeShapes` that a step of the kernel moves one tracee. `StopInHand` is proved from `AttendInv`: each
stop of a tracee is attended (`Attended`), being still to be reaped, in a pipe, or in
the hands of the worker, and no worker gives up with one in hand. A worker
gives up when it reads an answer it cannot use; `InfoFits` and `PeekFits` say that it
is never given one: the phase of its slot, what it asked for and the stop it was told of fit
together. `ForkTakes` and `ForkFills` say what a fork event does to the table, which
each of these proofs needs.

*What is recorded of the processes*. A row of the table `processes` is written twice, when the
process is told of and when its end is, and both times found through a slot that
is looked up by tid and reused. `LedgerInv` says that each row is either that of a slot
which has both its tid and its number, or has the status of a process that is gone; one slot per tid
(`TablesInv`) makes the row that gets an exit status the right one. `ToldInv` adds that every process
which was born has a row or a parent stopped by the fork event that will make it;
such a parent keeps its slot (`CreatorsInv`), so that the loop does not end before.

*Phase of a call.* `PhaseInv` says, for each slot that is followed, where the tracer
takes its process to be in its call, and that the call, its result and the flags it keeps are the
kernel's: `in_syscall` is told by counting stops, so this is what a missed or
doubled stop would break. `OnlyKillsAbort` follows from three more facts, which hold until a
process has been killed from outside: each process that entered a call is `Heard` (it has a worker, or
stands in the stop that gives it one, so that its exit is not of an unknown worker), `SomeLeft` (while the loop goes on, a slot is in use, so
that it does not wait for nobody), and every fork and exec event finds the slot it looks for in the
state it expects (`PhaseInv` again: a parent in `FORKING`).

*The rows* (`RowsInv`). `RecordedPrefix` compares rows with a history that is ahead of them by what is still in
the pipes, and the directory of a thread group with that of the process. Neither says by how much, so neither is
kept by the next row. `Owes` does: from the stop a process is in, and whether its
worker has finished with that stop, it tells which row is still to be written, if any. There is never more than
one, since the process does not run before its worker has answered. `Written` says that
the history is the rows and what is owed, and that the directory is the same but for an owed `chdir()`. It does so for
processes that have a slot, a worker that has not given up, and a loop that goes on; the others keep a
beginning of their history (`LogInv`), which needs that each process has one row in `processes`. `PhaseInv`
makes the handler that runs the one whose row is owed. `NewRows` carries the directory from the parent to the child over the
time between `fork()` and the fork event, in which the child may not have a slot yet, and `GoneRows` carries
the rows of a process beyond its slot, to the commit.

*The refinement of `TraceLog`* has its steps from the same invariant. A step of a tracee adds one entry to one history
(`TraceeAdds`, `HappenStep`). A step that adds a row adds it to one process (`RowAdded`, `ForkLogs`), and as the result
is again a beginning of the history (`LogInv'`), the row is the next entry. At the commit every
process is gone, and `GoneRows` makes the two equal (`CommitLogs`). A failed insertion ends in a rollback, which
takes back what the log has: without it `Kept` says that the loop does not give up.

*Packing* (`PackInv`). What `pack` lists and what it adds are computed in two steps,
with the disk changing between; the invariant says of the data held in between
that it is what the configuration held with it lists, and that this configuration
has no pattern left and loads.

*The runs of the configuration* (`RunsInv`). `write_configuration()` appends one run to the
list that a file holds, and nothing in the file says of which trace it is. The
invariant says it: a configuration that loads, in a trace where no command was killed
before its own was written, has all the runs, except between the commit of a run and
its configuration, when it has all but the last. `Counted` is what is left when a
command was killed: never more runs than the trace, so that a configuration with
as many is of all of them.

*The loop of `get_files()`*. The loop is told of runs only by their start times, which it
pops as it passes them. `TimeInv` says that a trace in which the clock never restarted
is `Ordered`: each run starts after the rows of those before it. Then the sort by
timestamp changes nothing (`RowsByTimeAre`), row *k* of all is a row of one run
(`Placed`, `Laid`), and the loop is in that run when it comes to the row with
exactly the later start times left (`LoopReaches`, from `PassedToRun`). What the loop
has made of a file so far tells what its rows were (`Tells`, kept by each turn,
`TellsNext`): for all runs together that gives the files to pack (`NeededFound`),
for each run its inputs and outputs (`RunTold`, `RunAccessed`, `UsesAre`). The loop ends
in the last run because each executed a file (`AllReached`), so that
`izip()` cuts none (`Zipped`). `UseInv` and `CompleteInv` carry this from
`write_configuration()` to the end of `save_config()`, through the edits and, for
`CompleteInv`, through `canonicalize_config()` and the two halves of `pack`.

*Induction over data*. The induction theorems of the library take an operator as a parameter, which the
provers cannot instantiate, so the proofs make do with sets. `Induction` takes the least number
outside a set of naturals, from the well-foundedness of `<`; `UpTo` is its form for `0 .. n`.
A loop over a sequence is `FoldLeft`, which the library defines by `CHOOSE` of a function on the
sets of places: `FoldExists` shows that there is one, `LoopTurns` that its values at
`1 .. k` are the states of the loop, and `FlattenJoins`, `RowsByTimeSorts`,
`AccountedTurns` and `ExecutionsFound` are the four loops of the model in that form. This is why
`RowsByTime` and `Executions` are folds: the library's sorts and filters of sequences are
not open to the provers.

*Unpackers*. `HostSafeUnlessTorn` is about one moment, when a tree is removed, and
depends on a flag written long before by another command. `MountInv` follows
mounts through the two commands that make and undo them: at each label of
`ChrootMount` and `ChrootUnmount` it says what may be mounted and what the flag
is. It needs `DictInv`, that the dictionary in memory belongs to the unpacker
whose command runs and has every key, since `ChrootMounted` writes that
dictionary back whole. `ImageInv` says of each label of the Docker commands which
image the locals name and that it is not the initial one wherever an image is
about to be removed. The other unpackers' steps change none of these variables:
the lemmas `Elsewhere` and `NotDocker` say so once.

*The whole of the unpackers* (`WholeInv`). Their types hold only where each command
finds what it works on: `BoxHeld` says that a run's container exists until it is
committed, `TreeInv` and `MachineInv` that there is a tree or a machine for the
directory it was made for, `MountRoom` that the points still to be mounted are not
at the bound; `Owners` says whose directory the commands that hold no dictionary work on. `CurrentImageExists` and
`NoImageLost` are about the moments between two commands, and `KeepInv` extends them to
every label: `CurrentKept` excepts the two labels at which the
recorded image is already removed and its successor not yet recorded, `ImagesKept` counts the image a
command has in hand as accounted for (`Given`). `ShelfInv` says which image that is: the
dictionary about to be written names an image that exists and is not the recorded one, and
the locals name the recorded one. It also says what is in it: an image committed after a run
is the old one with outputs of the run, an image built for an upload the old one with
uploaded files.

*The refinement.* The image that counts is `CurrentImage`, the recorded one or, once that is
removed, the one about to be recorded. `DockerSight`, `LocalSight` and `VagrantSight` say for each
unpacker what the abstract experiment is in terms of its own state. A step of the unpackers is then of one of
six kinds, with a lemma for each: nothing that is seen changes (`Same`), another image, tree or machine
takes its place that differs by outputs (`HasRun`) or by uploads (`HasFiles`), it is as it was unpacked (`AsUnpacked`:
a setup ends, or a reset), it is gone (`Lost`), or the command was interrupted (`Interrupted`), when
what it held in memory may have been all that named the successor of a removed image.

*The status of the files* (`TellInv`). Three copies have to agree at the end of a command: the
files themselves, the statuses of the dictionary in memory and those on the disk, while a kill at any
label leaves one written and not the next. For each unpacker `TellInv` says which files each copy may be wrong about at
each label: those known to be stale, those the command has in hand (`wrote`), and those it replaced under another
name than their own (`told`). Docker needs it of two images and of the Dockerfile, as `setup/build`
and `reset` change the image and keep the statuses. `RunWrites` is what makes the end of a
run right: what a run wrote is among the outputs whose status it sets.

*Graph*. `GraphInv` has the shape of the lists, where each process is (`Places`), what
each arrow says (`Arrows`) and the one root of each run (`Roots`). `LineageShown` is
not inductive: folding an exec into the program of its process changes a binary
that the arrows to its children speak of. It is kept because a program that has
children and whose process is not `hasty` is `Settled`: it was in an exec already,
or `--all-forks` was given, and then no exec changes it. `EdgeInv` adds that the
program of a living process has the binary it runs, and the same fact for programs
with edges, so that what an edge says stays said. `ThreadInv` adds who leads each
thread: `leader` never points forward, a program is a thread's when its process does not lead itself,
and the program it comes from then has the same leader. That the leader of
a thread has a program in the thread's run is then an induction on programs,
and it is the node that `dot_endpoint()` looks for and the entry that `json()` writes to.

**Only model-checked.** Liveness under fairness, which is out of the prover's reach, and
what the theorems' hypotheses leave out: `RecordedPrefix` in runs with threads or kills,
`PipesTyped` and `ExitsRecorded` where a thread calls `execve()`, `OnlyKillsAbort` with threads.
Every invariant that a passing run checks is also stated by a theorem, under those hypotheses.

## 6. Not modelled, and why

- The graphical interface and the VisTrails plugin: user interface over the
  unpackers' command lines, no protocol of their own.
- Argument parsing, printing and `pack_info.py`: no state.
- `pytracer.c`: argument conversion around `fork_and_trace()`.
- The package databases and installers (`linux_pkgs.py`'s dpkg and rpm parsers,
  `common/packages.py`), `filters.py`, X11 forwarding, the interactive shell of
  `interaction.py`, `signals.py`: input and output of other programs. Where their
  answer matters, it is a constant of the model (`Claims`, `Hidden`, `Origin`).
- The copies made by `download` and by the download cache.
- The handlers of `syscalls.c` that follow `open`'s pattern, and the connections
  recorded for sockets.

## 7. Plan

1. *(done)* The tracer: `Linux`, `ProcessTable`, `Tracer`, `TraceLog`, `TraceDb`, proofs.
2. *(done)* The unpackers, `Experiment`, proofs of the mounts and the initial image.
3. *(done)* `TraceAnalysis`, `Packing`, `Graph`, proofs.
4. Proofs: *(done)* `PipesTyped`, `WorkerOwnsSlot`, `UnknownHasCreator`,
   `StopInHand`, `ExitsRecorded`, `AllProcesses`, the unpackers' `TypeOK`, `CurrentImageExists`, `NoImageLost`, `StatusTold`,
   the refinement of `Experiment`, `OnlyKillsAbort`, `RecordedPrefix`, `CommitComplete` and
   the refinement of `TraceLog`, `RunsConfigured`, `FilesOfTheirRuns`, `PackComplete`,
   `EndpointsDrawn`, `JsonWritten`; then `RecordedPrefix` with threads that neither `chdir` nor
   `execve`, which a run checks and no theorem states, and `RecordedPrefix` with kills and
   without threads, where TLC finds no counterexample with two processes.
5. A module that splits a worker's `chdir` into its reads and writes of `wd`; the
   ids of merged databases; the capacity of the vectors; two commands at a time on
   one experiment.
