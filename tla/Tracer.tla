------------------------------- MODULE Tracer -------------------------------
(***************************************************************************)
(* The multi-threaded tracer of src/reprozip/native: the main thread of    *)
(* tracer.c (the only one that may call ptrace(2) and wait(2)), one worker *)
(* thread per tracee running syscall_handle() of syscalls.c, and the two   *)
(* pipes between them.                                                     *)
(*                                                                         *)
(* The pipe to a worker carries, untyped, the Process pointers of the      *)
(* stops to handle and the results of the requests the worker made.        *)
(*                                                                         *)
(* Atomicity: the main thread's handling of one stop, and the code a       *)
(* worker runs between two reads of its pipe, are one step each.           *)
(***************************************************************************)
EXTENDS Linux, ProcessTable

VARIABLES
    procs,        \* processes[]
    groups,       \* tgid -> struct ThreadGroup
    list,         \* tid_worker_pipe_list: tids, in order
    pollfds,      \* pollfds: the worker (named by its tid) behind each entry
    num_workers,  \* num_workers
    mpc,          \* where the main thread is
    todo,         \* entries of pollfds that poll() found ready
    exit_status,  \* *first_exit_code
    workers,      \* tid -> its worker thread, see Worker
    toWorker,     \* tid -> words in worker_pipe[2..3]
    toTracer,     \* tid -> requests in worker_pipe[0..1]
    dbProcs,      \* table processes, by identifier
    dbRows        \* identifier -> its rows in opened_files and executed_files

tables     == <<procs, groups>>
pool       == <<list, pollfds, num_workers>>
pipes      == <<toWorker, toTracer>>
db         == <<dbProcs, dbRows>>
tracerVars == <<procs, groups, list, pollfds, num_workers, mpc, todo, exit_status,
                workers, toWorker, toTracer, dbProcs, dbRows>>
vars       == <<kernelVars, tracerVars>>

Looping  == {"wait", "poll", "serve"}
Live     == Looping \cup {"returned", "failed"}
Finished == {"committed", "rolledback", "exit", "segv"}

Handlers == {"none", "open", "chdir", "execve"}
Worker   == [pc: {"none", "idle", "peek", "resume", "exited"},
             slot: Nat,                \* its struct Process *process
             tid: Tids \cup {NoTid},   \* its pid_t tid
             fun: Handlers]            \* the handler that waits for a peek
Word     == [word: {"ptr", "res"}, arg: Nat]  \* a pointer, or 1 (0: failure)
Request  == [req: {"peek", "syscall"}, tid: Tids \cup {NoTid}, valid: BOOLEAN]
ProcRow  == [tid: Tids, parent: Nat, exit: {"none", "exited", "killed", "execed"}]

NoWorker == [pc |-> "none", slot |-> 0, tid |-> NoTid, fun |-> "none"]
Pointer(i)  == [word |-> "ptr", arg |-> i]
Result(ok)  == [word |-> "res", arg |-> IF ok THEN 1 ELSE 0]

TypeOK ==
    /\ tracee \in [Tids -> Tracee] /\ cwd \in [Tids -> Nat]
    /\ did \in [Tids -> Seq(Row)]  /\ left \in Nat
    /\ procs \in Seq(Slot(Tids))
    /\ groups \in [Tids -> ThreadGroup]
    /\ list \in Seq(Tids) /\ pollfds \in Seq(Tids) /\ num_workers \in Nat
    /\ mpc \in Live \cup Finished
    /\ todo \in SUBSET Nat
    /\ exit_status \in {"none", "exited", "killed"}
    /\ workers \in [Tids -> Worker]
    /\ toWorker \in [Tids -> Seq(Word)] /\ toTracer \in [Tids -> Seq(Request)]
    /\ dbProcs \in Seq(ProcRow) /\ dbRows \in Seq(Seq(Row))

DbRow(kind, dir, by) == [kind |-> kind, dir |-> dir, by |-> by]

\* fork_and_trace(), up to the call of trace(): the tracee has stopped itself,
\* the first process is ALLOCATED and recorded, with its working directory by
\* db_add_first_process() and by db_add_file_open() once more.
Init ==
    /\ KernelInit
    /\ procs = [i \in 1 .. InitSlots |->
                  IF i = 1 THEN [FreeSlot EXCEPT !.status = "ALLOCATED", !.tid = First,
                                                 !.tg = First, !.identifier = 1]
                  ELSE FreeSlot]
    /\ groups = [t \in Tids |-> [refs |-> IF t = First THEN 1 ELSE 0, wd |-> 0]]
    /\ list = <<>> /\ pollfds = <<>> /\ num_workers = 0
    /\ mpc = "wait" /\ todo = {} /\ exit_status = "none"
    /\ workers = [t \in Tids |-> NoWorker]
    /\ toWorker = [t \in Tids |-> <<>>] /\ toTracer = [t \in Tids |-> <<>>]
    /\ dbProcs = <<[tid |-> First, parent |-> 0, exit |-> "none"]>>
    /\ dbRows = <<<<DbRow("wd", 0, NoTid), DbRow("wd", 0, NoTid)>>>>

\* db_add_file_open() and db_add_exec(): one more row of process id.
AddRow(id, row) ==
    dbRows' = IF id \in DOMAIN dbRows
              THEN [dbRows EXCEPT ![id] = Append(@, row)] ELSE dbRows

\* db_add_exit(): an UPDATE ... WHERE id.
AddExit(id, why) ==
    dbProcs' = IF id \in DOMAIN dbProcs
               THEN [dbProcs EXCEPT ![id].exit = why] ELSE dbProcs

\* A db_add_* function called by the main thread fails: trace() returns -1.
InsertionFails == "db" \in Faults /\ mpc' = "failed"

------------------------------------------------------------------------------
(* trace(): one iteration waits once, then polls the workers, unless the     *)
(* event ends it with `continue`.                                            *)

\* wait3() has nothing to report: goto read.
WaitNothing ==
    /\ mpc = "wait"
    /\ Children /= {} /\ Reportable = {}
    /\ mpc' = "poll"
    /\ UNCHANGED <<kernelVars, tables, pool, todo, exit_status, workers, pipes, db>>

\* wait3() fails: there is no child.
WaitFails ==
    /\ mpc = "wait"
    /\ Children = {}
    /\ mpc' = "failed"
    /\ UNCHANGED <<kernelVars, tables, pool, todo, exit_status, workers, pipes, db>>

Waited(t) == mpc = "wait" /\ t \in Reportable

Event(t) == tracee[t].ev

\* The status is an exit, of a tracee that has no worker: exit(EXIT_FAILURE).
ExitWithoutWorker(t) ==
    /\ Waited(t) /\ Event(t) = "exit"
    /\ FindTid(list, t) = 0
    /\ mpc' = "exit"
    /\ tracee' = [tracee EXCEPT ![t] = Reaped(@)]
    /\ UNCHANGED <<cwd, did, left, tables, pool, todo, exit_status, workers, pipes, db>>

\* Faulty variant: the loop ends with one process left.
AfterExitOffByOne(ps) ==
    CASE NProc(ps) <= 1            -> "returned"
      [] NProc(ps) > 1 /\ NUnknown(ps) >= NProc(ps) -> "failed"
      [] OTHER                     -> "wait"
\* Faulty variant: UNKNOWN processes are waited for like the others.
AfterExitIgnoresUnknown(ps) == IF NProc(ps) = 0 THEN "returned" ELSE "wait"

\* nprocs <= 0 ends trace() with 0, unknown >= nprocs with -1.
AfterExit(ps) ==
    CASE NProc(ps) = 0             -> "returned"
      [] NProc(ps) > 0 /\ NUnknown(ps) >= NProc(ps) -> "failed"
      [] OTHER                     -> "wait"

\* The status is an exit: the worker leaves both vectors, the process the table
\* (by way of its thread group: NULL would be dereferenced).
ExitReported(t) ==
    LET index == FindTid(list, t) IN
    /\ Waited(t) /\ Event(t) = "exit"
    /\ index /= 0
    /\ pollfds' = vpollfd_delete(pollfds, index)
    /\ list' = vector_delete(list, index)
    /\ num_workers' = num_workers - 1
    /\ exit_status' = IF t = First THEN tracee[t].ret ELSE exit_status
    /\ IF Found(procs, t) = {}
       THEN mpc' = AfterExit(procs) /\ UNCHANGED <<tables, dbProcs>>
       ELSE LET i == Find(procs, t) IN
            IF procs[i].tg = NoGroup
            THEN mpc' = "segv" /\ UNCHANGED <<tables, dbProcs>>
            ELSE \/ /\ procs' = FreeProcess(procs, i)
                    /\ groups' = DropThreadGroup(groups, procs[i].tg)
                    /\ AddExit(procs[i].identifier, tracee[t].ret)
                    /\ mpc' = AfterExit(procs')
                 \/ InsertionFails /\ UNCHANGED <<tables, dbProcs>>
    /\ tracee' = [tracee EXCEPT ![t] = Reaped(@)]
    /\ UNCHANGED <<cwd, did, left, todo, workers, pipes, dbRows>>

\* A stop of a tid that is in no slot: UNKNOWN, and left stopped.
Appears(t) ==
    /\ Waited(t) /\ Event(t) /= "exit"
    /\ Found(procs, t) = {}
    /\ procs' = [WithRoom(procs) EXCEPT
          ![EmptySlot(procs)].status = "UNKNOWN", ![EmptySlot(procs)].flags = {},
          ![EmptySlot(procs)].tid = t, ![EmptySlot(procs)].tg = NoGroup,
          ![EmptySlot(procs)].in_syscall = FALSE]
    /\ tracee' = [tracee EXCEPT ![t] = Reaped(@)]
    /\ UNCHANGED <<cwd, did, left, groups, pool, mpc, todo, exit_status, workers, pipes, db>>

\* The first stop of an ALLOCATED process: ATTACHED, and resumed.
Attached(t) ==
    /\ Waited(t) /\ Event(t) /= "exit"
    /\ Found(procs, t) /= {}
    /\ procs[Find(procs, t)].status = "ALLOCATED"
    /\ procs' = [procs EXCEPT ![Find(procs, t)].status = "ATTACHED"]
    /\ tracee' = [tracee EXCEPT ![t] = Resumed(Reaped(@))]
    /\ UNCHANGED <<cwd, did, left, groups, pool, mpc, todo, exit_status, workers, pipes, db>>

\* Any other stop falls through to the code after the table lookup.
Stop(t, events) ==
    /\ Waited(t) /\ Event(t) \in events
    /\ Found(procs, t) /= {}
    /\ procs[Find(procs, t)].status /= "ALLOCATED"

\* The registers of a syscall stop, read into the slot.
WithRegisters(s, k) == IF s.in_syscall THEN [s EXCEPT !.ret = k.ret]
                                       ELSE [s EXCEPT !.call = k.call]

\* A syscall stop: its worker, created the first time, gets the pointer.
SyscallStop(t) ==
    LET i == Find(procs, t) IN
    /\ Stop(t, {"sysin", "sysout"})
    /\ procs' = [procs EXCEPT ![i] = WithRegisters(@, tracee[t])]
    /\ IF FindTid(list, t) = 0
       THEN /\ list' = Append(list, t)
            /\ pollfds' = Append(pollfds, t)
            /\ num_workers' = num_workers + 1
            /\ workers' = [workers EXCEPT ![t] = [NoWorker EXCEPT !.pc = "idle"]]
       ELSE UNCHANGED <<list, pollfds, num_workers, workers>>
    /\ toWorker' = [toWorker EXCEPT ![t] = Append(@, Pointer(i))]
    /\ tracee' = [tracee EXCEPT ![t] = Reaped(@)]
    /\ mpc' = "poll"
    /\ UNCHANGED <<cwd, did, left, groups, todo, exit_status, toTracer, db>>

\* The slots syscall_execve_event() may take for the caller of execve().
ExecCallers(i) ==
    {j \in DOMAIN procs : /\ procs[j].status = "ATTACHED"
                          /\ procs[j].tg = procs[i].tg
                          /\ procs[j].in_syscall
                          /\ procs[j].execve_info /= NoInfo}

\* syscall_execve_event(): the process called execve() itself when it has an
\* execve_info; otherwise another thread of its group did, and disappears.
\* Without any such thread the process frees itself and a NULL is used.
ExecEvent(t) ==
    LET i == Find(procs, t)
        own == procs[i].execve_info /= NoInfo
        j == IF own \/ ExecCallers(i) = {} THEN i ELSE Minimum(ExecCallers(i))
        binary == procs[j].execve_info
        freed == IF own THEN [procs EXCEPT ![i].execve_info = NoInfo]
                        ELSE FreeProcess(procs, j)
    IN
    /\ Stop(t, {"exec"})
    /\ \/ /\ procs' = [freed EXCEPT ![i].flags = {"EXECD"}]
          /\ groups' = IF own THEN groups ELSE DropThreadGroup(groups, procs[j].tg)
          /\ IF own THEN UNCHANGED dbProcs ELSE AddExit(procs[j].identifier, "execed")
          /\ IF binary = NoInfo \/ procs'[i].tg = NoGroup
             THEN mpc' = "segv" /\ UNCHANGED <<tracee, dbRows>>
             ELSE \/ /\ mpc' = "poll"
                     /\ AddRow(procs[i].identifier,
                               DbRow("exec", groups[procs[i].tg].wd, binary))
                     /\ tracee' = [tracee EXCEPT ![t] = Resumed(Reaped(@))]
                  \/ /\ InsertionFails
                     /\ tracee' = [tracee EXCEPT ![t] = Reaped(@)]
                     /\ UNCHANGED dbRows
       \/ /\ ~own /\ InsertionFails
          /\ tracee' = [tracee EXCEPT ![t] = Reaped(@)]
          /\ UNCHANGED <<tables, db>>
    /\ UNCHANGED <<cwd, did, left, pool, todo, exit_status, workers, pipes>>

\* syscall_fork_event(): the child's slot, new or UNKNOWN, its thread group and
\* its row; an UNKNOWN child is resumed, and the parent always. A NULL thread
\* group of the parent would be dereferenced.
ForkEvent(t) ==
    LET i == Find(procs, t)
        c == tracee[t].child
        g == procs[i].tg
        seen == Found(procs, c) /= {}
        j == IF seen THEN Find(procs, c) ELSE EmptySlot(procs)
        is_thread == procs[i].call = "clone"
        table == IF seen THEN procs ELSE WithRoom(procs)
        id == Len(dbProcs) + 1
    IN
    /\ Stop(t, {"spawn"})
    /\ IF \/ "FORKING" \notin procs[i].flags
          \/ seen /\ procs[j].status /= "UNKNOWN"
       THEN mpc' = "failed" /\ UNCHANGED <<tracee, tables, db>>
       ELSE IF g = NoGroup THEN mpc' = "segv" /\ UNCHANGED <<tracee, tables, db>>
       ELSE /\ procs' = [table EXCEPT
                  ![i].flags = @ \ {"FORKING"},
                  ![j] = [@ EXCEPT !.status = IF seen THEN "ATTACHED" ELSE "ALLOCATED",
                                   !.flags = {}, !.tid = c, !.in_syscall = FALSE,
                                   !.tg = IF is_thread THEN g ELSE c,
                                   !.identifier = id]]
            /\ groups' = IF is_thread THEN ShareThreadGroup(groups, g)
                         ELSE NewThreadGroup(groups, c, groups[g].wd)
            /\ \/ /\ dbProcs' = Append(dbProcs, [tid |-> c, exit |-> "none",
                                                 parent |-> procs[i].identifier])
                  /\ dbRows' = Append(dbRows, <<DbRow("wd", groups[g].wd, t)>>)
                  /\ tracee' = [tracee EXCEPT ![t] = Resumed(Reaped(@)),
                                              ![c] = IF seen THEN Resumed(@) ELSE @]
                  /\ mpc' = "poll"
               \/ /\ InsertionFails
                  /\ tracee' = [tracee EXCEPT ![t] = Reaped(@),
                                              ![c] = IF seen THEN Resumed(@) ELSE @]
                  /\ UNCHANGED db
    /\ UNCHANGED <<cwd, did, left, pool, todo, exit_status, workers, pipes>>

\* A signal: forwarded to the tracee, which is resumed.
SignalForwarded(t) ==
    /\ Stop(t, {"signal", "sigstop"})
    /\ tracee' = [tracee EXCEPT ![t] = Resumed(Reaped(@))]
    /\ mpc' = "poll"
    /\ UNCHANGED <<cwd, did, left, tables, pool, todo, exit_status, workers, pipes, db>>

WaitStep(t) ==
    \/ ExitWithoutWorker(t) \/ ExitReported(t) \/ Appears(t) \/ Attached(t)
    \/ SyscallStop(t) \/ ExecEvent(t) \/ ForkEvent(t) \/ SignalForwarded(t)

------------------------------------------------------------------------------
(* `read:`, the polling half of the iteration.                               *)

\* Faulty variant: the last entry is not looked at.
ReadyOffByOne ==
    {n \in 1 .. num_workers - 1 : n <= Len(pollfds) /\ toTracer[pollfds[n]] /= <<>>}

Ready == {n \in 1 .. num_workers : n <= Len(pollfds) /\ toTracer[pollfds[n]] /= <<>>}

\* poll() returns the entries with a request; after 50 ms without any, 0.
Poll ==
    /\ mpc = "poll"
    /\ todo' = Ready
    /\ mpc' = IF Ready = {} THEN "wait" ELSE "serve"
    /\ UNCHANGED <<kernelVars, tables, pool, exit_status, workers, pipes, db>>

\* What ptrace() answers to a request: only a stopped tracee can be read or
\* resumed, and reading needs a valid address.
Granted(r) == /\ r.tid \in Tids
              /\ tracee[r.tid].st = "stopped"
              /\ r.req = "peek" => r.valid

\* The next ready entry: its request is performed, and the result written to
\* the worker of the request's tid (write() to fd -1 when it has none).
Serve ==
    LET n == Minimum(todo)
        w == pollfds[n]
        r == Head(toTracer[w])
    IN
    /\ mpc = "serve"
    /\ toTracer' = [toTracer EXCEPT ![w] = Tail(@)]
    /\ tracee' = IF r.req = "syscall" /\ Granted(r)
                 THEN [tracee EXCEPT ![r.tid] = Resumed(@)] ELSE tracee
    /\ toWorker' = IF FindTid(list, r.tid) = 0 THEN toWorker
                   ELSE [toWorker EXCEPT ![r.tid] = Append(@, Result(Granted(r)))]
    /\ todo' = todo \ {n}
    /\ mpc' = IF todo = {n} THEN "wait" ELSE "serve"
    /\ UNCHANGED <<cwd, did, left, tables, pool, exit_status, workers, db>>

------------------------------------------------------------------------------
(* syscall_handle(): the worker of tid t.                                    *)

\* read() on the worker's pipe returns the first word there.
Receives(t, pc) == mpc \in Live /\ workers[t].pc = pc /\ toWorker[t] /= <<>>

\* Faulty variant: every request resumes the tracee.
AskResumes(t, req, tid, valid) ==
    /\ toWorker' = [toWorker EXCEPT ![t] = Tail(@)]
    /\ toTracer' = [toTracer EXCEPT ![t] =
                       Append(@, [req |-> "syscall", tid |-> tid, valid |-> valid])]
\* Faulty variant: the request is sent twice.
AskTwice(t, req, tid, valid) ==
    LET r == [req |-> req, tid |-> tid, valid |-> valid] IN
    /\ toWorker' = [toWorker EXCEPT ![t] = Tail(@)]
    /\ toTracer' = [toTracer EXCEPT ![t] = @ \o <<r, r>>]

\* The request goes into the worker's other pipe; the word just read is gone.
Ask(t, req, tid, valid) ==
    /\ toWorker' = [toWorker EXCEPT ![t] = Tail(@)]
    /\ toTracer' = [toTracer EXCEPT ![t] =
                       Append(@, [req |-> req, tid |-> tid, valid |-> valid])]

\* Faulty variant: open() is handled when it is entered.
PeekingHandlerAtEntry(s) ==
    CASE ~s.in_syscall /\ s.call = "open"                  -> "open"
      [] s.in_syscall /\ s.call = "chdir" /\ s.ret = "ok"  -> "chdir"
      [] ~s.in_syscall /\ s.call = "execve"                -> "execve"
      [] OTHER                                             -> "none"
\* Faulty variant: open() is not handled at all.
PeekingHandlerNoOpen(s) ==
    CASE s.in_syscall /\ s.call = "chdir" /\ s.ret = "ok"  -> "chdir"
      [] ~s.in_syscall /\ s.call = "execve"                -> "execve"
      [] OTHER                                             -> "none"

\* The handlers that read the tracee's memory: at the exit of open() whatever
\* it returned, of chdir() when it succeeded, at the entry of execve().
PeekingHandler(s) ==
    CASE s.in_syscall /\ s.call = "open"                   -> "open"
      [] s.in_syscall /\ s.call = "chdir" /\ s.ret = "ok"  -> "chdir"
      [] ~s.in_syscall /\ s.call = "execve"                -> "execve"
      [] OTHER                                             -> "none"

\* Faulty variant: the entry and exit handlers of fork() are exchanged.
HandledSwapped(s) ==
    CASE s.call \in {"fork", "clone"} /\ s.in_syscall -> [s EXCEPT !.flags = @ \cup {"FORKING"}]
      [] s.call \in {"fork", "clone"} /\ ~s.in_syscall  -> [s EXCEPT !.flags = @ \ {"FORKING"}]
      [] s.call = "execve" /\ s.in_syscall             -> [s EXCEPT !.execve_info = NoInfo]
      [] OTHER                                         -> s

\* The handlers that do not: fork, vfork and clone, the exit of execve().
Handled(s) ==
    CASE s.call \in {"fork", "clone"} /\ ~s.in_syscall -> [s EXCEPT !.flags = @ \cup {"FORKING"}]
      [] s.call \in {"fork", "clone"} /\ s.in_syscall  -> [s EXCEPT !.flags = @ \ {"FORKING"}]
      [] s.call = "execve" /\ s.in_syscall             -> [s EXCEPT !.execve_info = NoInfo]
      [] OTHER                                         -> s

\* The stop after an exec event is not an exit of the call seen at entry.
ExecdIgnored(s) == [s EXCEPT !.flags = @ \ {"EXECD"}, !.execve_info = NoInfo,
                             !.in_syscall = TRUE]

\* "Run to next syscall": entry and exit alternate; out of a call with an
\* execve_info, the worker gives up.
GivesUp(s) == s.in_syscall /\ s.execve_info /= NoInfo
Toggled(s) == IF ~s.in_syscall THEN [s EXCEPT !.in_syscall = TRUE]
              ELSE IF GivesUp(s) THEN [s EXCEPT !.in_syscall = FALSE]
              ELSE [s EXCEPT !.in_syscall = FALSE, !.call = "none"]

\* The end of a stop's handling, for slot i as s: ask for PTRACE_SYSCALL.
EndOfStop(t, i, s, tid) ==
    /\ procs' = [procs EXCEPT ![i] = Toggled(s)]
    /\ IF GivesUp(s)
       THEN /\ workers' = [workers EXCEPT ![t] = [@ EXCEPT !.pc = "exited", !.fun = "none"]]
            /\ toWorker' = [toWorker EXCEPT ![t] = Tail(@)]
            /\ UNCHANGED toTracer
       ELSE /\ workers' = [workers EXCEPT ![t] =
                  [pc |-> "resume", slot |-> i, tid |-> tid, fun |-> "none"]]
            /\ Ask(t, "syscall", tid, TRUE)

\* A pointer: a stop handled without reading the tracee's memory.
StopHandled(t) ==
    LET i == Head(toWorker[t]).arg
        s == procs[i]
    IN
    /\ Receives(t, "idle") /\ Head(toWorker[t]).word = "ptr"
    /\ \/ /\ "EXECD" \in s.flags
          /\ EndOfStop(t, i, ExecdIgnored(s), s.tid)
       \/ /\ "EXECD" \notin s.flags /\ PeekingHandler(s) = "none"
          /\ EndOfStop(t, i, Handled(s), s.tid)
    /\ UNCHANGED <<kernelVars, groups, pool, mpc, todo, exit_status, db>>

\* A pointer: the handler asks for the tracee's memory.
StopPeeks(t) ==
    LET i == Head(toWorker[t]).arg
        s == procs[i]
    IN
    /\ Receives(t, "idle") /\ Head(toWorker[t]).word = "ptr"
    /\ "EXECD" \notin s.flags /\ PeekingHandler(s) /= "none"
    /\ workers' = [workers EXCEPT ![t] =
          [pc |-> "peek", slot |-> i, tid |-> s.tid, fun |-> PeekingHandler(s)]]
    /\ Ask(t, "peek", s.tid, PeekingHandler(s) = "open" => s.ret /= "efault")
    /\ UNCHANGED <<kernelVars, tables, pool, mpc, todo, exit_status, db>>

\* Anything else where a pointer is expected is used as one.
BadPointer(t) ==
    /\ Receives(t, "idle") /\ Head(toWorker[t]).word /= "ptr"
    /\ mpc' = "segv"
    /\ UNCHANGED <<kernelVars, tables, pool, todo, exit_status, workers, pipes, db>>

\* The peek failed: -1 holds no zero byte, tracee_strlen() asks for the next word.
PeekAgain(t) ==
    /\ Receives(t, "peek") /\ Head(toWorker[t]) = Result(FALSE)
    /\ Ask(t, "peek", workers[t].tid,
           workers[t].fun = "open" => procs[workers[t].slot].ret /= "efault")
    /\ UNCHANGED <<kernelVars, tables, pool, mpc, todo, exit_status, workers, db>>

\* syscall_fileopening(): a row when open() succeeded.
syscall_fileopening(t, s, by) ==
    /\ IF s.ret = "ok" THEN AddRow(s.identifier, DbRow("open", groups[s.tg].wd, by))
                       ELSE UNCHANGED dbRows
    /\ UNCHANGED groups
    /\ EndOfStop(t, workers[t].slot, s, workers[t].tid)

\* syscall_chdir(): the thread group's directory is replaced, and recorded.
syscall_chdir(t, s, by) ==
    LET new == groups[s.tg].wd + 1 IN
    /\ groups' = [groups EXCEPT ![s.tg].wd = new]
    /\ AddRow(s.identifier, DbRow("wd", new, by))
    /\ EndOfStop(t, workers[t].slot, s, workers[t].tid)

\* syscall_execve_in(): the execve_info, for the exec event to come.
syscall_execve_in(t, s, by) ==
    /\ UNCHANGED <<groups, dbRows>>
    /\ EndOfStop(t, workers[t].slot, [s EXCEPT !.execve_info = by], workers[t].tid)

\* The path was read (or what arrived is taken for it): the handler resolves it
\* against the working directory of the thread group, and records it.
PathRead(t) ==
    LET w == workers[t]
        s == procs[w.slot]
        by == IF Head(toWorker[t]).word = "res" THEN w.tid ELSE NoTid
    IN
    /\ Receives(t, "peek") /\ Head(toWorker[t]) /= Result(FALSE)
    /\ IF s.tg = NoGroup
       THEN mpc' = "segv" /\ UNCHANGED <<tables, workers, pipes, dbRows>>
       ELSE /\ \/ w.fun = "open"   /\ syscall_fileopening(t, s, by)
               \/ w.fun = "chdir"  /\ syscall_chdir(t, s, by)
               \/ w.fun = "execve" /\ syscall_execve_in(t, s, by)
            /\ UNCHANGED mpc
    /\ UNCHANGED <<kernelVars, pool, todo, exit_status, dbProcs>>

\* The insertion fails: the handler returns -1 and the worker thread ends, the
\* stop unanswered. chdir() has changed the working directory by then.
InsertFails(t) ==
    LET w == workers[t]
        s == procs[w.slot]
    IN
    /\ "db" \in Faults
    /\ Receives(t, "peek") /\ Head(toWorker[t]) /= Result(FALSE)
    /\ s.tg /= NoGroup
    /\ w.fun = "chdir" \/ (w.fun = "open" /\ s.ret = "ok")
    /\ groups' = IF w.fun = "chdir"
                 THEN [groups EXCEPT ![s.tg].wd = @ + 1] ELSE groups
    /\ workers' = [workers EXCEPT ![t] = [@ EXCEPT !.pc = "exited", !.fun = "none"]]
    /\ toWorker' = [toWorker EXCEPT ![t] = Tail(@)]
    /\ UNCHANGED <<kernelVars, procs, pool, mpc, todo, exit_status, toTracer, db>>

\* The answer to PTRACE_SYSCALL, whatever it says, ends the iteration.
Answered(t) ==
    /\ Receives(t, "resume")
    /\ workers' = [workers EXCEPT ![t] = [NoWorker EXCEPT !.pc = "idle"]]
    /\ toWorker' = [toWorker EXCEPT ![t] = Tail(@)]
    /\ UNCHANGED <<kernelVars, tables, pool, mpc, todo, exit_status, toTracer, db>>

WorkerStep(t) ==
    \/ StopHandled(t) \/ StopPeeks(t) \/ BadPointer(t) \/ PeekAgain(t)
    \/ PathRead(t) \/ InsertFails(t) \/ Answered(t)

------------------------------------------------------------------------------
(* The end of fork_and_trace().                                              *)

\* cleanup(): SIGKILL to every process of the table, which is emptied.
Cleanup ==
    /\ tracee' = KillAll(UNION {Group(procs[i].tid) : i \in InUse(procs)}, "killed")
    /\ procs' = [i \in DOMAIN procs |-> IF i \in InUse(procs)
                    THEN FreeProcess(procs, i)[i] ELSE procs[i]]
    /\ groups' = [g \in Tids |-> [refs |-> 0, wd |-> 0]]

\* trace() returned 0: db_close(0), COMMIT.
Commit ==
    /\ mpc = "returned"
    /\ mpc' = "committed"
    /\ UNCHANGED <<kernelVars, tables, pool, todo, exit_status, workers, pipes, db>>

\* trace() returned -1: cleanup(), db_close(1), ROLLBACK.
Rollback ==
    /\ mpc = "failed"
    /\ mpc' = "rolledback"
    /\ Cleanup
    /\ dbProcs' = <<>> /\ dbRows' = <<>>
    /\ UNCHANGED <<cwd, did, left, pool, todo, exit_status, workers, pipes>>

\* sigint_handler(), on the second ^C in two seconds: cleanup(), exit(1).
Interrupt ==
    /\ "interrupt" \in Faults
    /\ mpc \in Live
    /\ mpc' = "exit"
    /\ Cleanup
    /\ UNCHANGED <<cwd, did, left, pool, todo, exit_status, workers, pipes, db>>

MainStep == \/ WaitNothing \/ WaitFails \/ Poll \/ Serve \/ Commit \/ Rollback
            \/ \E t \in Tids : WaitStep(t)

TraceeStep(t) == mpc \in Live /\ KernelStep(t) /\ UNCHANGED tracerVars

\* The tracer has ended: nothing is left to follow.
Stops == mpc \in Finished /\ UNCHANGED vars

Next == MainStep \/ Interrupt \/ (\E t \in Tids : WorkerStep(t) \/ TraceeStep(t)) \/ Stops

Spec == Init /\ [][Next]_vars

\* The main thread, each worker and each tracee run when they can; a program
\* makes MaxCalls calls at most, so every one of them ends.
Fairness == /\ WF_vars(MainStep)
            /\ \A t \in Tids : /\ WF_vars(WorkerStep(t))
                               /\ WF_vars(mpc \in Live /\ Scheduled(t) /\ UNCHANGED tracerVars)

FairSpec == Spec /\ Fairness

------------------------------------------------------------------------------
(* Properties.                                                               *)

\* The two vectors that trace() indexes with one index stay in step, without
\* duplicates, and num_workers is their length.
VectorsAligned ==
    /\ pollfds = list
    /\ num_workers = Len(list)
    /\ \A m, n \in DOMAIN list : list[m] = list[n] => m = n

\* trace_find_process() has at most one answer: no tid is in two slots.
UniqueTids ==
    \A i, j \in InUse(procs) : procs[i].tid = procs[j].tid => i = j

\* A thread group is freed exactly when the last slot that points to it is:
\* refs counts those slots, and no slot points to a freed group.
Users(g) == {i \in DOMAIN procs : procs[i].tg = g}
GroupRefs == \A g \in Tids : groups[g].refs = Cardinality(Users(g))

\* What a worker reads next is what it expects: a pointer when idle, the answer
\* to its one request otherwise, which a pointer may follow but not precede.
Words(t) == [n \in DOMAIN toWorker[t] |-> toWorker[t][n].word]
PipesTyped ==
    mpc \in Live => \A t \in Tids :
       CASE workers[t].pc \in {"none", "idle"} ->
               toTracer[t] = <<>> /\ Words(t) \in {<<>>, <<"ptr">>}
         [] workers[t].pc = "peek" ->
               Len(toTracer[t]) + Len(toWorker[t]) <= 1 /\ Words(t) \in {<<>>, <<"res">>}
         [] workers[t].pc = "resume" ->
               IF toTracer[t] = <<>> THEN Words(t) \in {<<>>, <<"res">>, <<"res", "ptr">>}
               ELSE Len(toTracer[t]) = 1 /\ Words(t) = <<>>
         [] OTHER -> toTracer[t] = <<>> /\ Words(t) = <<>>

\* A worker has the stop of t and has yet to ask for its end.
Pointed(t) == \E n \in DOMAIN toWorker[t] : toWorker[t][n].word = "ptr"
InHand(t)  == \/ Pointed(t)
              \/ workers[t].pc = "peek"
              \/ workers[t].pc = "resume" /\ toTracer[t] /= <<>>

\* No stop is lost, none is answered twice: an ATTACHED tracee whose stop was
\* reported is in the hands of its worker, and not while it runs.
StopInHand ==
    mpc \in Looping => \A i \in InUse(procs) :
       LET t == procs[i].tid IN
       procs[i].status = "ATTACHED" =>
          /\ tracee[t].st = "stopped" /\ tracee[t].ev = "none" => InHand(t)
          /\ InHand(t) => tracee[t].st /= "running"

\* The slot a worker writes is not another tracee's, though its struct Process*
\* is used long after the main thread sent it.
WorkerOwnsSlot ==
    mpc \in Live => \A t \in Tids :
       /\ workers[t].pc = "peek" => procs[workers[t].slot].tid = t
       /\ \A n \in DOMAIN toWorker[t] : toWorker[t][n].word = "ptr" =>
             procs[toWorker[t][n].arg].tid = t

\* An UNKNOWN process has a creator that is alive and yet to report its fork:
\* the main loop never runs out of known processes.
UnknownHasCreator ==
    mpc \in Looping => \A i \in InUse(procs) : procs[i].status = "UNKNOWN" =>
       \E j \in InUse(procs) :
          /\ procs[j].status = "ATTACHED"
          /\ tracee[procs[j].tid].ev = "spawn"
          /\ tracee[procs[j].tid].child = procs[i].tid

\* What the database holds for t, in the order of insertion.
Ids(t) == {id \in DOMAIN dbProcs : dbProcs[id].tid = t}
Recorded(t) == IF Ids(t) = {} THEN <<>> ELSE dbRows[Minimum(Ids(t))]

\* The rows of a process are what it did so far, in that order: every path is
\* resolved against the directory the process was in, no row is another's.
RecordedPrefix ==
    \A t \in Tids : /\ Len(Recorded(t)) <= Len(did[t])
                    /\ \A n \in DOMAIN Recorded(t) : Recorded(t)[n] = did[t][n]

\* Without threads, kills and database errors the tracer implements TraceLog: no
\* call is lost, reordered, recorded twice or for another process, and the
\* transaction is committed when everything the programs did is in it.
Log == INSTANCE TraceLog WITH happened <- did,
                              recorded <- [t \in Tids |-> Recorded(t)],
                              closed   <- mpc = "committed"
ImplementsLog == Log!LogSpec

\* A committed trace is complete: all rows, each exit status as reported by the
\* kernel, each parent the process that forked.
CommitComplete ==
    mpc = "committed" =>
       /\ exit_status = tracee[First].ret
       /\ \A t \in Tids \ Unborn :
             \E id \in DOMAIN dbProcs :
                /\ Ids(t) = {id}
                /\ dbRows[id] = did[t]
                /\ dbProcs[id].exit = tracee[t].ret
                /\ IF t = First THEN dbProcs[id].parent = 0
                   ELSE dbProcs[dbProcs[id].parent].tid = did[t][1].by

\* In a committed trace every process has ended, with the status the kernel gave.
ExitsRecorded ==
    mpc = "committed" =>
       \A id \in DOMAIN dbProcs : dbProcs[id].exit = tracee[dbProcs[id].tid].ret

\* A committed trace has every process that was created.
AllProcesses ==
    mpc = "committed" => \A t \in Tids \ Unborn : Ids(t) /= {}

\* The executable recorded for a process is the one whose execve() succeeded.
ExecOfCaller ==
    \A t \in Tids : \A n \in DOMAIN Recorded(t) :
       Recorded(t)[n].kind = "exec" =>
          \E m \in DOMAIN did[t] : did[t][m].kind = "exec" /\ did[t][m].by = Recorded(t)[n].by

\* Nothing but a tracee killed from outside keeps a trace from being committed:
\* the main loop does not give up, exit or crash of itself.
OnlyKillsAbort ==
    mpc \in {"failed", "rolledback", "exit", "segv"} =>
       \E t \in Tids : tracee[t].ret = "killed"

\* Tracing ends, one way or another, with the programs.
EventuallyFinished == <>(mpc \in Finished)
==============================================================================
