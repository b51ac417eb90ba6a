------------------------------ MODULE TraceDb ------------------------------
(***************************************************************************)
(* The SQLite connection of src/reprozip/native/database.c, used by the    *)
(* main thread and the workers without a lock of their own: here a         *)
(* statement is a step, where module Tracer has whole db_add_* functions.  *)
(*                                                                         *)
(* External: SQLite runs one statement of a connection at a time, numbers  *)
(* the rows of each table from 1, and remembers for the connection the     *)
(* number of the row inserted last, in any table, by any thread.           *)
(***************************************************************************)
EXTENDS Naturals, Sequences

CONSTANTS
    Procs,     \* the processes that are traced
    First,     \* the one that fork_and_trace() creates
    MaxOpens   \* bound: rows in opened_files

VARIABLES
    processes,      \* table processes, by rowid
    opened_files,   \* table opened_files, by rowid
    last_rowid,     \* last_insert_rowid() of the connection
    identifier,     \* process -> its struct Process's identifier
    state,          \* process -> "unborn", "running", "stopped" or "exited"
    adding          \* what db_add_process() is about, see Adding

dbVars == <<processes, opened_files, last_rowid, identifier, state, adding>>

\* A row of processes is [parent, exited, about], one of opened_files is [process,
\* about]. "about" is not in the table: it is the process the row was added for,
\* which the identifiers have to lead to.

\* db_add_process() between its statements: for whom, and after which one.
Nothing == [at |-> "done"]
Adding(at, parent, child) == [at |-> at, parent |-> parent, child |-> child]

InsertFile(p) ==
    /\ opened_files' = Append(opened_files, [process |-> identifier[p], about |-> p])
    /\ last_rowid' = Len(opened_files')

\* db_add_first_process() and the second row of its directory, before any worker.
DbInit ==
    /\ processes = <<[parent |-> 0, exited |-> FALSE, about |-> First]>>
    /\ opened_files = <<[process |-> 1, about |-> First], [process |-> 1, about |-> First]>>
    /\ last_rowid = 2
    /\ identifier = [p \in Procs |-> IF p = First THEN 1 ELSE 0]
    /\ state = [p \in Procs |-> IF p = First THEN "running" ELSE "unborn"]
    /\ adding = Nothing

\* db_add_process(): INSERT INTO processes. The parent is stopped until the end.
InsertProcess(parent, child) ==
    /\ adding = Nothing
    /\ state[parent] = "running" /\ state[child] = "unborn"
    /\ processes' = Append(processes, [parent |-> identifier[parent], exited |-> FALSE,
                                       about |-> child])
    /\ last_rowid' = Len(processes')
    /\ adding' = Adding("inserted", parent, child)
    /\ state' = [state EXCEPT ![parent] = "stopped", ![child] = "stopped"]
    /\ UNCHANGED <<opened_files, identifier>>

\* "Get id": SELECT last_insert_rowid().
GetId ==
    /\ adding /= Nothing /\ adding.at = "inserted"
    /\ identifier' = [identifier EXCEPT ![adding.child] = last_rowid]
    /\ adding' = [adding EXCEPT !.at = "selected"]
    /\ UNCHANGED <<processes, opened_files, last_rowid, state>>

\* ...and db_add_file_open() of the working directory; both processes go on.
InsertWorkingDirectory ==
    /\ adding /= Nothing /\ adding.at = "selected"
    /\ InsertFile(adding.child)
    /\ state' = [state EXCEPT ![adding.parent] = "running", ![adding.child] = "running"]
    /\ adding' = Nothing
    /\ UNCHANGED <<processes, identifier>>

\* db_add_file_open() by the worker of p.
db_add_file_open(p) ==
    /\ state[p] = "running"
    /\ Len(opened_files) < MaxOpens
    /\ InsertFile(p)
    /\ UNCHANGED <<processes, identifier, state, adding>>

\* db_add_exit() by the main thread: UPDATE processes ... WHERE id.
db_add_exit(p) ==
    /\ adding = Nothing
    /\ state[p] = "running"
    /\ processes' = IF identifier[p] \in DOMAIN processes
                    THEN [processes EXCEPT ![identifier[p]].exited = TRUE] ELSE processes
    /\ state' = [state EXCEPT ![p] = "exited"]
    /\ UNCHANGED <<opened_files, last_rowid, identifier, adding>>

DbNext ==
    \/ GetId \/ InsertWorkingDirectory
    \/ \E p \in Procs : \/ db_add_file_open(p) \/ db_add_exit(p)
                        \/ \E c \in Procs : InsertProcess(p, c)

DbSpec == DbInit /\ [][DbNext]_dbVars

------------------------------------------------------------------------------
\* The process a row of opened_files names is the one that accessed the file:
\* docs/traceschema.rst says that a file has "the process that accessed it". It
\* rests on last_insert_rowid() being the rowid of db_add_process()'s own row.
FilesOfProcesses ==
    \A n \in DOMAIN opened_files :
       /\ opened_files[n].process \in DOMAIN processes
       /\ processes[opened_files[n].process].about = opened_files[n].about
==============================================================================
