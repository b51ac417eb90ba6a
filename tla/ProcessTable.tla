---------------------------- MODULE ProcessTable ----------------------------
(***************************************************************************)
(* The tables of src/reprozip/native/tracer.c as values and functions on   *)
(* them: the process table (processes[], a sequence of slots), the thread  *)
(* groups the slots point to (keyed by tgid), and the list of workers.     *)
(* A slot number stands for a struct Process*, NoGroup for a NULL          *)
(* threadgroup, NoTid for a NULL execve_info; an execve_info is named by   *)
(* the tid whose memory it was read from.                                  *)
(***************************************************************************)
EXTENDS Naturals, Sequences, FiniteSets

CONSTANT InitSlots   \* processes_size at start: 16 in trace_init()

ASSUME SlotsAssumption == InitSlots \in Nat \ {0}

NoGroup == 0
NoInfo  == 0

SlotStatus == {"FREE", "ALLOCATED", "ATTACHED", "UNKNOWN"}

CallNumbers  == {"none", "open", "chdir", "fork", "clone", "execve", "exit", "exit_group"}
ReturnValues == {"ok", "error", "efault", "exited", "killed"}

\* struct Process, for tids in T; call and ret are the registers read last.
Slot(T) == [status: SlotStatus,
            tid: T \cup {0},
            tg: T \cup {NoGroup},
            in_syscall: BOOLEAN,
            flags: SUBSET {"EXECD", "FORKING"},
            execve_info: T \cup {NoInfo},
            identifier: Nat,
            call: CallNumbers,
            ret: ReturnValues]

ThreadGroup == [refs: Nat, wd: Nat]

FreeSlot == [status |-> "FREE", tid |-> 0, tg |-> NoGroup, in_syscall |-> FALSE,
             flags |-> {}, execve_info |-> NoInfo, identifier |-> 0,
             call |-> "none", ret |-> "ok"]

Minimum(S) == CHOOSE i \in S : \A j \in S : i <= j

InUse(ps)   == {i \in DOMAIN ps : ps[i].status /= "FREE"}

\* Faulty variant: a process seen before its fork event is not found.
FoundMissesUnknown(ps, tid) ==
    {i \in InUse(ps) : ps[i].tid = tid /\ ps[i].status /= "UNKNOWN"}
\* Faulty variant: only processes that run are found.
FoundMissesUnattached(ps, tid) ==
    {i \in InUse(ps) : ps[i].tid = tid /\ ps[i].status = "ATTACHED"}

\* The slots in use with that tid.
Found(ps, tid) == {i \in InUse(ps) : ps[i].tid = tid}

\* trace_find_process(): the first slot in use with that tid.
Find(ps, tid) == Minimum(Found(ps, tid))

FreeSlots(ps) == DOMAIN ps \ InUse(ps)

\* Faulty variant: the last slot of a full table is taken.
EmptySlotOffByOne(ps) ==
    IF FreeSlots(ps) = {} THEN Len(ps) ELSE Minimum(FreeSlots(ps))

\* trace_get_empty_process(): the first free slot, of a table twice the size
\* when there is none.
EmptySlot(ps) == IF FreeSlots(ps) = {} THEN Len(ps) + 1 ELSE Minimum(FreeSlots(ps))
WithRoom(ps)  == IF FreeSlots(ps) = {}
                 THEN [i \in 1 .. 2 * Len(ps) |-> IF i <= Len(ps) THEN ps[i] ELSE FreeSlot]
                 ELSE ps

\* Faulty variant: the creator's reference is not counted.
NewThreadGroupNoRef(gs, tgid, wd) == [gs EXCEPT ![tgid] = [refs |-> 0, wd |-> wd]]

\* trace_new_threadgroup()
NewThreadGroup(gs, tgid, wd) == [gs EXCEPT ![tgid] = [refs |-> 1, wd |-> wd]]

\* Faulty variant: refs is not incremented for a new thread.
ShareThreadGroupNoRef(gs, g) == gs

ShareThreadGroup(gs, g) == [gs EXCEPT ![g].refs = @ + 1]

\* trace_free_process(): the slot and its reference to the thread group. A
\* group without references is freed: its working directory goes with it.
FreeProcess(ps, i) ==
    [ps EXCEPT ![i].status = "FREE", ![i].tg = NoGroup, ![i].execve_info = NoInfo]
DropThreadGroup(gs, g) ==
    IF g = NoGroup THEN gs
    ELSE [gs EXCEPT ![g].refs = @ - 1, ![g].wd = IF gs[g].refs = 1 THEN 0 ELSE @]

\* trace_count_processes()
NProc(ps)    == Cardinality(InUse(ps))
NUnknown(ps) == Cardinality({i \in DOMAIN ps : ps[i].status = "UNKNOWN"})

\* vector_find_tid(): the first entry of tid, 0 when there is none (-1 in C).
FindTid(list, tid) ==
    LET at == {i \in DOMAIN list : list[i] = tid}
    IN  IF at = {} THEN 0 ELSE Minimum(at)

\* vector_delete(), vpollfd_delete(): the entries after index move up.
vector_delete(v, index) ==
    [i \in 1 .. Len(v) - 1 |-> IF i < index THEN v[i] ELSE v[i + 1]]

\* Faulty variant: the entry after index is the one that goes.
vpollfd_deleteOffByOne(v, index) ==
    [i \in 1 .. Len(v) - 1 |-> IF i <= index THEN v[i] ELSE v[i + 1]]

vpollfd_delete(v, index) ==
    [i \in 1 .. Len(v) - 1 |-> IF i < index THEN v[i] ELSE v[i + 1]]
==============================================================================
