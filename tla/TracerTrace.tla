---------------------------- MODULE TracerTrace ----------------------------
(***************************************************************************)
(* What the database holds of the processes that were traced: a row for    *)
(* each of them, with its exit status, and the rows of what each did, in   *)
(* order and complete at the commit. The tracer implements TraceLog.       *)
(***************************************************************************)
EXTENDS TracerStops

------------------------------------------------------------------------------
(* The table processes.                                                      *)

\* A transaction that may still be committed, or was.
Tracing == Looping \cup {"returned", "committed"}

\* The slots of processes whose fork was reported, and that have a row.
Registered(s) == s.status \in {"ALLOCATED", "ATTACHED"}
Entry(p, q)   == Registered(p) /\ p.tid = q.tid /\ p.identifier = q.identifier

\* A row is that of a slot, or has the exit status of a process that is gone.
Accounted(id) ==
    \/ /\ tracee[dbProcs[id].tid].st = "gone"
       /\ dbProcs[id].exit = tracee[dbProcs[id].tid].ret
    \/ \E i \in DOMAIN procs : /\ Registered(procs[i])
                               /\ procs[i].tid = dbProcs[id].tid /\ procs[i].identifier = id
LedgerInv ==
    mpc \in Tracing =>
       /\ \A id \in DOMAIN dbProcs : Accounted(id)
       /\ \A i \in DOMAIN procs : Registered(procs[i]) =>
             /\ procs[i].identifier \in DOMAIN dbProcs
             /\ dbProcs[procs[i].identifier].tid = procs[i].tid
       /\ exit_status = IF tracee[First].st = "gone" THEN tracee[First].ret ELSE "none"
       /\ mpc \in {"returned", "committed"} => InUse(procs) = {}

\* No tracee's end is reported.
NoneReaped == \A u \in Tids : /\ tracee'[u].st = "gone" <=> tracee[u].st = "gone"
                              /\ tracee[u].st = "gone" => tracee'[u].ret = tracee[u].ret

LEMMA RowTyped ==
  ASSUME WellTyped, NEW id \in DOMAIN dbProcs
  PROVE  dbProcs[id] \in ProcRow /\ dbProcs[id].tid \in Tids
<1>1. dbProcs[id] \in ProcRow
  BY DEF WellTyped
<1> QED
  BY <1>1 DEF ProcRow

\* A step that writes no row, and leaves the slots that have one.
LEMMA LedgerKept ==
  ASSUME TInv, LedgerInv, mpc \in Tracing, UNCHANGED <<dbProcs, exit_status>>, NoneReaped,
         \A k \in DOMAIN procs' : Registered(procs'[k]) =>
            k \in DOMAIN procs /\ Entry(procs[k], procs'[k]),
         \A k \in DOMAIN procs : Registered(procs[k]) =>
            k \in DOMAIN procs' /\ Entry(procs'[k], procs[k]),
         mpc' \in {"returned", "committed"} => InUse(procs)' = {}
  PROVE  LedgerInv'
<1>1. ASSUME NEW id \in DOMAIN dbProcs PROVE Accounted(id)'
  <2>1. dbProcs[id].tid \in Tids /\ dbProcs' = dbProcs
    BY RowTyped DEF TInv
  <2>2. Accounted(id)
    BY DEF LedgerInv
  <2>3. CASE tracee[dbProcs[id].tid].st = "gone" /\ dbProcs[id].exit = tracee[dbProcs[id].tid].ret
    BY <2>1, <2>3 DEF Accounted, NoneReaped
  <2>4. ASSUME NEW i \in DOMAIN procs, Registered(procs[i]),
               procs[i].tid = dbProcs[id].tid, procs[i].identifier = id
        PROVE  Accounted(id)'
    BY <2>1, <2>4 DEF Accounted, Entry
  <2> QED
    BY <2>2, <2>3, <2>4 DEF Accounted
<1>2. ASSUME NEW i \in DOMAIN procs', Registered(procs'[i])
      PROVE  /\ procs'[i].identifier \in DOMAIN dbProcs'
             /\ dbProcs'[procs'[i].identifier].tid = procs'[i].tid
  BY <1>2 DEF LedgerInv, Entry
<1>3. exit_status' = IF tracee'[First].st = "gone" THEN tracee'[First].ret ELSE "none"
  BY FirstAssumption DEF LedgerInv, NoneReaped
<1> QED
  BY <1>1, <1>2, <1>3 DEF LedgerInv

\* The slots stay the entries they are.
LEMMA SlotsLedger ==
  ASSUME TInv, LedgerInv, mpc \in Tracing, UNCHANGED <<dbProcs, exit_status>>, NoneReaped,
         DOMAIN procs' = DOMAIN procs,
         \A k \in DOMAIN procs : /\ procs'[k].tid = procs[k].tid
                                 /\ procs'[k].identifier = procs[k].identifier
                                 /\ \/ procs'[k].status = procs[k].status
                                    \/ procs[k].status = "ALLOCATED" /\ procs'[k].status = "ATTACHED",
         mpc' \in {"returned", "committed"} => mpc \in {"returned", "committed"}
  PROVE  LedgerInv'
<1>1. \A k \in DOMAIN procs : Registered(procs'[k]) <=> Registered(procs[k])
  BY DEF Registered
<1>2. InUse(procs)' = InUse(procs)
  BY DEF InUse
<1>3. mpc' \in {"returned", "committed"} => InUse(procs)' = {}
  BY <1>2 DEF LedgerInv
<1>4. \A k \in DOMAIN procs : Registered(procs[k]) =>
         k \in DOMAIN procs' /\ Entry(procs'[k], procs[k]) /\ Entry(procs[k], procs'[k])
  BY <1>1 DEF Entry
<1> QED
  BY <1>1, <1>3, <1>4, LedgerKept

LEMMA SameLedger ==
  ASSUME TInv, LedgerInv, mpc \in Tracing, UNCHANGED <<dbProcs, exit_status>>, NoneReaped, SameSlots,
         mpc' \in {"returned", "committed"} => mpc \in {"returned", "committed"}
  PROVE  LedgerInv'
BY SlotsLedger DEF SameSlots, SameSlot

\* A stop is reported: its tracee is not gone by that.
LEMMA StopReapsNone ==
  ASSUME Base, PipesInv, NEW t \in Tids, Waited(t), Event(t) # "exit",
         \/ tracee' = [tracee EXCEPT ![t] = Reaped(@)]
         \/ tracee' = [tracee EXCEPT ![t] = Resumed(Reaped(@))]
         \/ UNCHANGED tracee
  PROVE  NoneReaped
<1>1. /\ tracee[t].st = "stopped" /\ tracee[t] \in Tracee /\ tracee \in [Tids -> Tracee]
      /\ Reaped(tracee[t]).st = "stopped" /\ Resumed(Reaped(tracee[t])).st = "running"
  BY StopTaken DEF Base, TInv, KernelInv, Waits
<1> QED
  BY <1>1 DEF NoneReaped

\* What is gone does not come back.
LEMMA GoneStays ==
  ASSUME KernelInv, KernelOrder, NoExecInThreads, NEW t \in Tids, KernelStep(t)
  PROVE  NoneReaped
<1>1. tracee[t] \in Tracee /\ tracee \in [Tids -> Tracee]
  BY DEF KernelInv
<1>2. KernelMove
  BY KernelMoves
<1> SUFFICES ASSUME NEW u \in Tids, tracee[u].st = "gone" PROVE tracee'[u] = tracee[u]
  BY <1>2 DEF NoneReaped, KernelMove
<1>3. ASSUME NEW ts, NEW why, tracee' = KillAll(ts, why) PROVE tracee'[u] = tracee[u]
  BY <1>1, <1>3 DEF KillAll, Alive
<1>4. ASSUME NEW s, tracee' = [tracee EXCEPT ![t] = s], tracee[t].st # "gone" PROVE tracee'[u] = tracee[u]
  BY <1>1, <1>4
<1>5. CASE EnterCall(t)
  <2>1. PICK c \in Calls \cup {"exit_group"} : tracee' = [tracee EXCEPT ![t] =
                    [Stopped(@, "sysin") EXCEPT !.at = "call", !.call = c]]
    BY <1>5 DEF EnterCall
  <2> QED
    BY <1>4, <1>5, <2>1 DEF EnterCall, Running
<1>6. CASE PathCallSucceeds(t) \/ CallFails(t) \/ FinishCall(t)
  <2>1. PICK r : ReturnWith(t, r) /\ tracee[t].st = "running"
    BY <1>6 DEF PathCallSucceeds, CallFails, FinishCall, Running
  <2> QED
    BY <1>4, <2>1 DEF ReturnWith
<1>7. CASE Spawn(t)
  <2> DEFINE g(c) == IF tracee[t].call = "fork" THEN c ELSE tracee[t].grp
             s(c) == [Stopped(tracee[t], "spawn") EXCEPT !.at = "return", !.child = c]
  <2>1. PICK c \in Unborn : tracee' = [tracee EXCEPT ![t] = s(c), ![c] = Born(g(c))]
    BY <1>7 DEF Spawn
  <2>2. u # t /\ u # c
    BY <1>7 DEF Spawn, Running, Unborn
  <2> HIDE DEF s, g
  <2> QED
    BY <1>1, <2>1, <2>2
<1>8. CASE ExecKills(t)
  BY <1>8, GroupOfOne DEF ExecKills, Running
<1>9. CASE Exec(t)
  <2>1. tracee[t].grp = t
    BY <1>9, GroupOfOne DEF Exec
  <2>2. tracee' = [tracee EXCEPT ![t] = [Stopped(tracee[t], "exec") EXCEPT !.at = "return"]]
    BY <1>1, <1>9, <2>1 DEF Exec
  <2> QED
    BY <1>4, <1>9, <2>2 DEF Exec
<1>10. CASE Exit(t) \/ Kill(t)
  BY <1>3, <1>10 DEF Exit, Kill
<1>11. CASE SignalStop(t)
  BY <1>4, <1>11 DEF SignalStop, Running
<1>12. CASE SignalDelivered(t)
  <2>1. CASE tracee' = [tracee EXCEPT ![t].at = "user"]
    BY <1>4, <1>12, <2>1 DEF SignalDelivered, Running
  <2> QED
    BY <1>3, <1>12, <2>1 DEF SignalDelivered
<1> QED
  BY <1>5, <1>6, <1>7, <1>8, <1>9, <1>10, <1>11, <1>12 DEF KernelStep

------------------------------------------------------------------------------
(* Steps of the main thread.                                                 *)

\* trace() returns 0 when no process is left.
LEMMA ReturnsWhenEmpty ==
  ASSUME NEW ps \in Seq(Slot(Tids)), AfterExit(ps) = "returned"
  PROVE  InUse(ps) = {}
<1>1. IsFiniteSet(InUse(ps))
  <2>1. DOMAIN ps = 1 .. Len(ps) /\ Len(ps) \in Int /\ 1 \in Int
    OBVIOUS
  <2>2. IsFiniteSet(DOMAIN ps)
    BY <2>1, FS_Interval
  <2>3. InUse(ps) \subseteq DOMAIN ps
    BY DEF InUse
  <2> QED
    BY <2>2, <2>3, FS_Subset
<1>2. NProc(ps) = 0
  <2>1. NProc(ps) \in Nat
    BY <1>1, FS_CardinalityType DEF NProc
  <2> QED
    BY <2>1 DEF AfterExit
<1> QED
  BY <1>1, <1>2, FS_EmptySet DEF NProc

LEMMA ExitLedger ==
  ASSUME Base, PipesInv, LedgerInv, NEW t \in Tids, ExitReported(t)
  PROVE  LedgerInv'
<1> SUFFICES ASSUME mpc' \in Tracing PROVE LedgerInv'
  BY DEF LedgerInv
<1> USE DEF Base
<1> DEFINE i == Find(procs, t)
<1>1. /\ mpc = "wait" /\ tracee[t].ev = "exit"
      /\ tracee' = [tracee EXCEPT ![t] = Reaped(@)]
      /\ exit_status' = IF t = First THEN tracee[t].ret ELSE exit_status
  BY DEF ExitReported, Waited, Event
<1>2. mpc \in Tracing /\ tracee[t].st = "dead"
  BY <1>1 DEF PipesInv, KernelOrder, Ordered, Tracing, Looping
<1>3. /\ tracee'[t].st = "gone" /\ tracee'[t].ret = tracee[t].ret
      /\ \A u \in Tids : u # t => tracee'[u] = tracee[u]
  <2>1. tracee[t] \in Tracee /\ tracee'[t] = Reaped(tracee[t])
    BY <1>1 DEF TInv, KernelInv
  <2>2. tracee'[t].st = "gone" /\ tracee'[t].ret = tracee[t].ret
    BY <1>2, <2>1 DEF Reaped, Tracee
  <2> QED
    BY <1>1, <2>2 DEF TInv, KernelInv
<1>4. exit_status' = IF tracee'[First].st = "gone" THEN tracee'[First].ret ELSE "none"
  BY <1>1, <1>2, <1>3, FirstAssumption DEF LedgerInv
<1>5. CASE /\ Found(procs, t) = {} /\ mpc' = AfterExit(procs)
           /\ UNCHANGED <<procs, dbProcs>>
  <2>1. ASSUME NEW id \in DOMAIN dbProcs PROVE Accounted(id)'
    <3>1. Accounted(id) /\ dbProcs[id].tid \in Tids
      BY <1>2, RowTyped DEF LedgerInv, TInv
    <3>2. dbProcs[id].tid # t
      BY <1>2, <1>5, <3>1 DEF Accounted, Found, InUse, Registered
    <3> QED
      BY <1>3, <1>5, <3>1, <3>2 DEF Accounted
  <2>2. mpc' \in {"returned", "committed"} => InUse(procs)' = {}
    BY <1>5, AfterExitTyped, ReturnsWhenEmpty DEF TInv, WellTyped
  <2> QED
    BY <1>2, <1>4, <1>5, <2>1, <2>2 DEF LedgerInv
<1>6. CASE /\ Found(procs, t) # {} /\ procs[i].tg # NoGroup
           /\ procs' = FreeProcess(procs, i)
           /\ AddExit(procs[i].identifier, tracee[t].ret)
           /\ mpc' = AfterExit(procs')
  <2>1. /\ i \in DOMAIN procs /\ procs[i].tid = t /\ procs[i] \in Slot(Tids)
        /\ i \in InUse(procs)
    BY <1>6, FindFinds DEF TInv, WellTyped
  <2>2. Registered(procs[i])
    <3>1. procs[i].status \notin {"FREE", "UNKNOWN"}
      BY <1>6, <2>1 DEF TablesInv, NullGroups
    <3> HIDE DEF i
    <3> QED
      BY <2>1, <3>1 DEF Registered, Slot, SlotStatus
  <2> DEFINE n == procs[i].identifier
  <2>3. n \in DOMAIN dbProcs /\ dbProcs[n].tid = t
    BY <1>2, <2>1, <2>2 DEF LedgerInv
  <2>4. /\ procs' \in Seq(Slot(Tids)) /\ DOMAIN procs' = DOMAIN procs
        /\ procs'[i].status = "FREE"
        /\ \A k \in DOMAIN procs : k # i => procs'[k] = procs[k]
    BY <1>6, <2>1, FreeProcessFrees DEF TInv, WellTyped
  <2>5. \A k \in DOMAIN procs : Registered(procs[k]) /\ procs[k].tid = t => k = i
    BY <2>1 DEF TablesInv, UniqueTids, InUse, Registered
  <2>6. /\ DOMAIN dbProcs' = DOMAIN dbProcs
        /\ \A id \in DOMAIN dbProcs : dbProcs'[id].tid = dbProcs[id].tid
        /\ \A id \in DOMAIN dbProcs : id # n => dbProcs'[id] = dbProcs[id]
        /\ dbProcs'[n].exit = tracee[t].ret
    <3> HIDE DEF i
    <3>1. dbProcs' = [dbProcs EXCEPT ![n].exit = tracee[t].ret]
      BY <1>6, <2>3 DEF AddExit
    <3>2. dbProcs[n] \in ProcRow
      BY <2>3, RowTyped DEF TInv
    <3> HIDE DEF n
    <3> DEFINE r == [dbProcs[n] EXCEPT !.exit = tracee[t].ret]
    <3>3. r.tid = dbProcs[n].tid /\ r.exit = tracee[t].ret
      BY <3>2 DEF ProcRow
    <3>4. dbProcs' = [dbProcs EXCEPT ![n] = r]
      BY <3>1
    <3> HIDE DEF r
    <3> QED
      BY <2>3, <3>3, <3>4 DEF TInv, WellTyped
  <2>7. mpc' \in {"returned", "committed"} => InUse(procs)' = {}
    BY <1>6, <2>4, AfterExitTyped, ReturnsWhenEmpty
  <2> HIDE DEF i, n
  <2>8. ASSUME NEW id \in DOMAIN dbProcs PROVE Accounted(id)'
    <3>1. Accounted(id) /\ dbProcs[id].tid \in Tids
      BY <1>2, RowTyped DEF LedgerInv, TInv
    <3>2. CASE id = n
      BY <1>3, <2>3, <2>6, <3>2 DEF Accounted
    <3>3. CASE id # n
      <4>1. CASE tracee[dbProcs[id].tid].st = "gone" /\ dbProcs[id].exit = tracee[dbProcs[id].tid].ret
        BY <1>2, <1>3, <2>6, <3>1, <3>3, <4>1 DEF Accounted
      <4>2. ASSUME NEW k \in DOMAIN procs, Registered(procs[k]),
                   procs[k].tid = dbProcs[id].tid, procs[k].identifier = id
            PROVE  Accounted(id)'
        <5>1. k # i
          BY <3>3, <4>2 DEF n
        <5> QED
          BY <2>4, <2>6, <4>2, <5>1 DEF Accounted
      <4> QED
        BY <3>1, <4>1, <4>2 DEF Accounted
    <3> QED
      BY <3>2, <3>3
  <2>9. ASSUME NEW k \in DOMAIN procs', Registered(procs'[k])
        PROVE  /\ procs'[k].identifier \in DOMAIN dbProcs'
               /\ dbProcs'[procs'[k].identifier].tid = procs'[k].tid
    <3>1. k # i
      BY <2>4, <2>9 DEF Registered
    <3> QED
      BY <1>2, <2>4, <2>6, <2>9, <3>1 DEF LedgerInv
  <2> QED
    BY <1>4, <2>6, <2>7, <2>8, <2>9 DEF LedgerInv
<1> QED
  BY <1>5, <1>6 DEF ExitReported, tables, InsertionFails, Tracing, Looping

LEMMA AppearsLedger ==
  ASSUME Base, PipesInv, LedgerInv, NEW t \in Tids, Appears(t)
  PROVE  LedgerInv'
<1> USE DEF Base
<1>1. /\ mpc = "wait" /\ UNCHANGED <<mpc, dbProcs, exit_status>>
      /\ Waited(t) /\ Event(t) # "exit" /\ tracee' = [tracee EXCEPT ![t] = Reaped(@)]
  BY DEF Appears, Waited, db
<1>2. NoneReaped
  BY <1>1, StopReapsNone
<1> DEFINE e == EmptySlot(procs)
           table == WithRoom(procs)
<1>3. /\ table \in Seq(Slot(Tids)) /\ DOMAIN procs \subseteq DOMAIN table
      /\ e \in DOMAIN table /\ table[e].status = "FREE"
      /\ \A k \in DOMAIN procs : table[k] = procs[k]
      /\ \A k \in DOMAIN table : k \notin DOMAIN procs => table[k] = FreeSlot
  BY RoomInTable DEF TInv
<1>4. procs' = [table EXCEPT ![e].status = "UNKNOWN", ![e].flags = {}, ![e].tid = t,
                             ![e].tg = NoGroup, ![e].in_syscall = FALSE]
  BY DEF Appears
<1> HIDE DEF e, table
<1>5. /\ DOMAIN procs' = DOMAIN table
      /\ procs'[e].status = "UNKNOWN"
      /\ \A k \in DOMAIN table : k # e => procs'[k] = table[k]
  <2>1. table[e] \in Slot(Tids)
    BY <1>3
  <2> DEFINE s == [table[e] EXCEPT !.status = "UNKNOWN", !.flags = {}, !.tid = t,
                                   !.tg = NoGroup, !.in_syscall = FALSE]
  <2>2. s.status = "UNKNOWN"
    BY <2>1 DEF Slot
  <2>3. procs' = [table EXCEPT ![e] = s]
    BY <1>3, <1>4
  <2> HIDE DEF s
  <2> QED
    BY <1>3, <2>2, <2>3
<1>6. FreeSlot.status = "FREE"
  BY DEF FreeSlot
<1>7. \A k \in DOMAIN procs' : Registered(procs'[k]) => k \in DOMAIN procs /\ Entry(procs[k], procs'[k])
  BY <1>3, <1>5, <1>6 DEF Registered, Entry
<1>8. \A k \in DOMAIN procs : Registered(procs[k]) => k \in DOMAIN procs' /\ Entry(procs'[k], procs[k])
  BY <1>3, <1>5 DEF Registered, Entry
<1> QED
  BY <1>1, <1>2, <1>7, <1>8, LedgerKept DEF Tracing, Looping

\* An ATTACHED slot: its first stop, a signal, a system call.
LEMMA StopLedger ==
  ASSUME Base, PipesInv, LedgerInv, NEW t \in Tids, Attached(t) \/ SyscallStop(t) \/ SignalForwarded(t)
  PROVE  LedgerInv'
<1> USE DEF Base
<1>1. /\ mpc = "wait" /\ mpc' \in Looping /\ UNCHANGED <<dbProcs, exit_status>>
      /\ Waited(t) /\ Event(t) # "exit"
      /\ \/ tracee' = [tracee EXCEPT ![t] = Reaped(@)]
         \/ tracee' = [tracee EXCEPT ![t] = Resumed(Reaped(@))]
  BY DEF Attached, SyscallStop, SignalForwarded, Stop, Waited, Looping, db
<1>2. NoneReaped
  BY <1>1, StopReapsNone
<1> DEFINE i == Find(procs, t)
           a == [procs[i] EXCEPT !.status = "ATTACHED"]
           r == WithRegisters(procs[i], tracee[t])
<1>3. i \in DOMAIN procs /\ procs[i] \in Slot(Tids)
  BY FoundInTable DEF Attached, SyscallStop, SignalForwarded, Stop, TInv
<1>4. \/ UNCHANGED procs
      \/ procs[i].status = "ALLOCATED" /\ procs' = [procs EXCEPT ![i] = a]
      \/ procs' = [procs EXCEPT ![i] = r]
  BY <1>3 DEF Attached, SyscallStop, SignalForwarded, tables, TInv, WellTyped
<1>5. /\ a.tid = procs[i].tid /\ a.identifier = procs[i].identifier /\ a.status = "ATTACHED"
      /\ r.tid = procs[i].tid /\ r.identifier = procs[i].identifier /\ r.status = procs[i].status
  <2> HIDE DEF i
  <2> QED
    BY <1>3 DEF Slot, WithRegisters
<1> HIDE DEF i, a, r
<1>6. /\ DOMAIN procs' = DOMAIN procs
      /\ \A k \in DOMAIN procs : /\ procs'[k].tid = procs[k].tid
                                 /\ procs'[k].identifier = procs[k].identifier
                                 /\ \/ procs'[k].status = procs[k].status
                                    \/ procs[k].status = "ALLOCATED" /\ procs'[k].status = "ATTACHED"
  BY <1>3, <1>4, <1>5 DEF TInv, WellTyped
<1> QED
  BY <1>1, <1>2, <1>6, SlotsLedger DEF Tracing, Looping

\* Only a process that had an execve_info stays in the loop with its exec event.
LEMMA ExecGoesOn ==
  ASSUME Base, PipesInv, NoExecInThreads, NEW t \in Tids, ExecEvent(t), mpc' \in Tracing
  PROVE  LET i == Find(procs, t) IN
         /\ Stop(t, {"exec"}) /\ Event(t) = "exec"
         /\ i \in DOMAIN procs /\ procs[i] \in Slot(Tids) /\ procs[i].execve_info # NoInfo
         /\ procs[i].tid = t /\ procs[i].status = "ATTACHED"
         /\ procs' = [procs EXCEPT ![i] = [@ EXCEPT !.execve_info = NoInfo, !.flags = {"EXECD"}]]
         /\ mpc' = "poll" /\ tracee' = [tracee EXCEPT ![t] = Resumed(Reaped(@))]
         /\ AddRow(procs[i].identifier, DbRow("exec", groups[procs[i].tg].wd, procs[i].execve_info))
         /\ UNCHANGED <<cwd, did, left, groups, list, exit_status, workers, toWorker, toTracer, dbProcs>>
<1> USE DEF Base
<1> DEFINE i == Find(procs, t)
           own == procs[i].execve_info # NoInfo
           s == [[procs[i] EXCEPT !.execve_info = NoInfo] EXCEPT !.flags = {"EXECD"}]
<1>1. Stop(t, {"exec"}) /\ Event(t) = "exec"
  BY DEF ExecEvent, Stop
<1>2. /\ i \in DOMAIN procs /\ procs[i] \in Slot(Tids) /\ procs[i].tid = t /\ procs[i].status = "ATTACHED"
      /\ procs[i].tg # NoGroup
  BY <1>1, StopSlot, StopTaken DEF SlotsInOrder, SlotInOrder
<1>3. mpc' \notin {"segv", "failed"}
  BY DEF Tracing, Looping
<1>4. own
  <2>1. SUFFICES ASSUME ~ own PROVE FALSE
    OBVIOUS
  <2>2. ExecCallers(i) = {}
    BY <1>1, <2>1, ExecByItself
  <2> QED
    BY <1>3, <2>1, <2>2 DEF ExecEvent, InsertionFails
<1>5. procs' = [[procs EXCEPT ![i].execve_info = NoInfo] EXCEPT ![i].flags = {"EXECD"}]
  BY <1>3, <1>4 DEF ExecEvent
<1>6. procs' = [procs EXCEPT ![i] = s] /\ s = [procs[i] EXCEPT !.execve_info = NoInfo, !.flags = {"EXECD"}]
  BY <1>2, <1>5 DEF TInv, WellTyped
<1>7. procs'[i].tg = procs[i].tg /\ procs'[i].identifier = procs[i].identifier
  <2> HIDE DEF i
  <2> QED
    BY <1>2, <1>6 DEF TInv, WellTyped, Slot
<1>8. /\ mpc' = "poll" /\ tracee' = [tracee EXCEPT ![t] = Resumed(Reaped(@))]
      /\ AddRow(procs[i].identifier, DbRow("exec", groups[procs[i].tg].wd, procs[i].execve_info))
      /\ UNCHANGED <<cwd, did, left, groups, list, exit_status, workers, toWorker, toTracer, dbProcs>>
  BY <1>3, <1>4, <1>7 DEF ExecEvent, InsertionFails, pool, pipes
<1> QED
  BY <1>1, <1>2, <1>4, <1>6, <1>8

LEMMA ExecLedger ==
  ASSUME Base, PipesInv, NoExecInThreads, LedgerInv, NEW t \in Tids, ExecEvent(t)
  PROVE  LedgerInv'
<1> SUFFICES ASSUME mpc' \in Tracing PROVE LedgerInv'
  BY DEF LedgerInv
<1> DEFINE i == Find(procs, t)
           s == [procs[i] EXCEPT !.execve_info = NoInfo, !.flags = {"EXECD"}]
<1>1. /\ Waited(t) /\ Event(t) # "exit" /\ mpc' = "poll"
      /\ i \in DOMAIN procs /\ procs[i] \in Slot(Tids)
      /\ procs' = [procs EXCEPT ![i] = s]
      /\ tracee' = [tracee EXCEPT ![t] = Resumed(Reaped(@))]
      /\ UNCHANGED <<dbProcs, exit_status>>
  BY ExecGoesOn DEF Stop
<1>2. SameSlot(s, procs[i])
  <2> HIDE DEF i
  <2> QED
    BY <1>1 DEF SameSlot, Slot
<1> HIDE DEF s, i
<1>3. SameSlots
  BY <1>1, <1>2, OneSlotWritten DEF Base, TInv
<1>4. NoneReaped
  BY <1>1, StopReapsNone
<1> QED
  BY <1>1, <1>3, <1>4, SameLedger DEF Base, Waited, Tracing, Looping

\* The row of a child that is made known by its parent.
LEMMA ForkRow ==
  ASSUME Base, PipesInv, NEW t \in Tids, ForkEvent(t), mpc' \in Looping
  PROVE  LET i == Find(procs, t)
             c == tracee[t].child
         IN  /\ dbProcs' = Append(dbProcs, [tid |-> c, exit |-> "none", parent |-> procs[i].identifier])
             /\ dbRows' = Append(dbRows, <<DbRow("wd", groups[procs[i].tg].wd, t)>>)
             /\ mpc' = "poll" /\ "FORKING" \in procs[i].flags /\ procs[i].tg # NoGroup
             /\ groups' = IF procs[i].call = "clone" THEN ShareThreadGroup(groups, procs[i].tg)
                          ELSE NewThreadGroup(groups, c, groups[procs[i].tg].wd)
             /\ UNCHANGED <<cwd, did, left, list, exit_status, workers, toWorker, toTracer>>
<1>1. mpc' \notin {"segv", "failed"}
  BY DEF Looping
<1> QED
  BY <1>1 DEF ForkEvent, InsertionFails, pool, pipes

LEMMA ForkLedger ==
  ASSUME Base, PipesInv, LedgerInv, NEW t \in Tids, ForkEvent(t)
  PROVE  LedgerInv'
<1> SUFFICES ASSUME mpc' \in Tracing PROVE LedgerInv'
  BY DEF LedgerInv
<1> USE DEF Base
<1>1. mpc' \in Looping
  BY DEF ForkEvent, InsertionFails, Tracing, Looping
<1> DEFINE i == Find(procs, t)
           n == Len(dbProcs) + 1
<1>2. /\ Stop(t, {"spawn"}) /\ ~ UNCHANGED <<tracee, tables>>
  BY <1>1, ForkGoesOn
<1>3. /\ Waited(t) /\ Event(t) = "spawn" /\ mpc \in Tracing
      /\ i \in DOMAIN procs /\ procs[i] \in Slot(Tids) /\ procs[i].status = "ATTACHED"
  BY <1>2, StopSlot DEF Stop, Waited, Tracing, Looping
<1>4. PICK c \in Tids, j \in DOMAIN procs' : ForkTakes(t, c, j) /\ ForkFills(t, c, j)
  BY <1>2, ForkWrites
<1>5. c = tracee[t].child /\ c # t
  BY <1>4 DEF ForkTakes
<1>6. /\ exit_status' = exit_status
      /\ dbProcs' = Append(dbProcs, [tid |-> c, exit |-> "none", parent |-> procs[i].identifier])
  BY <1>1, <1>5, ForkRow
<1>7. /\ DOMAIN dbProcs' = DOMAIN dbProcs \cup {n} /\ n \notin DOMAIN dbProcs
      /\ \A id \in DOMAIN dbProcs : dbProcs'[id] = dbProcs[id]
      /\ dbProcs'[n].tid = c
  <2> HIDE DEF i
  <2> QED
    BY <1>6 DEF TInv, WellTyped
<1>8. NoneReaped
  <2>1. tracee[t].st = "stopped" /\ tracee'[t].st # "gone"
    <3>1. tracee[t].st = "stopped" /\ Waits(Reaped(tracee[t])) /\ Resumed(Reaped(tracee[t])).st = "running"
      BY <1>3, StopTaken
    <3>2. tracee'[t] \in {Reaped(tracee[t]), Resumed(Reaped(tracee[t]))}
      BY <1>4 DEF ForkTakes
    <3> QED
      BY <3>1, <3>2 DEF Waits
  <2>2. tracee'[c] = tracee[c] \/ (tracee[c].st # "gone" /\ tracee'[c].st # "gone")
    <3>1. tracee'[c] = Resumed(tracee[c]) \/ tracee'[c] = tracee[c]
      BY <1>4 DEF ForkTakes
    <3>2. tracee[c] \in Tracee
      BY DEF TInv, KernelInv
    <3> QED
      BY <3>1, <3>2 DEF Resumed, Tracee
  <2>3. \A u \in Tids : u # t /\ u # c => tracee'[u] = tracee[u]
    BY <1>4 DEF ForkTakes
  <2> QED
    BY <2>1, <2>2, <2>3 DEF NoneReaped
<1>9. procs'[j].tid = c /\ procs'[j].identifier = n /\ Registered(procs'[j])
  <2>1. PICK b \in Slot(Tids) :
          procs'[j] = [b EXCEPT
                !.status = IF Found(procs, c) # {} THEN "ATTACHED" ELSE "ALLOCATED",
                !.flags = {}, !.tid = c, !.in_syscall = FALSE,
                !.tg = IF procs[i].call = "clone" THEN procs[i].tg ELSE c,
                !.identifier = n]
    BY <1>4 DEF ForkFills
  <2> HIDE DEF i, n
  <2> QED
    BY <2>1 DEF Slot, Registered
<1>10. /\ j \in DOMAIN procs => ~ Registered(procs[j])
       /\ \A k \in DOMAIN procs : k # j => /\ k \in DOMAIN procs'
                                           /\ procs'[k].tid = procs[k].tid
                                           /\ procs'[k].identifier = procs[k].identifier
                                           /\ procs'[k].status = procs[k].status
       /\ \A k \in DOMAIN procs' : k # j /\ k \notin DOMAIN procs => ~ Registered(procs'[k])
  <2>1. [procs[i] EXCEPT !.flags = @ \ {"FORKING"}].identifier = procs[i].identifier
    <3> HIDE DEF i
    <3> QED
      BY <1>3 DEF Slot
  <2>2. \A k \in DOMAIN procs : k # j => procs'[k].identifier = procs[k].identifier
    BY <1>4, <2>1 DEF ForkFills
  <2> HIDE DEF i
  <2> QED
    BY <1>4, <2>2 DEF ForkTakes, Registered, Entry
<1> HIDE DEF i, n
<1>11. ASSUME NEW id \in DOMAIN dbProcs' PROVE Accounted(id)'
  <2>1. CASE id = n
    BY <1>7, <1>9, <2>1 DEF Accounted
  <2>2. CASE id \in DOMAIN dbProcs
    <3>1. Accounted(id) /\ dbProcs[id].tid \in Tids /\ dbProcs'[id] = dbProcs[id]
      BY <1>3, <1>7, <2>2, RowTyped DEF LedgerInv, TInv
    <3>2. CASE tracee[dbProcs[id].tid].st = "gone" /\ dbProcs[id].exit = tracee[dbProcs[id].tid].ret
      BY <1>8, <3>1, <3>2 DEF Accounted, NoneReaped
    <3>3. ASSUME NEW k \in DOMAIN procs, Registered(procs[k]),
                 procs[k].tid = dbProcs[id].tid, procs[k].identifier = id
          PROVE  Accounted(id)'
      <4>1. k # j
        BY <1>10, <3>3
      <4> QED
        BY <1>10, <3>1, <3>3, <4>1 DEF Accounted, Registered
    <3> QED
      BY <3>1, <3>2, <3>3 DEF Accounted
  <2> QED
    BY <1>7, <2>1, <2>2
<1>12. ASSUME NEW k \in DOMAIN procs', Registered(procs'[k])
       PROVE  /\ procs'[k].identifier \in DOMAIN dbProcs'
              /\ dbProcs'[procs'[k].identifier].tid = procs'[k].tid
  <2>1. CASE k = j
    BY <1>7, <1>9, <2>1
  <2>2. CASE k # j
    <3>1. k \in DOMAIN procs /\ Registered(procs[k])
      BY <1>10, <1>12, <2>2 DEF Registered
    <3> QED
      BY <1>3, <1>7, <1>10, <2>2, <3>1 DEF LedgerInv
  <2> QED
    BY <2>1, <2>2
<1>13. exit_status' = IF tracee'[First].st = "gone" THEN tracee'[First].ret ELSE "none"
  BY <1>3, <1>6, <1>8, FirstAssumption DEF LedgerInv, NoneReaped
<1> QED
  BY <1>1, <1>11, <1>12, <1>13 DEF LedgerInv, Looping

LEMMA WorkerLedger ==
  ASSUME Base, PipesInv, LedgerInv, NEW t \in Tids, WorkerStep(t)
  PROVE  LedgerInv'
<1> SUFFICES ASSUME mpc' \in Tracing PROVE LedgerInv'
  BY DEF LedgerInv
<1>1. UNCHANGED <<mpc, dbProcs, exit_status>>
  BY DEF WorkerStep, StopHandled, StopPeeks, BadPointer, PeekAgain, PathRead, InsertFails, Answered,
     db, Tracing, Looping
<1>2. UNCHANGED tracee /\ SameSlots
  BY WorkerTouches, WorkerSlots DEF Base, kernelVars
<1> QED
  BY <1>1, <1>2, SameLedger DEF Base, NoneReaped

LEMMA ServeLedger ==
  ASSUME Base, PipesInv, LedgerInv, Serve
  PROVE  LedgerInv'
<1> USE DEF Base
<1>1. PICK w \in Tids :
        /\ mpc = "serve" /\ mpc' \in Looping
        /\ tracee' = IF workers[w].pc = "resume" /\ tracee[w].st = "stopped"
                     THEN [tracee EXCEPT ![w] = Resumed(@)] ELSE tracee
        /\ UNCHANGED <<procs, dbProcs, exit_status>>
  BY Served
<1>2. tracee[w].st = "stopped" => Resumed(tracee[w]).st = "running"
  <2>1. tracee[w] \in Tracee
    BY DEF TInv, KernelInv
  <2> QED
    BY <2>1 DEF Resumed, Tracee
<1>3. NoneReaped
  BY <1>1, <1>2 DEF NoneReaped, TInv, KernelInv
<1> QED
  BY <1>1, <1>3, SameLedger, NothingWritten DEF Tracing, Looping

LEMMA LedgerInit == Init => LedgerInv
<1> SUFFICES ASSUME Init PROVE LedgerInv
  OBVIOUS
<1>1. mpc = "wait" /\ exit_status = "none"
  BY DEF Init
<1>2. dbProcs = <<[tid |-> First, parent |-> 0, exit |-> "none"]>>
  BY DEF Init
<1>3. /\ DOMAIN procs = 1 .. InitSlots
      /\ procs[1] = [FreeSlot EXCEPT !.status = "ALLOCATED", !.tid = First, !.tg = First, !.identifier = 1]
      /\ \A i \in 1 .. InitSlots : i # 1 => procs[i] = FreeSlot
  BY SlotsAssumption DEF Init
<1>4. /\ procs[1].status = "ALLOCATED" /\ procs[1].tid = First /\ procs[1].identifier = 1
      /\ \A i \in 1 .. InitSlots : i # 1 => ~ Registered(procs[i])
      /\ 1 \in DOMAIN procs
  BY <1>3, SlotsAssumption DEF FreeSlot, Registered
<1>5. tracee[First].st # "gone"
  BY FirstAssumption DEF Init, KernelInit, Born, NotBorn
<1>6. Accounted(1) /\ DOMAIN dbProcs = {1} /\ dbProcs[1].tid = First
  BY <1>2, <1>4 DEF Accounted, Registered
<1>7. \A i \in DOMAIN procs : Registered(procs[i]) => i = 1
  BY <1>3, <1>4
<1> QED
  BY <1>1, <1>4, <1>5, <1>6, <1>7 DEF LedgerInv

LEMMA LedgerStep ==
  ASSUME Base, PipesInv, NoExecInThreads, LedgerInv, [Next]_vars
  PROVE  LedgerInv'
<1> USE DEF Base
<1> SUFFICES ASSUME mpc' \in Tracing PROVE LedgerInv'
  BY DEF LedgerInv
<1>1. ASSUME UNCHANGED <<tracee, procs, dbProcs, exit_status>>, mpc \in Tracing,
             mpc' \in {"returned", "committed"} => mpc \in {"returned", "committed"}
      PROVE  LedgerInv'
  BY <1>1, SameLedger, NothingWritten DEF NoneReaped
<1>2. ASSUME NEW t \in Tids, WaitStep(t) PROVE LedgerInv'
  <2>1. ~ ExitWithoutWorker(t)
    BY DEF ExitWithoutWorker, Tracing, Looping
  <2> QED
    BY <1>2, <2>1, ExitLedger, AppearsLedger, StopLedger, ExecLedger, ForkLedger DEF WaitStep
<1>3. CASE WaitNothing \/ Poll \/ Commit
  <2>1. UNCHANGED <<tracee, procs, dbProcs, exit_status>>
    BY <1>3 DEF WaitNothing, Poll, Commit, kernelVars, tables, db
  <2>2. /\ mpc \in Tracing
        /\ mpc' \in {"returned", "committed"} => mpc \in {"returned", "committed"}
    BY <1>3 DEF WaitNothing, Poll, Commit, Tracing, Looping
  <2> QED
    BY <1>1, <2>1, <2>2
<1>4. ~ WaitFails /\ ~ Rollback /\ ~ Interrupt
  BY DEF WaitFails, Rollback, Interrupt, Tracing, Looping
<1>5. ASSUME NEW t \in Tids, TraceeStep(t) PROVE LedgerInv'
  <2>1. NoneReaped
    BY <1>5, GoneStays DEF TraceeStep, PipesInv, TInv
  <2>2. UNCHANGED <<mpc, procs, dbProcs, exit_status>>
    BY <1>5 DEF TraceeStep, tracerVars
  <2> QED
    BY <2>1, <2>2, SameLedger, NothingWritten
<1>6. CASE UNCHANGED vars
  BY <1>1, <1>6 DEF vars, kernelVars, tracerVars
<1> QED
  BY <1>2, <1>3, <1>4, <1>5, <1>6, WorkerLedger, ServeLedger DEF Next, MainStep, Stops

LEMMA LedgerAlways == NoExecInThreads => (Spec => [](Base /\ PipesInv /\ LedgerInv))
<1> SUFFICES ASSUME NoExecInThreads PROVE Spec => [](Base /\ PipesInv /\ LedgerInv)
  OBVIOUS
<1>1. Init => LedgerInv
  BY LedgerInit
<1>2. Base /\ PipesInv /\ LedgerInv /\ [Next]_vars => LedgerInv'
  BY LedgerStep
<1>3. Spec => [](Base /\ PipesInv)
  BY PipesAlways
<1> QED
  BY <1>1, <1>2, <1>3, PTL DEF Spec

\* db_add_exit() is called for every process before the trace is committed, with
\* the status that the kernel reported for that process: the row is found through
\* the slot of a tid, which other processes had before. Programs with threads must
\* not call execve(), which ends threads without reporting it.
THEOREM ExitsAreRecorded == NoExecInThreads => (Spec => []ExitsRecorded)
<1> SUFFICES ASSUME NoExecInThreads PROVE Spec => []ExitsRecorded
  OBVIOUS
<1>1. LedgerInv => ExitsRecorded
  <2> SUFFICES ASSUME LedgerInv, mpc = "committed", NEW id \in DOMAIN dbProcs
               PROVE  dbProcs[id].exit = tracee[dbProcs[id].tid].ret
    BY DEF ExitsRecorded
  <2>1. Accounted(id) /\ InUse(procs) = {}
    BY DEF LedgerInv, Tracing
  <2> QED
    BY <2>1 DEF Accounted, Registered, InUse
<1>2. Spec => [](Base /\ PipesInv /\ LedgerInv)
  BY LedgerAlways
<1> QED
  BY <1>1, <1>2, PTL

------------------------------------------------------------------------------
(* No process is left out.                                                   *)

\* The child that a fork event tells of is in its first stop.
LEMMA ForkChild ==
  ASSUME Placed, NEW t \in Tids, Waited(t), Event(t) = "spawn"
  PROVE  LET c == tracee[t].child IN
         /\ c \in Children /\ Newcomer(c) /\ ~ Attachment(c)
         /\ \A k \in InUse(procs) : procs[k].tid = c => procs[k].status = "UNKNOWN"
<1> USE DEF Placed, Stopping, Base
<1> DEFINE c == tracee[t].child
<1>1. mpc \in Looping /\ Stages /\ Spawning(t) /\ c \in Tids
  BY StopTaken, CreatorStopped DEF Looping, Spawning, Event
<1>2. /\ tracee[c].st \notin {"unborn", "gone"}
      /\ \A k \in InUse(procs) : procs[k].tid = c => procs[k].status = "UNKNOWN"
  BY <1>1 DEF Stages
<1>3. ~ Attachment(c)
  BY <1>2 DEF Attachment, InUse
<1> QED
  BY <1>1, <1>2, <1>3 DEF Children, CreatorsInv, Place

\* A fork event is there until it is reported.
LEMMA SpawnsStay ==
  ASSUME Placed, [Next]_vars, Unhurt', mpc \in Looping, mpc' \in Tracing,
         NEW p \in Tids, Spawning(p), ~ ForkEvent(p)
  PROVE  tracee'[p] = tracee[p]
<1> USE DEF Placed, Stopping, Base
<1>1. /\ tracee[p].st = "stopped" /\ tracee[p].ev = "spawn" /\ tracee \in [Tids -> Tracee]
      /\ ~ Newcomer(p) /\ Attachment(p)
  <2>1. tracee[p].st = "stopped" /\ tracee[p].ev = "spawn"
    BY CreatorStopped
  <2> QED
    BY <2>1 DEF Newcomer, CreatorsInv, Place, Children, TInv, KernelInv
<1>2. ASSUME NEW t \in Tids, NEW s, tracee' = [tracee EXCEPT ![t] = s], t # p
      PROVE  tracee'[p] = tracee[p]
  BY <1>1, <1>2
<1>3. ASSUME NEW t \in Tids, WaitStep(t) PROVE tracee'[p] = tracee[p]
  <2>1. ~ ExitWithoutWorker(t)
    BY DEF ExitWithoutWorker, Tracing, Looping
  <2>2. CASE ExitReported(t)
    BY <1>1, <1>2, <2>2 DEF ExitReported, Event
  <2>3. CASE Appears(t)
    <3>1. Found(procs, t) = {}
      BY <2>3 DEF Appears
    <3>2. ~ Attachment(t)
      BY <3>1 DEF Attachment, Found, InUse
    <3> QED
      BY <1>1, <1>2, <2>3, <3>2 DEF Appears
  <2>4. CASE Attached(t)
    <3>1. Find(procs, t) \in InUse(procs) /\ procs[Find(procs, t)].tid = t
      BY <2>4, FindFinds DEF Attached, TInv, WellTyped
    <3>2. procs[Find(procs, t)].status = "ALLOCATED"
      BY <2>4 DEF Attached
    <3>3. ~ Attachment(t)
      BY <3>1, <3>2 DEF Attachment, TablesInv, UniqueTids, InUse
    <3> QED
      BY <1>1, <1>2, <2>4, <3>3 DEF Attached
  <2>5. CASE SyscallStop(t) \/ SignalForwarded(t)
    <3>1. Event(t) # "spawn"
      BY <2>5 DEF SyscallStop, SignalForwarded, Stop
    <3> QED
      BY <1>1, <1>2, <2>5, <3>1 DEF SyscallStop, SignalForwarded, Event
  <2>6. CASE ExecEvent(t)
    <3>1. Event(t) = "exec" /\ tracee' = [tracee EXCEPT ![t] = Resumed(Reaped(@))]
      BY <2>6, ExecGoesOn, ThreadlessSafe
    <3> QED
      BY <1>1, <1>2, <3>1 DEF Event
  <2>7. CASE ForkEvent(t)
    <3>1. mpc' \in Looping /\ t # p
      BY <2>7 DEF ForkEvent, InsertionFails, Tracing, Looping
    <3>2. Stop(t, {"spawn"}) /\ ~ UNCHANGED <<tracee, tables>>
      BY <2>7, <3>1, ForkGoesOn
    <3>3. PICK c \in Tids, j \in DOMAIN procs' : ForkTakes(t, c, j) /\ ForkFills(t, c, j)
      BY <2>7, <3>2, ForkWrites
    <3>4. Newcomer(c)
      BY <3>2, <3>3, ForkChild DEF Stop, ForkTakes
    <3> QED
      BY <1>1, <3>1, <3>3, <3>4 DEF ForkTakes
  <2> QED
    BY <1>3, <2>1, <2>2, <2>3, <2>4, <2>5, <2>6, <2>7 DEF WaitStep
<1>4. CASE Serve
  <2>1. PICK w \in Tids :
           /\ workers[w].pc \in {"peek", "resume"} /\ toTracer[w] # <<>>
           /\ tracee' = IF workers[w].pc = "resume" /\ tracee[w].st = "stopped"
                        THEN [tracee EXCEPT ![w] = Resumed(@)] ELSE tracee
    BY <1>4, Served
  <2>2. Busy(w) /\ mpc \in Live
    BY <2>1 DEF Busy, InHand, Live
  <2>3. w # p
    BY <1>1, <2>2 DEF PipesInv, Pipes, Parked, Waits
  <2> QED
    BY <1>2, <2>1, <2>3
<1>5. ASSUME NEW t \in Tids, TraceeStep(t) PROVE tracee'[p] = tracee[p]
  BY <1>1, <1>5, StoppedStays DEF TraceeStep, TInv, PipesInv
<1>6. ~ WaitFails /\ ~ Rollback /\ ~ Interrupt
  BY DEF WaitFails, Rollback, Interrupt, Tracing, Looping
<1>7. ASSUME NEW t \in Tids, WorkerStep(t) PROVE tracee'[p] = tracee[p]
  BY <1>7, WorkerTouches DEF kernelVars
<1>8. CASE WaitNothing \/ Poll \/ Commit \/ UNCHANGED vars
  BY <1>8 DEF WaitNothing, Poll, Commit, kernelVars, vars
<1> QED
  BY <1>3, <1>4, <1>5, <1>6, <1>7, <1>8 DEF Next, MainStep, Stops

\* Rows of table processes are added, and keep their process.
LEMMA RowsStay ==
  ASSUME Base, [Next]_vars, mpc' \in Tracing
  PROVE  /\ mpc \in Tracing
         /\ \A id \in DOMAIN dbProcs : id \in DOMAIN dbProcs' /\ dbProcs'[id].tid = dbProcs[id].tid
         /\ \A u : Ids(u) \subseteq Ids(u)'
<1> DEFINE Stay == \A id \in DOMAIN dbProcs : id \in DOMAIN dbProcs' /\ dbProcs'[id].tid = dbProcs[id].tid
<1>0. dbProcs \in Seq(ProcRow)
  BY DEF Base, TInv, WellTyped
<1>1. ASSUME NEW id, NEW why, AddExit(id, why) PROVE Stay
  <2>1. ASSUME id \in DOMAIN dbProcs PROVE [dbProcs[id] EXCEPT !.exit = why].tid = dbProcs[id].tid
    BY <1>0, <2>1 DEF ProcRow
  <2> DEFINE r == [dbProcs[id] EXCEPT !.exit = why]
  <2>2. dbProcs' = IF id \in DOMAIN dbProcs THEN [dbProcs EXCEPT ![id] = r] ELSE dbProcs
    BY <1>1 DEF AddExit
  <2> HIDE DEF r
  <2> QED
    BY <1>0, <2>1, <2>2 DEF r
<1>2. ASSUME NEW r, dbProcs' = Append(dbProcs, r) PROVE Stay
  BY <1>0, <1>2
<1>3. ASSUME UNCHANGED dbProcs PROVE Stay
  BY <1>3
<1> HIDE DEF Stay
<1>4. ASSUME NEW t \in Tids, WaitStep(t) PROVE Stay
  <2>1. CASE ExitReported(t) \/ ExecEvent(t)
    BY <1>1, <1>3, <2>1 DEF ExitReported, ExecEvent, tables, db
  <2>2. CASE ForkEvent(t)
    BY <1>2, <1>3, <2>2 DEF ForkEvent, db
  <2>3. CASE ExitWithoutWorker(t) \/ Appears(t) \/ Attached(t) \/ SyscallStop(t) \/ SignalForwarded(t)
    BY <1>3, <2>3 DEF ExitWithoutWorker, Appears, Attached, SyscallStop, SignalForwarded, db
  <2> QED
    BY <1>4, <2>1, <2>2, <2>3 DEF WaitStep
<1>5. ASSUME NEW t \in Tids, WorkerStep(t) PROVE UNCHANGED dbProcs /\ mpc' \in {mpc, "segv"}
  BY <1>5 DEF WorkerStep, StopHandled, StopPeeks, BadPointer, PeekAgain, PathRead, InsertFails, Answered, db
<1>6. ~ WaitFails /\ ~ Rollback /\ ~ Interrupt
  BY DEF WaitFails, Rollback, Interrupt, Tracing, Looping
<1>7. ASSUME WaitNothing \/ Poll \/ Serve \/ Commit PROVE Stay
  BY <1>3, <1>7 DEF WaitNothing, Poll, Serve, Commit, db
<1>8. Stay
  <2>1. ASSUME UNCHANGED vars \/ (\E t \in Tids : TraceeStep(t)) PROVE Stay
    BY <1>3, <2>1 DEF TraceeStep, tracerVars, vars, db
  <2>2. ASSUME NEW t \in Tids, WorkerStep(t) PROVE Stay
    BY <1>3, <1>5, <2>2
  <2> QED
    BY <1>4, <1>6, <1>7, <2>1, <2>2 DEF Next, MainStep, Stops
<1>9. mpc \in Tracing
  <2>1. ASSUME NEW t \in Tids, WaitStep(t) PROVE mpc = "wait"
    BY <2>1 DEF WaitStep, ExitWithoutWorker, ExitReported, Appears, Attached, SyscallStop, ExecEvent,
       ForkEvent, SignalForwarded, Stop, Waited
  <2>2. CASE WaitNothing \/ Poll \/ Serve \/ Commit
    BY <2>2 DEF WaitNothing, Poll, Serve, Commit, Tracing, Looping
  <2> QED
    BY <1>5, <1>6, <2>1, <2>2 DEF Next, MainStep, TraceeStep, tracerVars, Stops, vars, Tracing, Looping
<1> QED
  BY <1>8, <1>9 DEF Stay, Ids

\* A tracee that is born is the child of one that has just forked.
LEMMA BornCreated ==
  ASSUME Placed, [Next]_vars, Unhurt', mpc' \in Tracing, NEW u \in Unborn, u \notin Unborn'
  PROVE  Created(u)' /\ mpc' = mpc
<1> USE DEF Placed, Stopping, Base
<1>1. tracee[u].st = "unborn" /\ tracee[u] \in Tracee /\ u \in Tids
  BY DEF Unborn, TInv, KernelInv
<1>2. ASSUME tracee'[u] \in Treated(tracee[u]) PROVE FALSE
  <2>1. tracee'[u].st = "unborn"
    BY <1>1, <1>2 DEF Treated, Reaped, Resumed, Tracee
  <2> QED
    BY <1>1, <2>1 DEF Unborn
<1>3. ~ Rollback /\ ~ Interrupt
  BY DEF Rollback, Interrupt, Tracing, Looping
<1>4. PICK t \in Tids : TraceeStep(t)
  BY <1>1, <1>2, <1>3, TracerTreats DEF Next, Stops
<1>5. TraceeMoves(t)
  BY <1>4, TraceeShapes, NoKill DEF TraceeStep, TInv, PipesInv
<1>6. u # t /\ tracee'[u] # tracee[u]
  BY <1>1, <1>5 DEF TraceeMoves, Unborn
<1>7. tracee'[t].ev = "spawn" /\ tracee'[t].child = u
  BY <1>1, <1>5, <1>6 DEF TraceeMoves
<1>8. mpc' = mpc
  BY <1>4 DEF TraceeStep, tracerVars
<1> QED
  BY <1>7, <1>8 DEF Created, Spawning

\* A process has a row, or its parent has yet to tell of it; when no process is
\* left all have a row.
Told(t) == Ids(t) # {} \/ Created(t)
ToldInv ==
    /\ mpc \in Looping => \A t \in Tids \ Unborn : Told(t)
    /\ mpc \in {"returned", "committed"} =>
          \A t \in Tids \ Unborn : tracee[t].st = "gone" /\ Ids(t) # {}

LEMMA ExitTold ==
  ASSUME Placed, ToldInv, NEW t \in Tids, ExitReported(t), mpc' = "returned", InUse(procs)' = {}
  PROVE  ToldInv'
<1> USE DEF Placed, Stopping, Base
<1>1. /\ mpc = "wait" /\ tracee[t].ev = "exit" /\ tracee[t].st = "dead"
      /\ tracee' = [tracee EXCEPT ![t] = Reaped(@)]
  BY DEF ExitReported, Waited, Event, PipesInv, KernelOrder, Ordered
<1>2. tracee'[t].st = "gone" /\ \A u \in Tids : u # t => tracee'[u] = tracee[u]
  <2>1. tracee[t] \in Tracee /\ tracee'[t] = Reaped(tracee[t])
    BY <1>1 DEF TInv, KernelInv
  <2> QED
    BY <1>1, <2>1 DEF Reaped, Tracee, TInv, KernelInv
<1>3. \A i \in InUse(procs) : procs[i].tid = t
  <2>1. \/ UNCHANGED procs
        \/ Found(procs, t) # {} /\ procs' = FreeProcess(procs, Find(procs, t))
    BY DEF ExitReported, tables, InsertionFails
  <2>2. CASE UNCHANGED procs
    BY <2>2
  <2>3. CASE Found(procs, t) # {} /\ procs' = FreeProcess(procs, Find(procs, t))
    <3>1. Find(procs, t) \in DOMAIN procs /\ procs[Find(procs, t)].tid = t
      BY <2>3, FoundInTable DEF TInv
    <3>2. \A k \in DOMAIN procs : k # Find(procs, t) => procs'[k] = procs[k]
      BY <2>3, <3>1, FreeProcessFrees DEF TInv, WellTyped
    <3>3. DOMAIN procs' = DOMAIN procs
      BY <2>3, <3>1, FreeProcessFrees DEF TInv, WellTyped
    <3> QED
      BY <3>1, <3>2, <3>3 DEF InUse
  <2> QED
    BY <2>1, <2>2, <2>3
<1>4. \A u \in Tids : ~ Created(u)
  <2>1. SUFFICES ASSUME NEW u \in Tids, NEW p \in Tids, Spawning(p) PROVE FALSE
    BY DEF Created
  <2>2. tracee[p].st = "stopped" /\ tracee[p].ev = "spawn"
    BY <2>1, CreatorStopped
  <2>3. Attachment(p) /\ p # t
    BY <1>1, <2>2 DEF CreatorsInv, Place, Children, Newcomer, Looping
  <2> QED
    BY <1>3, <2>3 DEF Attachment, InUse
<1>5. \A u \in Tids \ Unborn : u # t => tracee[u].st = "gone"
  BY <1>1, <1>3, <1>4 DEF CreatorsInv, Place, Children, Found, Looping, Unborn
<1>6. \A u \in Tids \ Unborn : Ids(u) # {}
  BY <1>1, <1>4 DEF ToldInv, Told, Looping
<1>7. \A u : Ids(u) \subseteq Ids(u)'
  BY RowsStay DEF Next, MainStep, WaitStep, Tracing
<1>8. \A u \in Tids : u \in Unborn' <=> u \in Unborn
  BY <1>1, <1>2 DEF Unborn
<1> QED
  BY <1>2, <1>5, <1>6, <1>7, <1>8 DEF ToldInv, Looping

LEMMA ToldStep ==
  ASSUME Placed, LedgerInv', ToldInv, [Next]_vars, Unhurt'
  PROVE  ToldInv'
<1> SUFFICES ASSUME mpc' \in Tracing PROVE ToldInv'
  BY DEF ToldInv, Tracing
<1> USE DEF Placed, Stopping, Base
<1>1. mpc \in Tracing /\ \A u : Ids(u) \subseteq Ids(u)'
  BY RowsStay
<1>2. CASE mpc \in Looping /\ mpc' \in Looping
  <2> SUFFICES ASSUME NEW u \in Tids \ Unborn' PROVE Told(u)'
    BY <1>2 DEF ToldInv, Looping
  <2>1. CASE u \in Unborn
    BY <2>1, BornCreated DEF Told
  <2>2. CASE u \notin Unborn
    <3>1. CASE Ids(u) # {}
      BY <1>1, <3>1 DEF Told
    <3>2. ASSUME NEW p \in Tids, Spawning(p), tracee[p].child = u, ~ ForkEvent(p) PROVE Told(u)'
      <4>1. tracee'[p] = tracee[p]
        BY <1>2, <3>2, SpawnsStay
      <4> QED
        BY <3>2, <4>1 DEF Told, Created, Spawning
    <3>3. ASSUME NEW p \in Tids, tracee[p].child = u, ForkEvent(p) PROVE Told(u)'
      <4> DEFINE n == Len(dbProcs) + 1
      <4>1. dbProcs' = Append(dbProcs, [tid |-> u, exit |-> "none",
                                        parent |-> procs[Find(procs, p)].identifier])
        BY <1>2, <3>3, ForkRow
      <4>2. n \in DOMAIN dbProcs' /\ dbProcs'[n].tid = u
        BY <4>1 DEF TInv, WellTyped
      <4> QED
        BY <4>2 DEF Told, Ids
    <3> QED
      BY <1>2, <2>2, <3>1, <3>2, <3>3 DEF ToldInv, Told, Created
  <2> QED
    BY <2>1, <2>2
<1>3. CASE mpc \in Looping /\ mpc' \notin Looping
  <2>1. \E t \in Tids : ExitReported(t)
    <3>1. ~ WaitNothing /\ ~ WaitFails /\ ~ Poll /\ ~ Serve /\ ~ Commit /\ ~ Rollback /\ ~ Interrupt
      BY <1>3 DEF WaitNothing, WaitFails, Poll, Serve, Commit, Rollback, Interrupt, Tracing, Looping
    <3>2. ASSUME NEW t \in Tids, WorkerStep(t) \/ TraceeStep(t) PROVE FALSE
      BY <1>3, <3>2 DEF TraceeStep, tracerVars, WorkerStep, StopHandled, StopPeeks, BadPointer, PeekAgain,
         PathRead, InsertFails, Answered, Tracing, Looping
    <3>3. ~ UNCHANGED vars
      BY <1>3 DEF vars, tracerVars
    <3>4. PICK t \in Tids : WaitStep(t)
      BY <3>1, <3>2, <3>3 DEF Next, MainStep, Stops
    <3>5. ~ ExitWithoutWorker(t) /\ ~ Appears(t) /\ ~ Attached(t) /\ ~ SyscallStop(t) /\ ~ ExecEvent(t)
          /\ ~ ForkEvent(t) /\ ~ SignalForwarded(t)
      BY <1>3 DEF ExitWithoutWorker, Appears, Attached, SyscallStop, ExecEvent, ForkEvent,
         SignalForwarded, InsertionFails, Tracing, Looping
    <3> QED
      BY <3>4, <3>5 DEF WaitStep
  <2>2. mpc' = "returned" /\ InUse(procs)' = {}
    BY <1>3, <2>1, AfterExitTyped DEF ExitReported, InsertionFails, Tracing, Looping, LedgerInv
  <2> QED
    BY <2>1, <2>2, ExitTold
<1>4. CASE mpc \notin Looping
  <2>1. mpc \in {"returned", "committed"} /\ \A t \in Tids : tracee[t].st \in {"unborn", "gone"}
    BY <1>1, <1>4 DEF Tracing, ToldInv, Unborn
  <2>2. ~ (\E t \in Tids : TraceeStep(t))
    <3>1. ASSUME NEW t \in Tids, TraceeStep(t) PROVE FALSE
      <4>1. tracee[t].st = "running"
        BY <3>1, TraceeShapes, NoKill DEF TraceeStep, TInv, PipesInv, TraceeMoves
      <4> QED
        BY <2>1, <4>1
    <3> QED
      BY <3>1
  <2>3. UNCHANGED tracee
    <3>1. ASSUME NEW t \in Tids, WorkerStep(t) PROVE UNCHANGED tracee
      BY <3>1, WorkerTouches DEF kernelVars
    <3>2. \A t \in Tids : ~ WaitStep(t)
      BY <1>4 DEF WaitStep, ExitWithoutWorker, ExitReported, Appears, Attached, SyscallStop, ExecEvent,
         ForkEvent, SignalForwarded, Stop, Waited, Looping
    <3>3. ~ WaitNothing /\ ~ WaitFails /\ ~ Poll /\ ~ Serve /\ ~ Rollback /\ ~ Interrupt
      BY <1>4 DEF WaitNothing, WaitFails, Poll, Serve, Rollback, Interrupt, Tracing, Looping
    <3> QED
      BY <2>2, <3>1, <3>2, <3>3 DEF Next, MainStep, Stops, Commit, vars, kernelVars
  <2>4. mpc' \in {"returned", "committed"}
    <3>1. ASSUME NEW t \in Tids, WorkerStep(t) PROVE mpc' \in {mpc, "segv"}
      BY <3>1 DEF WorkerStep, StopHandled, StopPeeks, BadPointer, PeekAgain, PathRead, InsertFails, Answered
    <3>2. \A t \in Tids : ~ WaitStep(t)
      BY <1>4 DEF WaitStep, ExitWithoutWorker, ExitReported, Appears, Attached, SyscallStop, ExecEvent,
         ForkEvent, SignalForwarded, Stop, Waited, Looping
    <3>3. ~ WaitNothing /\ ~ WaitFails /\ ~ Poll /\ ~ Serve /\ ~ Rollback /\ ~ Interrupt
      BY <1>4 DEF WaitNothing, WaitFails, Poll, Serve, Rollback, Interrupt, Tracing, Looping
    <3>4. Commit => mpc' = "committed"
      BY DEF Commit
    <3>5. UNCHANGED vars => mpc' = mpc
      BY DEF vars, tracerVars
    <3> QED
      BY <2>1, <2>2, <3>1, <3>2, <3>3, <3>4, <3>5 DEF Next, MainStep, Stops, Tracing, Looping
  <2> QED
    BY <1>1, <2>1, <2>3, <2>4 DEF ToldInv, Looping, Unborn
<1> QED
  BY <1>2, <1>3, <1>4

LEMMA ToldInit == Init => ToldInv
<1> SUFFICES ASSUME Init PROVE ToldInv
  OBVIOUS
<1>1. mpc = "wait" /\ dbProcs = <<[tid |-> First, parent |-> 0, exit |-> "none"]>>
  BY DEF Init
<1>2. \A t \in Tids : t = First <=> t \notin Unborn
  BY FirstAssumption DEF Init, KernelInit, Unborn, Born, NotBorn
<1>3. 1 \in DOMAIN dbProcs /\ dbProcs[1].tid = First
  BY <1>1
<1> QED
  BY <1>1, <1>2, <1>3 DEF ToldInv, Told, Ids, Looping

LEMMA ToldAlways ==
  Threadless => (Spec => [](/\ Base /\ PipesInv /\ CallOrder /\ LedgerInv
                            /\ (Unhurt => StillStopped /\ CreatorsInv /\ ToldInv)))
<1> SUFFICES ASSUME Threadless
             PROVE  Spec => [](/\ Base /\ PipesInv /\ CallOrder /\ LedgerInv
                               /\ (Unhurt => StillStopped /\ CreatorsInv /\ ToldInv))
  OBVIOUS
<1>1. Init => ToldInv
  BY ToldInit
<1>2. Base /\ PipesInv /\ CallOrder /\ (Unhurt => StillStopped /\ CreatorsInv)
        /\ LedgerInv' /\ (Unhurt => ToldInv) /\ [Next]_vars => (Unhurt => ToldInv)'
  <2> SUFFICES ASSUME Base, PipesInv, CallOrder, Unhurt => StillStopped /\ CreatorsInv, LedgerInv',
                      Unhurt => ToldInv, [Next]_vars, Unhurt'
               PROVE  ToldInv'
    OBVIOUS
  <2>1. Unhurt
    BY CallOrderStep DEF Unhurt
  <2> QED
    BY <2>1, ToldStep DEF Placed, Stopping
<1>3. Spec => [](Base /\ PipesInv /\ CallOrder /\ (Unhurt => StillStopped /\ CreatorsInv))
  BY CreatorsAlways
<1>4. Spec => [](Base /\ LedgerInv)
  BY LedgerAlways, ThreadlessSafe
<1> QED
  BY <1>1, <1>2, <1>3, <1>4, PTL DEF Spec

\* trace() ends, and fork_and_trace() commits, only when every process that was
\* created has its row, in whatever order the first stop of a child and the fork
\* event of its parent were read. In programs without threads that nothing kills
\* from outside: a process killed before its fork event is read takes it along.
THEOREM AllProcessesRecorded == SelfExits => (Spec => []AllProcesses)
<1> SUFFICES ASSUME SelfExits PROVE Spec => []AllProcesses
  OBVIOUS
<1>1. ToldInv => AllProcesses
  BY DEF ToldInv, AllProcesses, Ids, Unborn
<1>2. Spec => [](Unhurt => ToldInv)
  BY ToldAlways, SelfExitsNoThreads, PTL
<1>3. Spec => []ToldInv
  BY <1>2, SelfExitsNoThreads, PTL
<1> QED
  BY <1>1, <1>3, PTL

\* The worker has yet to end the handling of a stop.
Taken(t) == Pointed(t) \/ workers[t].pc \in {"peek", "exited"}

\* A syscall stop that is not handled: the slot is that of before it.
Unhandled(k, taken) == k.ev \in {"sysin", "sysout"} \/ taken
Inside(k, taken) ==
    \/ k.at = "user" /\ Unhandled(k, taken)
    \/ k.at \in {"call", "return"} /\ ~ Unhandled(k, taken)

\* What the slot of a process tells of where it is in its call.
InPhase(s, k, taken) ==
    /\ s.in_syscall <=> Inside(k, taken)
    /\ s.in_syscall \/ taken => s.call = k.call
    /\ s.in_syscall /\ taken => s.ret = k.ret
    /\ taken => k.at \in {"user", "call"}
    /\ s.in_syscall /\ (k.at = "call" \/ k.ev \in {"spawn", "exec"}) =>
          /\ k.call = "fork"   => "FORKING" \in s.flags
          /\ k.call = "execve" => s.execve_info # NoInfo
    /\ "EXECD" \in s.flags => s.in_syscall /\ s.call = "execve" /\ s.execve_info = NoInfo
    /\ s.execve_info # NoInfo => /\ s.in_syscall /\ s.call = "execve"
                                 /\ s.execve_info = s.tid

Followed(t) == mpc \in Looping \/ (mpc \in Live /\ Taken(t))
Fit(t) == /\ \A i \in Found(procs, t) : InPhase(procs[i], tracee[t], Taken(t))
          /\ workers[t].pc = "peek" =>
                 /\ workers[t].slot \in Found(procs, t)
                 /\ workers[t].fun = PeekingHandler(procs[workers[t].slot])
                 /\ "EXECD" \notin procs[workers[t].slot].flags
                 /\ workers[t].fun # "none"
PhaseInv ==
    /\ \A t \in Tids : Followed(t) => Fit(t)
    /\ mpc \in Looping =>
          /\ \A i \in FreeSlots(procs) : procs[i].execve_info = NoInfo
          /\ \A t \in Children : Attachment(t) \/ tracee[t].at = "user"

------------------------------------------------------------------------------

\* Each of the steps that move a tracee or write its slot keep the two in phase.
LEMMA PhaseMoves ==
  ASSUME NEW s, NEW k, NEW m, InPhase(s, k, FALSE), Orderly(k), k.ev = "none", Moved(k, m)
  PROVE  InPhase(s, m, FALSE)
BY DEF InPhase, Inside, Unhandled, Orderly, Moved

\* Slots of processes that report another stop than a system call.
LEMMA PhaseStays ==
  ASSUME NEW s, NEW k, NEW m, NEW taken, InPhase(s, k, taken),
         k.ev \notin {"sysin", "sysout"}, m.ev = "none",
         m.at = k.at, m.call = k.call, m.ret = k.ret,
         NEW r, r.in_syscall = s.in_syscall, r.call = s.call, r.ret = s.ret,
         r.execve_info = s.execve_info, r.tid = s.tid, r.flags = s.flags
  PROVE  InPhase(r, m, taken)
BY DEF InPhase, Inside, Unhandled

\* Its stop is reported, and given to the worker.
LEMMA PhaseTaken ==
  ASSUME NEW s \in Slot(Tids), NEW k \in Tracee, InPhase(s, k, FALSE), Orderly(k),
         k.ev \in {"sysin", "sysout"}
  PROVE  InPhase(WithRegisters(s, k), Reaped(k), TRUE)
<1> DEFINE r == WithRegisters(s, k)
           m == Reaped(k)
<1>1. /\ r.in_syscall = s.in_syscall /\ r.execve_info = s.execve_info
      /\ r.tid = s.tid /\ r.flags = s.flags
      /\ s.in_syscall => r.ret = k.ret /\ r.call = s.call
      /\ ~ s.in_syscall => r.call = k.call
  BY DEF WithRegisters, Slot
<1>2. m.ev = "none" /\ m.at = k.at /\ m.call = k.call /\ m.ret = k.ret
  BY DEF Reaped, Tracee
<1> HIDE DEF r, m
<1>3. InPhase(r, m, TRUE)
  BY <1>1, <1>2 DEF InPhase, Inside, Unhandled, Orderly, Slot
<1> QED
  BY <1>3 DEF r, m

\* The worker ends the handling of a stop.
LEMMA PhaseIgnored ==
  ASSUME NEW s \in Slot(Tids), NEW k, InPhase(s, k, TRUE), k.ev = "none", "EXECD" \in s.flags
  PROVE  ~ GivesUp(ExecdIgnored(s)) /\ InPhase(Toggled(ExecdIgnored(s)), k, FALSE)
<1> DEFINE r == Toggled(ExecdIgnored(s))
<1>1. ExecdIgnored(s) \in Slot(Tids) /\ ExecdIgnored(s).in_syscall = TRUE /\ ExecdIgnored(s).execve_info = NoInfo
      /\ ExecdIgnored(s).flags = s.flags \ {"EXECD"}
  BY SlotEdits DEF ExecdIgnored, Slot
<1>2. ~ GivesUp(ExecdIgnored(s))
  BY <1>1 DEF GivesUp
<1>3. ~ r.in_syscall /\ r.execve_info = NoInfo /\ r.flags = s.flags \ {"EXECD"}
  <2> DEFINE q == ExecdIgnored(s)
  <2> HIDE DEF q
  <2>1. ~ Toggled(q).in_syscall /\ Toggled(q).execve_info = NoInfo /\ Toggled(q).flags = s.flags \ {"EXECD"}
    BY <1>1, <1>2 DEF Toggled, Slot, q
  <2> QED
    BY <2>1 DEF q
<1> HIDE DEF r
<1>4. InPhase(r, k, FALSE)
  BY <1>3 DEF InPhase, Inside, Unhandled
<1> QED
  BY <1>2, <1>4 DEF r

LEMMA PhaseHandled ==
  ASSUME NEW s \in Slot(Tids), NEW k, InPhase(s, k, TRUE), k.ev = "none",
         "EXECD" \notin s.flags, PeekingHandler(s) = "none"
  PROVE  ~ GivesUp(Handled(s)) /\ InPhase(Toggled(Handled(s)), k, FALSE)
<1> DEFINE h == Handled(s)
           r == Toggled(h)
<1>1. /\ h \in Slot(Tids) /\ h.in_syscall = s.in_syscall /\ h.tid = s.tid /\ h.call = s.call
      /\ "EXECD" \notin h.flags
      /\ h.execve_info = IF s.call = "execve" /\ s.in_syscall THEN NoInfo ELSE s.execve_info
      /\ s.call = "fork" /\ ~ s.in_syscall => "FORKING" \in h.flags
  BY SlotEdits DEF Handled, Slot
<1> HIDE DEF h
<1>2. ~ GivesUp(h)
  BY <1>1 DEF InPhase, GivesUp
<1>3. /\ r.in_syscall <=> ~ s.in_syscall
      /\ r.tid = s.tid /\ r.execve_info = h.execve_info /\ r.flags = h.flags
      /\ ~ s.in_syscall => r.call = s.call
  BY <1>1, <1>2 DEF Toggled, Slot
<1>4. ~ s.in_syscall => s.call # "execve" /\ s.execve_info = NoInfo
  BY DEF InPhase, PeekingHandler
<1>5. h.execve_info = NoInfo
  BY <1>1, <1>4 DEF InPhase
<1> HIDE DEF r
<1>6. InPhase(r, k, FALSE)
  BY <1>1, <1>3, <1>4, <1>5 DEF InPhase, Inside, Unhandled
<1> QED
  BY <1>2, <1>6 DEF h, r

\* The handlers of open() and of chdir(): the slot leaves the call.
LEMMA PhaseRead ==
  ASSUME NEW s \in Slot(Tids), NEW k, InPhase(s, k, TRUE), k.ev = "none",
         "EXECD" \notin s.flags, PeekingHandler(s) \in {"open", "chdir"}
  PROVE  ~ GivesUp(s) /\ InPhase(Toggled(s), k, FALSE)
<1> DEFINE r == Toggled(s)
<1>1. s.in_syscall /\ s.call # "execve"
  BY DEF PeekingHandler
<1>2. s.execve_info = NoInfo
  BY <1>1 DEF InPhase
<1>3. ~ r.in_syscall /\ r.execve_info = NoInfo /\ r.flags = s.flags
  BY <1>1, <1>2 DEF Toggled, GivesUp, Slot
<1> HIDE DEF r
<1>4. InPhase(r, k, FALSE)
  BY <1>1, <1>3 DEF InPhase, Inside, Unhandled
<1> QED
  BY <1>2, <1>4 DEF GivesUp, r

\* That of execve(): the slot enters it.
LEMMA PhaseExecve ==
  ASSUME NEW s \in Slot(Tids), NEW k, InPhase(s, k, TRUE), k.ev = "none",
         "EXECD" \notin s.flags, PeekingHandler(s) = "execve", s.tid \in Tids
  PROVE  LET r == [s EXCEPT !.execve_info = s.tid]
         IN  ~ GivesUp(r) /\ InPhase(Toggled(r), k, FALSE)
<1> DEFINE h == [s EXCEPT !.execve_info = s.tid]
           r == Toggled(h)
<1>1. /\ h.in_syscall = s.in_syscall /\ h.tid = s.tid /\ h.call = s.call /\ h.flags = s.flags
      /\ h.execve_info = s.tid /\ ~ s.in_syscall /\ s.call = "execve" /\ h \in Slot(Tids)
  BY SlotEdits DEF PeekingHandler, Slot
<1> HIDE DEF h
<1>2. r.in_syscall /\ r.tid = s.tid /\ r.execve_info = s.tid /\ r.flags = s.flags /\ r.call = s.call
  BY <1>1 DEF Toggled, Slot
<1>3. s.tid # NoInfo
  BY TidsAssumption DEF NoInfo, NoTid
<1> HIDE DEF r
<1>4. InPhase(r, k, FALSE)
  BY <1>1, <1>2, <1>3 DEF InPhase, Inside, Unhandled
<1> QED
  BY <1>1, <1>4 DEF GivesUp, h, r

\* The exec event, and the fork event, are handled.
LEMMA PhaseExec ==
  ASSUME NEW s \in Slot(Tids), NEW k, NEW m, InPhase(s, k, FALSE), Orderly(k),
         k.ev = "exec", k.call = "execve", m.ev = "none",
         m.at = k.at, m.call = k.call, m.ret = k.ret
  PROVE  InPhase([s EXCEPT !.execve_info = NoInfo, !.flags = {"EXECD"}], m, FALSE)
<1> DEFINE r == [s EXCEPT !.execve_info = NoInfo, !.flags = {"EXECD"}]
<1>1. r.in_syscall = s.in_syscall /\ r.call = s.call /\ r.execve_info = NoInfo /\ r.flags = {"EXECD"}
  BY DEF Slot
<1> HIDE DEF r
<1>2. InPhase(r, m, FALSE)
  BY <1>1 DEF InPhase, Inside, Unhandled, Orderly
<1> QED
  BY <1>2 DEF r

LEMMA PhaseFork ==
  ASSUME NEW s \in Slot(Tids), NEW k, NEW m, InPhase(s, k, FALSE), Orderly(k),
         k.ev = "spawn", m.ev = "none", m.at = k.at, m.call = k.call, m.ret = k.ret,
         NEW r, r = [s EXCEPT !.flags = @ \ {"FORKING"}]
  PROVE  InPhase(r, m, FALSE)
<1>1. /\ r.in_syscall = s.in_syscall /\ r.call = s.call /\ r.execve_info = s.execve_info
      /\ r.tid = s.tid /\ ("EXECD" \in r.flags <=> "EXECD" \in s.flags)
  BY DEF Slot
<1> QED
  BY <1>1 DEF InPhase, Inside, Unhandled, Orderly

\* The slot of a process that has not run.
LEMMA PhaseFresh ==
  ASSUME NEW r, NEW m, m.at = "user", m.ev \notin {"sysin", "sysout"},
         ~ r.in_syscall, r.flags = {}, r.execve_info = NoInfo
  PROVE  InPhase(r, m, FALSE)
BY DEF InPhase, Inside, Unhandled

------------------------------------------------------------------------------
(* What the worker of t does to the stop it was given.                       *)

LEMMA TakenStops ==
  ASSUME Stopping, mpc \in Live, NEW t \in Tids, Taken(t)
  PROVE  Busy(t) /\ t \in Listed /\ Waits(tracee[t]) /\ Owns(t)
<1>1. Busy(t)
  BY DEF Taken, Busy, InHand
<1>2. tracee[t].st = "stopped" /\ t \in Listed
  BY <1>1 DEF Stopping, StillStopped
<1>3. Waits(tracee[t]) /\ Owns(t)
  BY <1>1, <1>2 DEF Stopping, PipesInv, Pipes, Parked
<1> QED
  BY <1>1, <1>2, <1>3

\* It leaves the stop in hand, or...
LeavesInHand(t) ==
    /\ UNCHANGED <<procs, groups, dbRows>>
    /\ Taken(t)' <=> Taken(t)
    /\ workers'[t].pc # "exited"
    /\ workers'[t].pc = "peek" =>
          /\ workers'[t].slot \in Found(procs, t)
          /\ workers'[t].fun = PeekingHandler(procs[workers'[t].slot])
          /\ "EXECD" \notin procs[workers'[t].slot].flags
          /\ workers'[t].fun # "none"
\* ...gives up on it, or...
FailsToInsert(t) ==
    /\ UNCHANGED <<procs, dbRows>>
    /\ workers'[t].pc = "exited" /\ "db" \in Faults
    /\ Taken(t) /\ \A u \in Tids : u # t => groups'[u] = groups[u]
\* ...records it, and lets the tracee go on.
Records(t, i) ==
    LET s == procs[i] IN
    IF "EXECD" \notin s.flags /\ PeekingHandler(s) = "open" /\ s.ret = "ok"
    THEN /\ AddRow(s.identifier, DbRow("open", groups[t].wd, t)) /\ UNCHANGED groups
         /\ Registered(s)
    ELSE IF "EXECD" \notin s.flags /\ PeekingHandler(s) = "chdir"
    THEN /\ AddRow(s.identifier, DbRow("wd", groups[t].wd + 1, t))
         /\ groups' = [groups EXCEPT ![t].wd = @ + 1]
         /\ Registered(s)
    ELSE UNCHANGED <<groups, dbRows>>
EndsStop(t) ==
    /\ Taken(t) /\ ~ Taken(t)' /\ workers'[t].pc = "resume"
    /\ \E i \in Found(procs, t) : \E r :
          /\ procs' = [procs EXCEPT ![i] = r]
          /\ SameSlot(r, procs[i]) /\ InPhase(r, tracee[t], FALSE)
          /\ Records(t, i)

LEMMA StopEnds ==
  ASSUME Base, mpc \in Live, NEW t \in Tids, toTracer[t] = <<>>, Len(toWorker[t]) = 1, Taken(t),
         NEW i \in Found(procs, t), NEW s, NEW tid \in Tids \cup {NoTid},
         EndOfStop(t, i, s, tid), ~ GivesUp(s), SameSlot(Toggled(s), procs[i]),
         InPhase(Toggled(s), tracee[t], FALSE), Records(t, i)
  PROVE  EndsStop(t)
<1>1. /\ procs' = [procs EXCEPT ![i] = Toggled(s)]
      /\ workers' = [workers EXCEPT ![t] = [pc |-> "resume", slot |-> i, tid |-> tid, fun |-> "none"]]
      /\ Ask(t, "syscall", tid, TRUE)
  BY DEF EndOfStop
<1>2. toWorker'[t] = <<>>
  BY <1>1, AskedOnce DEF Base
<1>3. workers'[t].pc = "resume"
  BY <1>1 DEF Base, TInv, WellTyped
<1>4. ~ Taken(t)'
  BY <1>2, <1>3 DEF Taken, Pointed
<1> QED
  BY <1>1, <1>3, <1>4 DEF EndsStop

LEMMA HandsOver ==
  ASSUME Stopping, PhaseInv, NEW t \in Tids, Receives(t, "idle") \/ Receives(t, "peek")
  PROVE  /\ toTracer[t] = <<>> /\ Len(toWorker[t]) = 1 /\ Taken(t) /\ Fit(t) /\ t \in Listed
         /\ Waits(tracee[t]) /\ Head(toWorker[t]).word = IF workers[t].pc = "idle" THEN "ptr" ELSE "res"
         /\ workers[t].pc = "peek" => workers[t].tid = t
         /\ LET i == IF workers[t].pc = "idle" THEN Head(toWorker[t]).arg ELSE workers[t].slot
            IN  /\ i \in Found(procs, t) /\ i \in DOMAIN procs /\ procs[i] \in Slot(Tids)
                /\ InPhase(procs[i], tracee[t], TRUE) /\ procs[i].tid = t
                /\ procs[i].tg # NoGroup => procs[i].tg = t /\ Registered(procs[i])
<1> USE DEF Stopping, Base
<1> DEFINE i == IF workers[t].pc = "idle" THEN Head(toWorker[t]).arg ELSE workers[t].slot
<1>1. mpc \in Live /\ workers[t].pc \in {"idle", "peek"}
  BY DEF Receives
<1>2. /\ toTracer[t] = <<>> /\ Len(toWorker[t]) = 1 /\ toWorker[t] # <<>> /\ Busy(t)
      /\ Head(toWorker[t]).word = IF workers[t].pc = "idle" THEN "ptr" ELSE "res"
      /\ i \in DOMAIN procs /\ procs[i] \in Slot(Tids)
      /\ t \in Listed => i \in Found(procs, t)
      /\ t \in Listed /\ workers[t].pc = "peek" => workers[t].tid = t
  BY StopReceived
<1>3. Taken(t)
  BY <1>1, <1>2 DEF Taken, Busy, InHand
<1>4. t \in Listed /\ Waits(tracee[t])
  BY <1>1, <1>3, TakenStops
<1>5. Fit(t)
  BY <1>1, <1>3 DEF PhaseInv, Followed
<1> HIDE DEF i
<1>6. i \in Found(procs, t) /\ procs[i].tid = t /\ procs[i].status # "FREE"
  BY <1>2, <1>4 DEF Found, InUse
<1>7. InPhase(procs[i], tracee[t], TRUE)
  BY <1>3, <1>5, <1>6 DEF Fit
<1>8. procs[i].tg # NoGroup => procs[i].tg = t /\ Registered(procs[i])
  <2>1. SlotInOrder(procs[i]) /\ procs[i].status \in SlotStatus
    BY <1>1, <1>2 DEF PipesInv, SlotsInOrder, Slot
  <2>2. procs[i].status \in {"FREE", "UNKNOWN"} => procs[i].tg = NoGroup
    BY <1>2 DEF TablesInv, NullGroups
  <2> QED
    BY <1>6, <2>1, <2>2 DEF SlotInOrder, Threadless, Registered, SlotStatus
<1> QED
  BY <1>1, <1>2, <1>3, <1>4, <1>5, <1>6, <1>7, <1>8 DEF i

LEMMA StopHandledDoes ==
  ASSUME Stopping, PhaseInv, NEW t \in Tids, StopHandled(t)
  PROVE  EndsStop(t)
<1> DEFINE i == Head(toWorker[t]).arg
           s == procs[i]
<1>1. Receives(t, "idle") /\ workers[t].pc = "idle" /\ mpc \in Live /\ UNCHANGED <<groups, dbRows>>
  BY DEF StopHandled, Receives, db
<1>2. /\ toTracer[t] = <<>> /\ Len(toWorker[t]) = 1 /\ Taken(t) /\ Waits(tracee[t])
      /\ i \in Found(procs, t) /\ s \in Slot(Tids) /\ InPhase(s, tracee[t], TRUE) /\ s.tid = t
  BY <1>1, HandsOver
<1>3. \/ "EXECD" \in s.flags /\ EndOfStop(t, i, ExecdIgnored(s), s.tid)
      \/ "EXECD" \notin s.flags /\ PeekingHandler(s) = "none" /\ EndOfStop(t, i, Handled(s), s.tid)
  BY DEF StopHandled
<1> HIDE DEF i
<1>4. SameSlot(Toggled(ExecdIgnored(s)), s) /\ SameSlot(Toggled(Handled(s)), s)
  BY <1>2, HandlersKeepSlot
<1>5. Records(t, i)
  BY <1>1, <1>3 DEF Records
<1>6. CASE "EXECD" \in s.flags /\ EndOfStop(t, i, ExecdIgnored(s), s.tid)
  <2>1. ~ GivesUp(ExecdIgnored(s)) /\ InPhase(Toggled(ExecdIgnored(s)), tracee[t], FALSE)
    BY <1>2, <1>6, PhaseIgnored DEF Waits
  <2> QED
    BY <1>1, <1>2, <1>4, <1>5, <1>6, <2>1, StopEnds DEF Stopping
<1>7. CASE "EXECD" \notin s.flags /\ PeekingHandler(s) = "none" /\ EndOfStop(t, i, Handled(s), s.tid)
  <2>1. ~ GivesUp(Handled(s)) /\ InPhase(Toggled(Handled(s)), tracee[t], FALSE)
    BY <1>2, <1>7, PhaseHandled DEF Waits
  <2> QED
    BY <1>1, <1>2, <1>4, <1>5, <1>7, <2>1, StopEnds DEF Stopping
<1> QED
  BY <1>3, <1>6, <1>7

LEMMA PeekDoes ==
  ASSUME Stopping, PhaseInv, NEW t \in Tids, StopPeeks(t) \/ PeekAgain(t)
  PROVE  LeavesInHand(t)
<1>0. workers \in [Tids -> Worker]
  BY DEF Stopping, Base, TInv, WellTyped
<1>1. UNCHANGED <<procs, groups, dbRows>> /\ (Receives(t, "idle") \/ Receives(t, "peek"))
  BY DEF StopPeeks, PeekAgain, tables, db
<1>2. Taken(t) /\ Fit(t)
  BY <1>1, HandsOver
<1>3. CASE StopPeeks(t)
  <2> DEFINE i == Head(toWorker[t]).arg
  <2>1. workers[t].pc = "idle" /\ Receives(t, "idle")
    BY <1>3 DEF StopPeeks, Receives
  <2>2. i \in Found(procs, t)
    BY <2>1, HandsOver
  <2>3. /\ workers'[t].pc = "peek" /\ workers'[t].slot = i /\ workers'[t].fun = PeekingHandler(procs[i])
        /\ "EXECD" \notin procs[i].flags /\ PeekingHandler(procs[i]) # "none"
    BY <1>0, <1>3 DEF StopPeeks
  <2> HIDE DEF i
  <2>4. Taken(t)'
    BY <2>3 DEF Taken
  <2> QED
    BY <1>1, <1>2, <2>2, <2>3, <2>4 DEF LeavesInHand
<1>4. CASE PeekAgain(t)
  <2>1. workers' = workers /\ workers[t].pc = "peek"
    BY <1>4 DEF PeekAgain, Receives
  <2>2. Taken(t)'
    BY <2>1 DEF Taken
  <2> QED
    BY <1>1, <1>2, <2>1, <2>2 DEF LeavesInHand, Fit
<1> QED
  BY <1>3, <1>4

LEMMA PathReadDoes ==
  ASSUME Stopping, PhaseInv, NEW t \in Tids, PathRead(t), procs[workers[t].slot].tg # NoGroup
  PROVE  EndsStop(t) /\ mpc' = mpc
<1> DEFINE w == workers[t]
           i == w.slot
           s == procs[i]
           f == [s EXCEPT !.execve_info = t]
<1>1. Receives(t, "peek") /\ w.pc = "peek" /\ mpc \in Live
  BY DEF PathRead, Receives
<1>2. /\ toTracer[t] = <<>> /\ Len(toWorker[t]) = 1 /\ Taken(t) /\ Waits(tracee[t])
      /\ i \in Found(procs, t) /\ s \in Slot(Tids) /\ InPhase(s, tracee[t], TRUE) /\ s.tid = t
      /\ w.tid = t /\ Head(toWorker[t]).word = "res" /\ s.tg = t /\ Registered(s) /\ Fit(t)
  BY <1>1, HandsOver
<1>3. w.fun = PeekingHandler(s) /\ "EXECD" \notin s.flags
  BY <1>1, <1>2 DEF Fit
<1>4. /\ mpc' = mpc
      /\ \/ w.fun = "open" /\ syscall_fileopening(t, s, t)
         \/ w.fun = "chdir" /\ syscall_chdir(t, s, t)
         \/ w.fun = "execve" /\ syscall_execve_in(t, s, t)
  BY <1>2 DEF PathRead
<1>5. /\ SameSlot(Toggled(s), s) /\ SameSlot(Toggled(f), s)
  BY <1>2, HandlersKeepSlot
<1>6. CASE w.fun = "open" /\ syscall_fileopening(t, s, t)
  <2>1. EndOfStop(t, i, s, t)
    BY <1>2, <1>6 DEF syscall_fileopening
  <2>2. Records(t, i)
    BY <1>2, <1>3, <1>6 DEF syscall_fileopening, Records
  <2>3. ~ GivesUp(s) /\ InPhase(Toggled(s), tracee[t], FALSE)
    BY <1>2, <1>3, <1>6, PhaseRead DEF Waits
  <2> HIDE DEF i
  <2> QED
    BY <1>1, <1>2, <1>4, <1>5, <2>1, <2>2, <2>3, StopEnds DEF Stopping
<1>7. CASE w.fun = "chdir" /\ syscall_chdir(t, s, t)
  <2>1. EndOfStop(t, i, s, t)
    BY <1>2, <1>7 DEF syscall_chdir
  <2>2. Records(t, i)
    <3>1. groups \in [Tids -> Groups]
      BY DEF Stopping, Base, TInv, WellTyped
    <3>2. groups' = [groups EXCEPT ![t].wd = @ + 1] /\ AddRow(s.identifier, DbRow("wd", groups[t].wd + 1, t))
      BY <1>2, <1>7, <3>1 DEF syscall_chdir
    <3> QED
      BY <1>2, <1>3, <1>7, <3>2 DEF Records
  <2>3. ~ GivesUp(s) /\ InPhase(Toggled(s), tracee[t], FALSE)
    BY <1>2, <1>3, <1>7, PhaseRead DEF Waits
  <2> HIDE DEF i
  <2> QED
    BY <1>1, <1>2, <1>4, <1>5, <2>1, <2>2, <2>3, StopEnds DEF Stopping
<1>8. CASE w.fun = "execve" /\ syscall_execve_in(t, s, t)
  <2>1. EndOfStop(t, i, f, t)
    BY <1>2, <1>8 DEF syscall_execve_in
  <2>2. Records(t, i)
    BY <1>2, <1>3, <1>8 DEF syscall_execve_in, Records
  <2>3. ~ GivesUp(f) /\ InPhase(Toggled(f), tracee[t], FALSE)
    BY <1>2, <1>3, <1>8, PhaseExecve DEF Waits
  <2> HIDE DEF i, f
  <2> QED
    BY <1>1, <1>2, <1>4, <1>5, <2>1, <2>2, <2>3, StopEnds DEF Stopping
<1> QED
  BY <1>4, <1>6, <1>7, <1>8

LEMMA InsertFailsDoes ==
  ASSUME Stopping, PhaseInv, NEW t \in Tids, InsertFails(t)
  PROVE  FailsToInsert(t)
<1>0. workers \in [Tids -> Worker] /\ groups \in [Tids -> Groups]
  BY DEF Stopping, Base, TInv, WellTyped
<1>1. Receives(t, "peek") /\ workers[t].pc = "peek" /\ procs[workers[t].slot].tg # NoGroup
  BY DEF InsertFails, Receives
<1>2. Taken(t) /\ procs[workers[t].slot].tg = t
  BY <1>1, HandsOver
<1>3. \A u \in Tids : u # t => groups'[u] = groups[u]
  BY <1>0, <1>2 DEF InsertFails
<1>4. workers'[t].pc = "exited"
  BY <1>0 DEF InsertFails
<1> QED
  BY <1>2, <1>3, <1>4 DEF InsertFails, FailsToInsert, db

LEMMA AnsweredDoes ==
  ASSUME Stopping, NEW t \in Tids, Answered(t)
  PROVE  LeavesInHand(t)
<1>0. /\ workers \in [Tids -> Worker] /\ toWorker \in [Tids -> Seq(Word)] /\ WellTyped
      /\ toWorker[t] \in Seq(Word)
  BY DEF Stopping, Base, TInv, WellTyped
<1>1. /\ mpc \in Live /\ workers[t].pc = "resume" /\ toWorker[t] # <<>>
      /\ UNCHANGED <<procs, groups, dbRows>>
      /\ workers' = [workers EXCEPT ![t] = [NoWorker EXCEPT !.pc = "idle"]]
      /\ toWorker' = [toWorker EXCEPT ![t] = Tail(@)]
  BY DEF Answered, Receives, tables, db
<1>2. workers'[t].pc = "idle" /\ toWorker'[t] = Tail(toWorker[t])
  BY <1>0, <1>1 DEF NoWorker
<1>3. PipesOf(workers[t].pc, toWorker[t], toTracer[t])
  BY <1>1 DEF Stopping, PipesInv, Pipes
<1>4. One(toWorker[t], "res") \/ Two(toWorker[t])
  BY <1>1, <1>3 DEF PipesOf
<1>5. Pointed(t) => Two(toWorker[t])
  BY <1>0, <1>4 DEF Pointed, One
<1>6. Two(toWorker[t]) => Pointed(t) /\ Pointed(t)'
  <2> SUFFICES ASSUME Two(toWorker[t]) PROVE Pointed(t) /\ Pointed(t)'
    OBVIOUS
  <2>1. One(toWorker'[t], "ptr")
    BY <1>0, <1>2, PipeContents
  <2>2. toWorker'[t] \in Seq(Word)
    BY <1>0, <1>1, <1>2, HeadTailProperties
  <2>3. DOMAIN toWorker'[t] = {1} /\ toWorker'[t][1].word = "ptr"
    BY <2>1, <2>2 DEF One
  <2>4. 2 \in DOMAIN toWorker[t] /\ toWorker[t][2].word = "ptr"
    BY <1>0 DEF Two
  <2> QED
    BY <2>3, <2>4 DEF Pointed
<1>7. One(toWorker[t], "res") => toWorker'[t] = <<>>
  BY <1>0, <1>2, PipeContents
<1>8. Pointed(t)' => Pointed(t)
  BY <1>4, <1>6, <1>7 DEF Pointed
<1>9. Taken(t)' <=> Taken(t)
  BY <1>1, <1>2, <1>5, <1>6, <1>8 DEF Taken
<1> QED
  BY <1>1, <1>2, <1>9 DEF LeavesInHand

\* All that a worker does.
LEMMA WorkerDoes ==
  ASSUME Stopping, PhaseInv, NEW t \in Tids, WorkerStep(t), mpc' # "segv"
  PROVE  /\ mpc \in Live /\ mpc' = mpc /\ UNCHANGED <<kernelVars, list, exit_status, dbProcs>>
         /\ \A u \in Tids : u # t => workers'[u] = workers[u] /\ (Taken(u)' <=> Taken(u))
         /\ LeavesInHand(t) \/ FailsToInsert(t) \/ EndsStop(t)
<1>1. ~ BadPointer(t)
  BY DEF BadPointer
<1>2. PathRead(t) => procs[workers[t].slot].tg # NoGroup
  BY DEF PathRead
<1>3. mpc' = mpc /\ UNCHANGED <<exit_status, dbProcs>>
  BY <1>1, <1>2, PathReadDoes
  DEF WorkerStep, StopHandled, StopPeeks, PeekAgain, PathRead, InsertFails, Answered, db
<1>4. /\ mpc \in Live /\ UNCHANGED <<kernelVars, list>>
      /\ \A u \in Tids : u # t => /\ workers'[u] = workers[u]
                                  /\ toWorker'[u] = toWorker[u] /\ toTracer'[u] = toTracer[u]
  BY WorkerTouches DEF Stopping, Base
<1>5. \A u \in Tids : u # t => (Taken(u)' <=> Taken(u))
  BY <1>4 DEF Taken, Pointed
<1>6. LeavesInHand(t) \/ FailsToInsert(t) \/ EndsStop(t)
  BY <1>1, <1>2, StopHandledDoes, PeekDoes, PathReadDoes, InsertFailsDoes, AnsweredDoes DEF WorkerStep
<1> QED
  BY <1>3, <1>4, <1>5, <1>6

------------------------------------------------------------------------------
(* The steps keep the slots in phase with the processes.                     *)

\* Nothing that a slot is compared with changes.
Same(u) ==
    /\ tracee'[u] = tracee[u] /\ workers'[u] = workers[u] /\ (Taken(u)' <=> Taken(u))
    /\ Found(procs, u)' = Found(procs, u)
    /\ \A i \in Found(procs, u) : procs'[i] = procs[i]

LEMMA PhaseKept ==
  ASSUME PhaseInv, NEW M \in SUBSET Tids,
         mpc' \in Looping => mpc \in Looping, mpc' \in Live => mpc \in Live,
         \A u \in Tids \ M : Followed(u)' => Same(u),
         \A u \in M : Followed(u)' => Fit(u)',
         mpc' \in Looping => /\ \A i \in FreeSlots(procs') : procs'[i].execve_info = NoInfo
                            /\ \A u \in M : u \in Children' => Attachment(u)' \/ tracee'[u].at = "user"
  PROVE  PhaseInv'
<1>1. ASSUME NEW u \in Tids, Same(u), Followed(u)' PROVE Fit(u)'
  <2>1. Followed(u)
    BY <1>1 DEF Followed, Same
  <2>2. Fit(u)
    BY <2>1 DEF PhaseInv
  <2> QED
    BY <1>1, <2>2 DEF Fit, Same, InPhase, Inside, Unhandled
<1>2. ASSUME NEW u \in Tids, Same(u), Attachment(u) PROVE Attachment(u)'
  <2>1. PICK i \in Found(procs, u) : procs[i].status = "ATTACHED" /\ procs[i].tid = u
    BY <1>2 DEF Attachment, Found, InUse
  <2>2. i \in Found(procs, u)' /\ procs'[i] = procs[i]
    BY <1>2, <2>1 DEF Same
  <2> QED
    BY <2>1, <2>2 DEF Attachment, Found, InUse
<1>3. ASSUME mpc' \in Looping, NEW u \in Tids \ M, u \in Children'
      PROVE  Attachment(u)' \/ tracee'[u].at = "user"
  <2>1. Same(u)
    BY <1>3 DEF Followed
  <2>2. u \in Children
    BY <1>3, <2>1 DEF Same, Children
  <2> QED
    BY <1>2, <1>3, <2>1, <2>2 DEF PhaseInv, Same
<1>4. \A u \in Tids : Followed(u)' => Fit(u)'
  BY <1>1
<1>5. mpc' \in Looping => \A u \in Children' : Attachment(u)' \/ tracee'[u].at = "user"
  BY <1>3 DEF Children
<1> QED
  BY <1>4, <1>5 DEF PhaseInv

LEMMA SameTaken == \A u \in Tids : workers'[u] = workers[u] /\ toWorker'[u] = toWorker[u] => (Taken(u)' <=> Taken(u))
BY DEF Taken, Pointed

\* The slots are those they were.
LEMMA SameSlot2 ==
  ASSUME WellTyped, NEW t \in Tids, NEW i \in DOMAIN procs, procs[i].tid = t, procs[i].status # "FREE",
         UniqueTids, NEW r, r.tid = t, r.status # "FREE", procs' = [procs EXCEPT ![i] = r]
  PROVE  /\ \A u \in Tids : Found(procs, u)' = Found(procs, u)
         /\ Found(procs, t) = {i} /\ procs'[i] = r /\ DOMAIN procs' = DOMAIN procs
         /\ \A u \in Tids : u # t => \A k \in Found(procs, u) : procs'[k] = procs[k]
         /\ \A k \in FreeSlots(procs') : k \in FreeSlots(procs) /\ procs'[k] = procs[k]
<1>1. procs'[i] = r /\ DOMAIN procs' = DOMAIN procs /\ \A k \in DOMAIN procs : k # i => procs'[k] = procs[k]
  BY DEF WellTyped
<1>2. \A k \in DOMAIN procs : procs'[k].tid = procs[k].tid /\ (procs'[k].status # "FREE" <=> procs[k].status # "FREE")
  BY <1>1
<1>3. InUse(procs') = InUse(procs)
  BY <1>1, <1>2 DEF InUse
<1>4. \A u \in Tids : Found(procs, u)' = Found(procs, u)
  BY <1>1, <1>2, <1>3 DEF Found, InUse
<1>5. Found(procs, t) = {i}
  BY DEF Found, UniqueTids, InUse
<1>6. \A u \in Tids : u # t => \A k \in Found(procs, u) : procs'[k] = procs[k]
  BY <1>1 DEF Found, InUse
<1>7. \A k \in FreeSlots(procs') : k \in FreeSlots(procs) /\ procs'[k] = procs[k]
  BY <1>1, <1>3 DEF FreeSlots, InUse
<1> QED
  BY <1>1, <1>4, <1>5, <1>6, <1>7

\* A process whose slot is written.
LEMMA OneSlotPhase ==
  ASSUME Placed, PhaseInv, mpc \in Live, NEW t \in Tids,
         mpc' \in Looping => mpc \in Looping,
         NEW i \in DOMAIN procs, procs[i].tid = t, procs[i].status # "FREE",
         NEW r, r.tid = t, r.status # "FREE", procs' = [procs EXCEPT ![i] = r],
         InPhase(r, tracee'[t], Taken(t)'), workers'[t].pc # "peek",
         \A u \in Tids : u # t => tracee'[u] = tracee[u] /\ workers'[u] = workers[u] /\ (Taken(u)' <=> Taken(u)),
         mpc' \in Looping => r.status = "ATTACHED" \/ tracee'[t].at = "user"
  PROVE  PhaseInv'
<1>1. /\ \A u \in Tids : Found(procs, u)' = Found(procs, u)
      /\ Found(procs, t) = {i} /\ procs'[i] = r /\ DOMAIN procs' = DOMAIN procs
      /\ \A u \in Tids : u # t => \A k \in Found(procs, u) : procs'[k] = procs[k]
      /\ \A k \in FreeSlots(procs') : k \in FreeSlots(procs) /\ procs'[k] = procs[k]
  BY SameSlot2 DEF Placed, Stopping, Base, TInv, TablesInv
<1>2. \A u \in Tids \ {t} : Same(u)
  BY <1>1 DEF Same
<1>3. Fit(t)'
  BY <1>1 DEF Fit
<1>4. mpc' \in Looping => \A k \in FreeSlots(procs') : procs'[k].execve_info = NoInfo
  BY <1>1 DEF PhaseInv
<1>5. r.status = "ATTACHED" => Attachment(t)'
  BY <1>1 DEF Attachment
<1>6. \A u \in {t} : /\ Followed(u)' => Fit(u)'
                     /\ mpc' \in Looping /\ u \in Children' => Attachment(u)' \/ tracee'[u].at = "user"
  BY <1>3, <1>5
<1>7. {t} \in SUBSET Tids
  OBVIOUS
<1> QED
  BY <1>2, <1>4, <1>6, <1>7, PhaseKept

\* The loop is left, with nothing written to the slots of stops in hand.
LEMMA LeftPhase ==
  ASSUME Placed, PhaseInv, mpc \in Live, mpc' \notin Looping, UNCHANGED <<workers, toWorker>>,
         \A u \in Tids : Taken(u) => Same(u)
  PROVE  PhaseInv'
<1>1. \A u \in Tids : Taken(u)' <=> Taken(u)
  BY SameTaken
<1>2. \A u \in Tids \ {} : Followed(u)' => Same(u)
  BY <1>1 DEF Followed
<1>3. {} \in SUBSET Tids
  OBVIOUS
<1> QED
  BY <1>2, <1>3, PhaseKept

LEMMA TraceePhase ==
  ASSUME Placed, PhaseInv, NEW t \in Tids, TraceeStep(t), Unhurt'
  PROVE  PhaseInv'
<1> USE DEF Placed, Stopping, Base, TInv
<1> DEFINE M == {u \in Tids : tracee'[u] # tracee[u]} \cup {t}
<1>1. mpc \in Live /\ KernelStep(t) /\ UNCHANGED <<mpc, procs, workers, toWorker>>
  BY DEF TraceeStep, tracerVars
<1>2. TraceeMoves(t)
  <2>1. KernelInv /\ KernelOrder
    BY DEF PipesInv
  <2>2. ~ Kill(t)
    BY <2>1, NoKill
  <2> QED
    BY <1>1, <2>1, <2>2, TraceeShapes
<1>3. tracee[t].st = "running" /\ tracee[t].ev = "none" /\ Moved(tracee[t], tracee'[t])
  BY <1>2 DEF TraceeMoves
<1>4. \A u \in Tids : Taken(u)' <=> Taken(u)
  BY <1>1, SameTaken
<1>5. \A u \in Tids \ M : Same(u)
  BY <1>1, <1>4 DEF Same
<1>6. ASSUME NEW u \in M
      PROVE  /\ ~ Taken(u)
             /\ u # t => u \in Unborn /\ tracee'[u] = Born(u)
  <2>1. u # t => u \in Unborn /\ tracee'[u] = Born(u)
    BY <1>2 DEF TraceeMoves
  <2>2. tracee[u].st # "stopped"
    BY <1>3, <2>1 DEF Unborn
  <2>3. ~ Taken(u)
    BY <1>1, <2>2, TakenStops DEF Waits
  <2> QED
    BY <2>1, <2>3
<1>7. ASSUME NEW u \in M, Followed(u)' PROVE Fit(u)'
  <2>1. mpc \in Looping /\ ~ Taken(u)' /\ ~ Taken(u) /\ Fit(u) /\ u \in Tids
    BY <1>1, <1>4, <1>6, <1>7 DEF Followed, PhaseInv
  <2>2. workers'[u].pc # "peek"
    BY <2>1 DEF Taken
  <2>3. CASE u = t
    <3>1. \A i \in Found(procs, t) : InPhase(procs[i], tracee[t], FALSE)
      BY <2>1, <2>3 DEF Fit, InPhase, Inside, Unhandled
    <3>2. \A i \in Found(procs, t) : InPhase(procs[i], tracee'[t], FALSE)
      BY <1>3, <3>1, PhaseMoves DEF CallOrder
    <3>3. \A i \in Found(procs, t)' : InPhase(procs'[i], tracee'[t], Taken(t)')
      BY <1>1, <2>1, <2>3, <3>2 DEF Found, InUse, InPhase, Inside, Unhandled
    <3> QED
      BY <2>2, <2>3, <3>3 DEF Fit
  <2>4. CASE u # t
    <3>1. Found(procs, u) = {}
      BY <1>6, <2>1, <2>4 DEF Found, Unborn, PipesInv, Stages
    <3> QED
      BY <1>1, <2>2, <3>1 DEF Fit, Found, InUse
  <2> QED
    BY <2>3, <2>4
<1>8. ASSUME mpc' \in Looping PROVE \A i \in FreeSlots(procs') : procs'[i].execve_info = NoInfo
  BY <1>1, <1>8 DEF PhaseInv
<1>9. ASSUME mpc' \in Looping, NEW u \in M PROVE Attachment(u)' \/ tracee'[u].at = "user"
  <2>1. CASE u = t
    <3>1. t \in Children /\ ~ Newcomer(t)
      BY <1>3 DEF Children, Newcomer
    <3>2. Attachment(t)
      BY <1>1, <1>9, <3>1 DEF CreatorsInv, Place
    <3> QED
      BY <1>1, <2>1, <3>2 DEF Attachment
  <2>2. CASE u # t
    BY <1>6, <2>2 DEF Born, NotBorn
  <2> QED
    BY <2>1, <2>2
<1>10. M \in SUBSET Tids
  OBVIOUS
<1> HIDE DEF M
<1> QED
  BY <1>1, <1>5, <1>7, <1>8, <1>9, <1>10, PhaseKept

LEMMA ServePhase ==
  ASSUME Placed, PhaseInv, Serve
  PROVE  PhaseInv'
<1> USE DEF Placed, Stopping, Base, TInv
<1>1. PICK w \in Tids :
           /\ mpc = "serve" /\ mpc' \in Looping
           /\ workers[w].pc \in {"peek", "resume"}
           /\ toTracer[w] # <<>> /\ toWorker[w] = <<>>
           /\ tracee' = IF workers[w].pc = "resume" /\ tracee[w].st = "stopped"
                        THEN [tracee EXCEPT ![w] = Resumed(@)] ELSE tracee
           /\ UNCHANGED <<procs, workers>>
           /\ \A u \in Tids : Pointed(u)' <=> Pointed(u)
  BY Served
<1>2. mpc \in Looping /\ mpc \in Live
  BY <1>1 DEF Looping, Live
<1>3. \A u \in Tids : Taken(u)' <=> Taken(u)
  BY <1>1 DEF Taken
<1>4. \A u \in Tids : Found(procs, u)' = Found(procs, u)
  BY <1>1 DEF Found, InUse
<1>5. \A u \in Tids : tracee'[u] = tracee[u] => Same(u)
  BY <1>1, <1>3, <1>4 DEF Same
<1>6. \A u \in Tids \ {w} : Same(u)
  BY <1>1, <1>5 DEF KernelInv
<1>7. ASSUME tracee'[w] # tracee[w]
      PROVE  Fit(w)' /\ (w \in Children' => Attachment(w)' \/ tracee'[w].at = "user")
  <2>1. workers[w].pc = "resume" /\ tracee[w].st = "stopped" /\ tracee'[w] = Resumed(tracee[w])
    BY <1>1, <1>7 DEF KernelInv
  <2>2. Busy(w) /\ ~ Taken(w)
    BY <1>1, <2>1 DEF Busy, InHand, Taken, Pointed
  <2>3. tracee[w].ev = "none"
    BY <1>2, <2>1, <2>2 DEF PipesInv, Pipes, Parked, Waits
  <2>4. tracee'[w].ev = "none" /\ tracee'[w].at = tracee[w].at /\ tracee'[w].call = tracee[w].call
        /\ tracee'[w].ret = tracee[w].ret
    BY <2>1 DEF Resumed, KernelInv, Tracee
  <2>5. Fit(w) /\ (w \in Children => Attachment(w) \/ tracee[w].at = "user")
    BY <1>2 DEF PhaseInv, Followed
  <2>6. \A i \in Found(procs, w) : InPhase(procs[i], tracee'[w], FALSE)
    BY <2>2, <2>3, <2>4, <2>5 DEF Fit, InPhase, Inside, Unhandled
  <2>7. w \in Children
    BY <2>1 DEF Children
  <2>8. Fit(w)'
    BY <1>1, <1>3, <1>4, <2>1, <2>2, <2>6 DEF Fit, InPhase, Inside, Unhandled
  <2> QED
    BY <1>1, <2>4, <2>5, <2>7, <2>8 DEF Attachment
<1>8. \A i \in FreeSlots(procs') : procs'[i].execve_info = NoInfo
  BY <1>1, <1>2 DEF PhaseInv
<1> DEFINE M == {u \in Tids : tracee'[u] # tracee[u]}
<1>9. \A u \in Tids \ M : Same(u)
  BY <1>5
<1>10. \A u \in M : Fit(u)' /\ (u \in Children' => Attachment(u)' \/ tracee'[u].at = "user")
  BY <1>6, <1>7 DEF Same
<1>11. M \in SUBSET Tids
  OBVIOUS
<1> HIDE DEF M
<1> QED
  BY <1>2, <1>8, <1>9, <1>10, <1>11, PhaseKept

LEMMA WorkerPhase ==
  ASSUME Placed, PhaseInv, NEW t \in Tids, WorkerStep(t)
  PROVE  PhaseInv'
<1> SUFFICES ASSUME mpc' # "segv" PROVE PhaseInv'
  BY DEF PhaseInv, Followed, Live, Looping
<1>0. Stopping
  BY DEF Placed
<1>1. /\ mpc \in Live /\ mpc' = mpc /\ UNCHANGED tracee
      /\ \A u \in Tids : u # t => workers'[u] = workers[u] /\ (Taken(u)' <=> Taken(u))
      /\ LeavesInHand(t) \/ FailsToInsert(t) \/ EndsStop(t)
  BY <1>0, WorkerDoes DEF kernelVars
<1>2. CASE LeavesInHand(t) \/ FailsToInsert(t)
  <2>1. UNCHANGED procs /\ (Taken(t)' <=> Taken(t))
    BY <1>2 DEF LeavesInHand, FailsToInsert, Taken
  <2>2. \A u \in Tids : Found(procs, u)' = Found(procs, u)
    BY <2>1 DEF Found, InUse
  <2>3. \A u \in Tids \ {t} : Same(u)
    BY <1>1, <2>1, <2>2 DEF Same
  <2>4. ASSUME Followed(t)' PROVE Fit(t)'
    <3>1. Fit(t)
      BY <1>1, <2>1, <2>4 DEF Followed, PhaseInv
    <3>2. \A i \in Found(procs, t)' : InPhase(procs'[i], tracee'[t], Taken(t)')
      BY <1>1, <2>1, <2>2, <3>1 DEF Fit, InPhase, Inside, Unhandled
    <3>3. workers'[t].pc = "peek" => LeavesInHand(t)
      BY <1>2 DEF FailsToInsert
    <3> QED
      BY <2>1, <2>2, <3>2, <3>3 DEF Fit, LeavesInHand
  <2>5. mpc' \in Looping => \A i \in FreeSlots(procs') : procs'[i].execve_info = NoInfo
    BY <1>1, <2>1 DEF PhaseInv
  <2>6. mpc' \in Looping => (t \in Children' => Attachment(t)' \/ tracee'[t].at = "user")
    BY <1>1, <2>1 DEF PhaseInv, Attachment, Children
  <2>7. \A u \in {t} : /\ Followed(u)' => Fit(u)'
                       /\ mpc' \in Looping /\ u \in Children' => Attachment(u)' \/ tracee'[u].at = "user"
    BY <2>4, <2>6
  <2>8. {t} \in SUBSET Tids
    OBVIOUS
  <2> QED
    BY <1>1, <2>3, <2>5, <2>7, <2>8, PhaseKept
<1>3. CASE EndsStop(t)
  <2>1. PICK i, r :
            /\ i \in Found(procs, t)
            /\ procs' = [procs EXCEPT ![i] = r] /\ SameSlot(r, procs[i]) /\ InPhase(r, tracee[t], FALSE)
    BY <1>3 DEF EndsStop
  <2>2. ~ Taken(t)' /\ workers'[t].pc = "resume"
    BY <1>3 DEF EndsStop
  <2>3. i \in DOMAIN procs /\ procs[i].tid = t /\ procs[i].status # "FREE" /\ r.tid = t
        /\ r.status = procs[i].status
    BY <2>1 DEF Found, InUse, SameSlot
  <2>4. InPhase(r, tracee'[t], Taken(t)')
    BY <1>1, <2>1, <2>2 DEF InPhase, Inside, Unhandled
  <2>5. t \in Listed /\ tracee[t].st = "stopped"
    BY <1>0, <1>1, <1>3, TakenStops DEF EndsStop, Waits
  <2>6. mpc' \in Looping => r.status = "ATTACHED" \/ tracee'[t].at = "user"
    <3> SUFFICES ASSUME mpc \in Looping PROVE r.status = "ATTACHED"
      BY <1>1
    <3>1. PICK j \in DOMAIN procs : procs[j].status = "ATTACHED" /\ procs[j].tid = t
      BY <2>5 DEF Placed, Stopping, PipesInv, Stages
    <3>2. j = i
      BY <2>3, <3>1 DEF Placed, Stopping, Base, TablesInv, UniqueTids, InUse
    <3> QED
      BY <2>3, <3>1, <3>2
  <2> QED
    BY <1>1, <2>1, <2>2, <2>3, <2>4, <2>6, OneSlotPhase
<1> QED
  BY <1>1, <1>2, <1>3

LEMMA ReapedStays ==
  ASSUME NEW k \in Tracee
  PROVE  /\ Reaped(k).ev = "none" /\ Reaped(k).at = k.at /\ Reaped(k).call = k.call /\ Reaped(k).ret = k.ret
         /\ Resumed(k).at = k.at /\ Resumed(k).call = k.call /\ Resumed(k).ret = k.ret
         /\ Resumed(k).ev \in {k.ev, "none"}
         /\ LET m == Resumed(Reaped(k)) IN
            m.ev = "none" /\ m.at = k.at /\ m.call = k.call /\ m.ret = k.ret
<1> DEFINE r == Reaped(k)
<1>1. r \in Tracee /\ r.ev = "none" /\ r.at = k.at /\ r.call = k.call /\ r.ret = k.ret
  BY DEF Reaped, Tracee, States, Events
<1>2. \A q \in Tracee : /\ Resumed(q).at = q.at /\ Resumed(q).call = q.call /\ Resumed(q).ret = q.ret
                        /\ Resumed(q).ev \in {q.ev, "none"}
  BY DEF Resumed, Tracee
<1> HIDE DEF r
<1>3. Resumed(r).ev = "none" /\ Resumed(r).at = k.at /\ Resumed(r).call = k.call /\ Resumed(r).ret = k.ret
  BY <1>1, <1>2
<1> QED
  BY <1>1, <1>2, <1>3 DEF r

\* A process whose stop is reported is in nobody's hands.
LEMMA Reporter ==
  ASSUME Placed, PhaseInv, NEW t \in Tids, Waited(t)
  PROVE  /\ mpc \in Looping /\ mpc \in Live /\ tracee[t].ev # "none" /\ t \in Children
         /\ tracee[t] \in Tracee /\ Orderly(tracee[t]) /\ Ordered(t, tracee[t])
         /\ ~ Taken(t) /\ workers[t].pc # "peek"
         /\ \A i \in Found(procs, t) : InPhase(procs[i], tracee[t], FALSE)
<1> USE DEF Placed, Stopping, Base, TInv
<1>1. mpc \in Looping /\ mpc \in Live /\ tracee[t].ev # "none" /\ t \in Children
  BY DEF Waited, Reportable, Looping, Live
<1>2. tracee[t] \in Tracee /\ Orderly(tracee[t]) /\ Ordered(t, tracee[t])
  BY DEF KernelInv, CallOrder, PipesInv, KernelOrder
<1>3. ~ Taken(t)
  BY <1>1, TakenStops DEF Waits
<1>4. Fit(t)
  BY <1>1 DEF PhaseInv, Followed
<1>5. \A i \in Found(procs, t) : InPhase(procs[i], tracee[t], FALSE)
  BY <1>3, <1>4 DEF Fit, InPhase, Inside, Unhandled
<1> QED
  BY <1>1, <1>2, <1>3, <1>5 DEF Taken

\* A stop that is answered at once.
LEMMA AnswerPhase ==
  ASSUME Placed, PhaseInv, NEW t \in Tids, Waited(t), mpc' \in Looping,
         UNCHANGED <<workers, toWorker>>,
         NEW i \in Found(procs, t), NEW r, r.tid = t, r.status # "FREE", procs' = [procs EXCEPT ![i] = r],
         tracee' = [tracee EXCEPT ![t] = Resumed(Reaped(@))],
         InPhase(r, tracee'[t], FALSE), r.status = "ATTACHED" \/ tracee[t].at = "user"
  PROVE  PhaseInv'
<1>1. /\ mpc \in Looping /\ mpc \in Live /\ ~ Taken(t) /\ workers[t].pc # "peek" /\ tracee[t] \in Tracee
  BY Reporter
<1>2. \A u \in Tids : Taken(u)' <=> Taken(u)
  BY SameTaken
<1>3. InPhase(r, tracee'[t], Taken(t)')
  BY <1>1, <1>2 DEF InPhase, Inside, Unhandled
<1>4. i \in DOMAIN procs /\ procs[i].tid = t /\ procs[i].status # "FREE"
  BY DEF Found, InUse
<1>5. tracee'[t] = Resumed(Reaped(tracee[t])) /\ \A u \in Tids : u # t => tracee'[u] = tracee[u]
  BY DEF Placed, Stopping, Base, TInv, KernelInv
<1>6. tracee'[t].at = tracee[t].at
  BY <1>1, <1>5, ReapedStays
<1> QED
  BY <1>1, <1>2, <1>3, <1>4, <1>5, <1>6, OneSlotPhase

LEMMA AttachedPhase ==
  ASSUME Placed, PhaseInv, NEW t \in Tids, Attached(t)
  PROVE  PhaseInv'
<1> USE DEF Placed, Stopping, Base, TInv
<1> DEFINE i == Find(procs, t)
           r == [procs[i] EXCEPT !.status = "ATTACHED"]
           m == Resumed(Reaped(tracee[t]))
<1>1. /\ Waited(t) /\ Event(t) # "exit" /\ Found(procs, t) # {} /\ mpc' = mpc
      /\ UNCHANGED <<workers, toWorker>>
      /\ tracee' = [tracee EXCEPT ![t] = Resumed(Reaped(@))]
      /\ procs[i].status = "ALLOCATED" /\ procs' = [procs EXCEPT ![i] = r]
  BY DEF Attached, pipes
<1>2. i \in Found(procs, t) /\ i \in DOMAIN procs /\ procs[i] \in Slot(Tids) /\ procs[i].tid = t
      /\ i \in InUse(procs)
  BY <1>1, FindFinds DEF WellTyped, Found
<1>3. /\ mpc \in Looping /\ tracee[t].ev # "none" /\ t \in Children /\ tracee[t] \in Tracee
      /\ InPhase(procs[i], tracee[t], FALSE)
  BY <1>1, <1>2, Reporter
<1>4. ~ Attachment(t)
  BY <1>1, <1>2 DEF Attachment, TablesInv, UniqueTids, InUse
<1>5. tracee[t].at = "user" /\ tracee[t].ev = "sigstop"
  BY <1>3, <1>4 DEF PhaseInv, CreatorsInv, Place, Newcomer
<1>6. m.ev = "none" /\ m.at = tracee[t].at /\ m.call = tracee[t].call /\ m.ret = tracee[t].ret
  BY <1>3, ReapedStays
<1>7. /\ r.in_syscall = procs[i].in_syscall /\ r.call = procs[i].call /\ r.ret = procs[i].ret
      /\ r.execve_info = procs[i].execve_info /\ r.tid = procs[i].tid /\ r.flags = procs[i].flags
      /\ r.status = "ATTACHED"
  BY <1>2 DEF Slot
<1>8. tracee'[t] = m
  BY <1>1 DEF KernelInv
<1> HIDE DEF r, m, i
<1>9. InPhase(r, m, FALSE)
  BY <1>3, <1>5, <1>6, <1>7, PhaseStays
<1> QED
  BY <1>1, <1>2, <1>3, <1>7, <1>8, <1>9, AnswerPhase

LEMMA SignalPhase ==
  ASSUME Placed, PhaseInv, NEW t \in Tids, SignalForwarded(t)
  PROVE  PhaseInv'
<1> USE DEF Placed, Stopping, Base, TInv
<1> DEFINE i == Find(procs, t)
           m == Resumed(Reaped(tracee[t]))
<1>1. /\ Stop(t, {"signal", "sigstop"}) /\ UNCHANGED <<procs, workers, toWorker>>
      /\ mpc' = "poll"
      /\ tracee' = [tracee EXCEPT ![t] = Resumed(Reaped(@))]
  BY DEF SignalForwarded, tables, pipes
<1>2. /\ Waited(t) /\ tracee[t].ev \in {"signal", "sigstop"} /\ i \in DOMAIN procs /\ i \in InUse(procs)
      /\ procs[i].status = "ATTACHED" /\ procs[i].tid = t
  BY <1>1, StopSlot DEF Stop, Event
<1>3. i \in Found(procs, t)
  BY <1>2 DEF Found
<1>4. InPhase(procs[i], tracee[t], FALSE) /\ tracee[t] \in Tracee
  BY <1>2, <1>3, Reporter
<1>5. m.ev = "none" /\ m.at = tracee[t].at /\ m.call = tracee[t].call /\ m.ret = tracee[t].ret
  BY <1>4, ReapedStays
<1>6. tracee'[t] = m
  BY <1>1 DEF KernelInv
<1> HIDE DEF m, i
<1>7. InPhase(procs[i], m, FALSE)
  BY <1>2, <1>4, <1>5, PhaseStays
<1>8. procs' = [procs EXCEPT ![i] = procs[i]]
  BY <1>1 DEF WellTyped
<1>9. mpc' \in Looping
  BY <1>1 DEF Looping
<1> QED
  BY <1>1, <1>2, <1>3, <1>6, <1>7, <1>8, <1>9, AnswerPhase

\* The process has its execve_info when its exec event is reported.
LEMMA ExecDoes ==
  ASSUME Placed, PhaseInv, NEW t \in Tids, ExecEvent(t)
  PROVE  LET i == Find(procs, t) IN
         /\ Waited(t) /\ tracee[t].ev = "exec" /\ tracee[t].call = "execve"
         /\ i \in Found(procs, t) /\ procs[i] \in Slot(Tids)
         /\ procs[i].status = "ATTACHED" /\ procs[i].tg = t /\ procs[i].execve_info = t
         /\ procs[i].in_syscall /\ InPhase(procs[i], tracee[t], FALSE)
         /\ procs' = [procs EXCEPT ![i] = [@ EXCEPT !.execve_info = NoInfo, !.flags = {"EXECD"}]]
         /\ UNCHANGED <<cwd, did, left, groups, list, exit_status, workers, toWorker, toTracer, dbProcs>>
         /\ \/ /\ mpc' = "poll" /\ tracee' = [tracee EXCEPT ![t] = Resumed(Reaped(@))]
               /\ AddRow(procs[i].identifier, DbRow("exec", groups[t].wd, t))
            \/ /\ mpc' = "failed" /\ "db" \in Faults /\ tracee' = [tracee EXCEPT ![t] = Reaped(@)]
               /\ UNCHANGED dbRows
<1> USE DEF Placed, Stopping, Base, TInv
<1> DEFINE i == Find(procs, t)
           own == procs[i].execve_info # NoInfo
           r == [[procs[i] EXCEPT !.execve_info = NoInfo] EXCEPT !.flags = {"EXECD"}]
           q == [procs[i] EXCEPT !.execve_info = NoInfo, !.flags = {"EXECD"}]
<1>1. Stop(t, {"exec"})
  BY DEF ExecEvent
<1>2. /\ Waited(t) /\ tracee[t].ev = "exec"
      /\ i \in DOMAIN procs /\ i \in InUse(procs) /\ procs[i] \in Slot(Tids) /\ procs[i].tid = t
      /\ procs[i].status = "ATTACHED"
  BY <1>1, StopSlot DEF Stop, Event
<1>3. i \in Found(procs, t)
  BY <1>2 DEF Found
<1>4. /\ InPhase(procs[i], tracee[t], FALSE) /\ Orderly(tracee[t]) /\ Ordered(t, tracee[t])
      /\ mpc \in Looping /\ mpc \in Live
  BY <1>2, <1>3, Reporter
<1>5. tracee[t].at = "return" /\ tracee[t].call = "execve"
  BY <1>2, <1>4 DEF Orderly, Ordered
<1>6. procs[i].in_syscall /\ own /\ procs[i].execve_info = t
  BY <1>2, <1>4, <1>5 DEF InPhase, Inside, Unhandled
<1>7. procs[i].tg = t
  BY <1>2, <1>4 DEF PipesInv, SlotsInOrder, SlotInOrder, Threadless
<1>8. procs' = [[procs EXCEPT ![i].execve_info = NoInfo] EXCEPT ![i].flags = {"EXECD"}]
  BY <1>6 DEF ExecEvent
<1>9. procs' = [procs EXCEPT ![i] = r]
  BY <1>2, <1>8 DEF WellTyped
<1>10. r = q
  BY <1>2 DEF Slot
<1>11. procs'[i].tg = t
  <2>1. r.tg = procs[i].tg
    BY <1>2 DEF Slot
  <2> HIDE DEF r
  <2> QED
    BY <1>2, <1>7, <1>9, <2>1 DEF WellTyped
<1>12. t # NoGroup
  BY TidsAssumption DEF NoGroup, NoTid
<1>13. UNCHANGED <<cwd, did, left, groups, list, exit_status, workers, toWorker, toTracer, dbProcs>>
  BY <1>6 DEF ExecEvent, pool, pipes
<1>14. \/ /\ mpc' = "poll" /\ tracee' = [tracee EXCEPT ![t] = Resumed(Reaped(@))]
          /\ AddRow(procs[i].identifier, DbRow("exec", groups[t].wd, t))
       \/ /\ mpc' = "failed" /\ "db" \in Faults /\ tracee' = [tracee EXCEPT ![t] = Reaped(@)]
          /\ UNCHANGED dbRows
  BY <1>6, <1>7, <1>11, <1>12 DEF ExecEvent, InsertionFails
<1> HIDE DEF r, q
<1>15. procs' = [procs EXCEPT ![i] = q]
  BY <1>9, <1>10
<1> QED
  BY <1>2, <1>3, <1>4, <1>5, <1>6, <1>7, <1>13, <1>14, <1>15 DEF q

LEMMA ExecPhase ==
  ASSUME Placed, PhaseInv, NEW t \in Tids, ExecEvent(t)
  PROVE  PhaseInv'
<1> DEFINE i == Find(procs, t)
           r == [procs[i] EXCEPT !.execve_info = NoInfo, !.flags = {"EXECD"}]
<1>1. /\ Waited(t) /\ tracee[t].ev = "exec" /\ tracee[t].call = "execve"
      /\ i \in Found(procs, t) /\ procs[i] \in Slot(Tids)
      /\ procs[i].status = "ATTACHED"
      /\ InPhase(procs[i], tracee[t], FALSE)
      /\ procs' = [procs EXCEPT ![i] = r]
      /\ UNCHANGED <<workers, toWorker>>
      /\ tracee' = [tracee EXCEPT ![t] = Resumed(Reaped(@))] \/ tracee' = [tracee EXCEPT ![t] = Reaped(@)]
  BY ExecDoes
<1>2. /\ mpc \in Looping /\ mpc \in Live /\ ~ Taken(t) /\ workers[t].pc # "peek" /\ tracee[t] \in Tracee
      /\ Orderly(tracee[t])
  BY <1>1, Reporter
<1>3. r.tid = t /\ r.status = "ATTACHED" /\ i \in DOMAIN procs /\ procs[i].tid = t
  BY <1>1 DEF Found, InUse, Slot
<1>4. /\ tracee'[t] \in {Reaped(tracee[t]), Resumed(Reaped(tracee[t]))}
      /\ \A u \in Tids : u # t => tracee'[u] = tracee[u]
  BY <1>1 DEF Placed, Stopping, Base, TInv, KernelInv
<1>5. tracee'[t].ev = "none" /\ tracee'[t].at = tracee[t].at /\ tracee'[t].call = tracee[t].call
      /\ tracee'[t].ret = tracee[t].ret
  BY <1>2, <1>4, ReapedStays
<1> HIDE DEF i
<1>6. InPhase(r, tracee'[t], FALSE)
  BY <1>1, <1>2, <1>5, PhaseExec
<1>7. \A u \in Tids : Taken(u)' <=> Taken(u)
  BY <1>1, SameTaken
<1> HIDE DEF r
<1>8. InPhase(r, tracee'[t], Taken(t)')
  BY <1>2, <1>6, <1>7 DEF InPhase, Inside, Unhandled
<1> QED
  BY <1>1, <1>2, <1>3, <1>4, <1>7, <1>8, OneSlotPhase

LEMMA SyscallStopDoes ==
  ASSUME Placed, PhaseInv, NEW t \in Tids, SyscallStop(t)
  PROVE  LET i == Find(procs, t) IN
         /\ Waited(t) /\ tracee[t].ev \in {"sysin", "sysout"}
         /\ i \in Found(procs, t) /\ procs[i] \in Slot(Tids) /\ procs[i].status = "ATTACHED"
         /\ procs' = [procs EXCEPT ![i] = WithRegisters(@, tracee[t])]
         /\ tracee' = [tracee EXCEPT ![t] = Reaped(@)] /\ mpc' = "poll"
         /\ UNCHANGED <<cwd, did, left, groups, exit_status, dbProcs, dbRows>>
         /\ Taken(t)' /\ workers'[t].pc \in {"idle", "resume"}
         /\ \A u \in Tids : u # t => workers'[u] = workers[u] /\ (Taken(u)' <=> Taken(u))
<1> USE DEF Placed, Stopping, Base
<1> DEFINE i == Find(procs, t)
           p == Pointer(i)
<1>0. /\ Stop(t, {"sysin", "sysout"})
      /\ procs' = [procs EXCEPT ![i] = WithRegisters(@, tracee[t])]
      /\ toWorker' = [toWorker EXCEPT ![t] = Append(@, Pointer(i))]
      /\ tracee' = [tracee EXCEPT ![t] = Reaped(@)]
      /\ mpc' = "poll" /\ UNCHANGED <<cwd, did, left, groups, exit_status, dbProcs, dbRows, toTracer>>
  BY DEF SyscallStop, db
<1>1. /\ Waited(t) /\ Event(t) # "exit" /\ tracee[t].ev \in {"sysin", "sysout"}
      /\ i \in DOMAIN procs /\ i \in InUse(procs) /\ i \in Nat /\ procs[i] \in Slot(Tids)
      /\ procs[i].status = "ATTACHED" /\ procs[i].tid = t
  BY <1>0, StopSlot DEF Stop, Event
<1>2. mpc = "wait" /\ mpc \in Live /\ Stages /\ ~ Busy(t)
  BY <1>1, StopTaken DEF Looping, Live
<1>3. /\ workers'[t].pc = IF workers[t].pc = "none" THEN "idle" ELSE workers[t].pc
      /\ \A u \in Tids : u # t => workers'[u] = workers[u]
  <2>1. t \in Listed <=> FindTid(list, t) # 0
    BY FindTidFinds, TidsAssumption DEF VInv, NoTid, Listed
  <2>2. workers[t].pc = "none" => t \notin Listed
    BY <1>2 DEF Stages
  <2>3. t \notin Listed => workers[t].pc = "none"
    <3>1. tracee[t].st # "gone"
      BY <1>1, StopTaken
    <3> QED
      BY <1>2, <3>1 DEF Stages
  <2>4. workers \in [Tids -> Worker]
    BY DEF TInv, WellTyped
  <2> QED
    BY <2>1, <2>2, <2>3, <2>4 DEF SyscallStop, NoWorker
<1>4. workers'[t].pc \in {"idle", "resume"}
  BY <1>0, <1>1, <1>2, <1>3, PointerSent
<1>5. Taken(t)'
  <2>1. toWorker[t] \in Seq(Word) /\ toWorker'[t] = Append(toWorker[t], p)
    BY <1>0 DEF TInv, WellTyped
  <2>2. p.word = "ptr"
    BY DEF Pointer
  <2> HIDE DEF p
  <2>3. Len(toWorker[t]) + 1 \in DOMAIN toWorker'[t] /\ toWorker'[t][Len(toWorker[t]) + 1] = p
    BY <2>1
  <2> QED
    BY <2>2, <2>3 DEF Taken, Pointed
<1>6. \A u \in Tids : u # t => workers'[u] = workers[u] /\ toWorker'[u] = toWorker[u]
  BY <1>0, <1>3 DEF TInv, WellTyped
<1>7. \A u \in Tids : u # t => workers'[u] = workers[u] /\ (Taken(u)' <=> Taken(u))
  BY <1>6 DEF Taken, Pointed
<1>8. i \in Found(procs, t)
  BY <1>1 DEF Found
<1> QED
  BY <1>0, <1>1, <1>4, <1>5, <1>7, <1>8

LEMMA SyscallStopPhase ==
  ASSUME Placed, PhaseInv, NEW t \in Tids, SyscallStop(t)
  PROVE  PhaseInv'
<1> DEFINE i == Find(procs, t)
           r == WithRegisters(procs[i], tracee[t])
<1>1. /\ Waited(t) /\ tracee[t].ev \in {"sysin", "sysout"}
      /\ i \in Found(procs, t) /\ procs[i] \in Slot(Tids) /\ procs[i].status = "ATTACHED"
      /\ procs' = [procs EXCEPT ![i] = r]
      /\ tracee' = [tracee EXCEPT ![t] = Reaped(@)]
      /\ Taken(t)' /\ workers'[t].pc \in {"idle", "resume"}
      /\ \A u \in Tids : u # t => workers'[u] = workers[u] /\ (Taken(u)' <=> Taken(u))
  BY SyscallStopDoes
<1>2. /\ mpc \in Looping /\ mpc \in Live /\ tracee[t] \in Tracee /\ Orderly(tracee[t])
      /\ InPhase(procs[i], tracee[t], FALSE)
  BY <1>1, Reporter
<1>3. i \in DOMAIN procs /\ procs[i].tid = t
  BY <1>1 DEF Found, InUse
<1> HIDE DEF i
<1>4. r.tid = t /\ r.status = "ATTACHED"
  BY <1>1, <1>3 DEF WithRegisters, Slot
<1>5. tracee'[t] = Reaped(tracee[t]) /\ \A u \in Tids : u # t => tracee'[u] = tracee[u]
  BY <1>1 DEF Placed, Stopping, Base, TInv, KernelInv
<1>6. InPhase(r, tracee'[t], TRUE)
  BY <1>1, <1>2, <1>5, PhaseTaken
<1> HIDE DEF r
<1>7. InPhase(r, tracee'[t], Taken(t)')
  BY <1>1, <1>6 DEF InPhase, Inside, Unhandled
<1> QED
  BY <1>1, <1>2, <1>3, <1>4, <1>5, <1>7, OneSlotPhase

LEMMA AppearsPhase ==
  ASSUME Placed, PhaseInv, NEW t \in Tids, Appears(t)
  PROVE  PhaseInv'
<1> USE DEF Placed, Stopping, Base
<1> DEFINE ps == WithRoom(procs)
           j == EmptySlot(procs)
           s == [ps[j] EXCEPT !.status = "UNKNOWN", !.flags = {}, !.tid = t, !.tg = NoGroup,
                              !.in_syscall = FALSE]
<1>0. /\ Waited(t) /\ Found(procs, t) = {}
      /\ procs' = [ps EXCEPT ![j] = s]
      /\ tracee' = [tracee EXCEPT ![t] = Reaped(@)]
      /\ UNCHANGED <<mpc, workers, toWorker>>
  BY DEF Appears, pipes
<1>1. /\ mpc \in Looping /\ ~ Taken(t) /\ workers[t].pc # "peek" /\ tracee[t] \in Tracee /\ t \in Children
  BY <1>0, Reporter
<1>2. /\ ps \in Seq(Slot(Tids)) /\ DOMAIN procs \subseteq DOMAIN ps
      /\ j \in DOMAIN ps /\ ps[j].status = "FREE"
      /\ \A i \in DOMAIN procs : ps[i] = procs[i]
      /\ \A i \in DOMAIN ps : i \notin DOMAIN procs => ps[i] = FreeSlot
  BY RoomInTable DEF TInv
<1>3. /\ s.status = "UNKNOWN" /\ s.execve_info = ps[j].execve_info /\ s.tid = t
      /\ ~ s.in_syscall /\ s.flags = {}
  <2>1. ps[j] \in Slot(Tids)
    BY <1>2
  <2> HIDE DEF ps, j
  <2> QED
    BY <2>1 DEF Slot
<1> HIDE DEF ps, j, s
<1>4. DOMAIN procs' = DOMAIN ps /\ procs'[j] = s /\ \A i \in DOMAIN ps : i # j => procs'[i] = ps[i]
  BY <1>0, <1>2
<1>5. FreeSlot.status = "FREE" /\ FreeSlot.execve_info = NoInfo
  BY DEF FreeSlot
<1>6. \A k \in DOMAIN ps : ps[k].status = "FREE" => ps[k].execve_info = NoInfo
  BY <1>1, <1>2, <1>5 DEF PhaseInv, FreeSlots, InUse
<1>7. \A k \in FreeSlots(procs') : procs'[k].execve_info = NoInfo
  BY <1>3, <1>4, <1>6 DEF FreeSlots, InUse
<1>8. \A k \in InUse(procs) : k \in DOMAIN ps /\ k # j /\ procs'[k] = procs[k]
  BY <1>2, <1>4 DEF InUse
<1>9. \A k \in InUse(procs') : k # j => k \in InUse(procs) /\ procs'[k] = procs[k]
  BY <1>2, <1>4, <1>5 DEF InUse
<1>10. \A u \in Tids : u # t => Found(procs, u)' = Found(procs, u) /\ tracee'[u] = tracee[u]
  <2>1. \A u \in Tids : u # t => Found(procs', u) = Found(procs, u)
    BY <1>3, <1>4, <1>8, <1>9 DEF Found, InUse
  <2> QED
    BY <1>0, <2>1 DEF Found, InUse, TInv, KernelInv
<1>11. \A u \in Tids : Taken(u)' <=> Taken(u)
  BY <1>0, SameTaken
<1>12. \A u \in Tids \ {t} : Same(u)
  BY <1>0, <1>8, <1>10, <1>11 DEF Same, Found
<1>13. tracee'[t] = Reaped(tracee[t])
  BY <1>0 DEF TInv, KernelInv
<1>14. tracee'[t].at = "user" /\ tracee'[t].ev = "none"
  <2>1. ~ Attachment(t)
    BY <1>0 DEF Attachment, Found, InUse
  <2> QED
    BY <1>1, <1>13, <2>1, ReapedStays DEF PhaseInv
<1>15. \A k \in Found(procs, t)' : k = j
  BY <1>0, <1>9 DEF Found, InUse
<1>16. InPhase(s, tracee'[t], FALSE)
  BY <1>2, <1>3, <1>6, <1>14, PhaseFresh
<1>17. Fit(t)'
  BY <1>0, <1>1, <1>4, <1>11, <1>15, <1>16 DEF Fit, InPhase, Inside, Unhandled
<1>18. Followed(t)' => Fit(t)'
  BY <1>17
<1>19. t \in Children' => Attachment(t)' \/ tracee'[t].at = "user"
  BY <1>14
<1>20. {t} \in SUBSET Tids
  OBVIOUS
<1> QED
  BY <1>0, <1>1, <1>7, <1>12, <1>18, <1>19, <1>20, PhaseKept

\* The flag of the fork is there when its event is reported.
LEMMA ForkDoes ==
  ASSUME Placed, PhaseInv, NEW t \in Tids, ForkEvent(t)
  PROVE  LET i == Find(procs, t)
             c == tracee[t].child
         IN  /\ Waited(t) /\ Event(t) = "spawn" /\ c \in Tids /\ tracee[t].call = "fork"
             /\ i \in Found(procs, t) /\ procs[i] \in Slot(Tids) /\ procs[i].status = "ATTACHED"
             /\ procs[i].tg = t /\ InPhase(procs[i], tracee[t], FALSE) /\ procs[i].call = "fork"
             /\ ~ UNCHANGED <<tracee, tables>>
             /\ groups' = NewThreadGroup(groups, c, groups[t].wd)
             /\ UNCHANGED <<cwd, did, left, list, exit_status, workers, toWorker, toTracer>>
             /\ mpc' = "poll" \/ (mpc' = "failed" /\ "db" \in Faults /\ UNCHANGED <<dbProcs, dbRows>>)
<1> USE DEF Placed, Stopping, Base, TInv
<1> DEFINE i == Find(procs, t)
           c == tracee[t].child
<1>1. Stop(t, {"spawn"}) /\ UNCHANGED <<cwd, did, left, list, exit_status, workers, toWorker, toTracer>>
  BY DEF ForkEvent, pool, pipes
<1>2. /\ Waited(t) /\ tracee[t].ev = "spawn"
      /\ i \in DOMAIN procs /\ i \in InUse(procs) /\ procs[i] \in Slot(Tids) /\ procs[i].tid = t
      /\ procs[i].status = "ATTACHED"
  BY <1>1, StopSlot DEF Stop, Event
<1>3. i \in Found(procs, t)
  BY <1>2 DEF Found
<1>4. /\ InPhase(procs[i], tracee[t], FALSE) /\ Orderly(tracee[t]) /\ mpc \in Live
  BY <1>2, <1>3, Reporter
<1>5. tracee[t].at = "return" /\ tracee[t].call = "fork"
  BY <1>2, <1>4 DEF Orderly
<1>6. procs[i].in_syscall /\ procs[i].call = "fork" /\ "FORKING" \in procs[i].flags
  BY <1>2, <1>4, <1>5 DEF InPhase, Inside, Unhandled
<1>7. procs[i].tg = t
  BY <1>2, <1>4 DEF PipesInv, SlotsInOrder, SlotInOrder, Threadless
<1>8. t # NoGroup
  BY TidsAssumption DEF NoGroup, NoTid
<1>9. /\ c \in Tids /\ \A k \in InUse(procs) : procs[k].tid = c => procs[k].status = "UNKNOWN"
  BY <1>2, ForkChild DEF Event, Children
<1>10. Found(procs, c) # {} => procs[Find(procs, c)].status = "UNKNOWN"
  BY <1>9, FindFinds DEF WellTyped, Found
<1> HIDE DEF i, c
<1>11. ~ UNCHANGED <<tracee, tables>> /\ groups' = NewThreadGroup(groups, c, groups[t].wd)
       /\ (mpc' = "poll" \/ (mpc' = "failed" /\ "db" \in Faults /\ UNCHANGED <<dbProcs, dbRows>>))
  <2>1. /\ groups' = NewThreadGroup(groups, c, groups[t].wd)
        /\ (mpc' = "poll" \/ (mpc' = "failed" /\ "db" \in Faults /\ UNCHANGED <<dbProcs, dbRows>>))
        /\ \/ tracee' = [tracee EXCEPT ![t] = Resumed(Reaped(@)),
                                      ![c] = IF Found(procs, c) # {} THEN Resumed(@) ELSE @]
           \/ tracee' = [tracee EXCEPT ![t] = Reaped(@),
                                      ![c] = IF Found(procs, c) # {} THEN Resumed(@) ELSE @]
    BY <1>6, <1>7, <1>8, <1>10 DEF ForkEvent, InsertionFails, db, i, c
  <2>2. c # t
    BY <1>2, <1>9 DEF InUse
  <2>3. tracee'[t] = Resumed(Reaped(tracee[t])) \/ tracee'[t] = Reaped(tracee[t])
    BY <2>1, <2>2, <1>9 DEF KernelInv
  <2>4. tracee'[t].ev = "none"
    BY <2>3, ReapedStays DEF KernelInv
  <2> QED
    BY <1>2, <2>1, <2>4
<1> QED
  BY <1>1, <1>2, <1>3, <1>4, <1>5, <1>6, <1>7, <1>9, <1>11 DEF Event, i, c

\* What is left of the slots by a fork event of t, of whose child c is the slot j.
LEMMA ForkSlots ==
  ASSUME Placed, PhaseInv, NEW t \in Tids, ForkEvent(t),
         NEW c \in Tids, NEW j \in DOMAIN procs', ForkTakes(t, c, j), ForkFills(t, c, j)
  PROVE  LET i == Find(procs, t) IN
         /\ \A u \in Tids : u # t /\ u # c => Same(u)
         /\ Found(procs, t) = {i} /\ Found(procs, t)' = {i} /\ Found(procs, c)' = {j} /\ i # j
         /\ ~ Taken(t) /\ ~ Taken(c) /\ ~ Taken(t)' /\ ~ Taken(c)'
         /\ \A u \in Tids : workers'[u] = workers[u]
         /\ tracee'[t] \in {Reaped(tracee[t]), Resumed(Reaped(tracee[t]))}
         /\ tracee'[c].at = "user" /\ tracee'[c].ev \in {"none", "sigstop"}
         /\ procs'[j].execve_info = NoInfo
<1> USE DEF Placed, Stopping, Base, TInv
<1> DEFINE i == Find(procs, t)
<1>1. /\ Waited(t) /\ Event(t) = "spawn" /\ c = tracee[t].child /\ c # t
      /\ i \in Found(procs, t) /\ i \in DOMAIN procs /\ i \in InUse(procs) /\ procs[i] \in Slot(Tids)
      /\ procs[i].status = "ATTACHED" /\ procs[i].tid = t
      /\ UNCHANGED <<workers, toWorker>>
  BY ForkDoes DEF ForkTakes, Found, InUse
<1>2. /\ mpc \in Looping /\ mpc \in Live /\ ~ Taken(t) /\ tracee[t] \in Tracee
  BY <1>1, Reporter
<1>3. /\ c \in Children /\ Newcomer(c) /\ ~ Attachment(c)
      /\ \A k \in InUse(procs) : procs[k].tid = c => procs[k].status = "UNKNOWN"
  BY <1>1, ForkChild
<1>4. ~ Taken(c)
  <2>1. c \notin Listed
    BY <1>2, <1>3 DEF Attachment, PipesInv, Stages
  <2> QED
    BY <1>2, <2>1, TakenStops
<1>5. \A u \in Tids : (Taken(u)' <=> Taken(u)) /\ workers'[u] = workers[u]
  BY <1>1, SameTaken
<1>6. /\ i # j /\ DOMAIN procs \subseteq DOMAIN procs'
      /\ procs'[i] = [procs[i] EXCEPT !.flags = @ \ {"FORKING"}]
      /\ \A k \in DOMAIN procs \ {j} : k # i => procs'[k] = procs[k]
      /\ \A k \in DOMAIN procs' \ {j} : k \notin DOMAIN procs => procs'[k] = FreeSlot
      /\ procs'[j].tid = c /\ procs'[j].status \in {"ATTACHED", "ALLOCATED"}
      /\ j \in DOMAIN procs => procs[j].status \in {"FREE", "UNKNOWN"}
      /\ j \in InUse(procs) => procs[j].tid = c
      /\ Found(procs, c) \subseteq {j}
  BY DEF ForkTakes, ForkFills
<1> HIDE DEF i
<1>7. procs'[i].tid = t /\ procs'[i].status = "ATTACHED" /\ FreeSlot.status = "FREE"
  BY <1>1, <1>6 DEF Slot, FreeSlot
<1>8. \A k \in InUse(procs') : k # j => /\ k \in InUse(procs)
                                        /\ procs'[k] = procs[k] \/ k = i
  BY <1>1, <1>6, <1>7 DEF InUse
<1>9. \A k \in InUse(procs) : k # j => k \in InUse(procs')
  BY <1>6, <1>7 DEF InUse
<1>10. j \in InUse(procs')
  BY <1>6 DEF InUse
<1>11. \A k \in InUse(procs) : procs[k].tid = t => k = i
  BY <1>1 DEF TablesInv, UniqueTids
<1>12. Found(procs, t) = {i}
  BY <1>1, <1>11 DEF Found
<1>13. Found(procs', t) = {i}
  <2>1. \A k \in Found(procs', t) : k = i
    BY <1>1, <1>6, <1>8, <1>11 DEF Found
  <2>2. i \in Found(procs', t)
    BY <1>1, <1>6, <1>7, <1>9 DEF Found
  <2> QED
    BY <2>1, <2>2
<1>14. Found(procs', c) = {j}
  <2>1. \A k \in Found(procs', c) : k = j
    <3> SUFFICES ASSUME NEW k \in Found(procs', c), k # j PROVE FALSE
      OBVIOUS
    <3>1. k \in InUse(procs) /\ procs'[k].tid = c /\ (procs'[k] = procs[k] \/ k = i)
      BY <1>8 DEF Found
    <3>2. k # i /\ k \in Found(procs, c)
      BY <1>1, <1>7, <3>1 DEF Found
    <3> QED
      BY <1>6, <3>2
  <2>2. j \in Found(procs', c)
    BY <1>6, <1>10 DEF Found
  <2> QED
    BY <2>1, <2>2
<1>15. ASSUME NEW u \in Tids, u # t, u # c PROVE Same(u)
  <2>1. \A k \in Found(procs, u) : k # j /\ k # i /\ k \in DOMAIN procs
    BY <1>1, <1>6, <1>15 DEF Found, InUse
  <2>2. \A k \in Found(procs, u) : procs'[k] = procs[k]
    BY <1>6, <2>1
  <2>3. \A k \in Found(procs, u) : k \in Found(procs', u)
    BY <1>9, <2>1, <2>2 DEF Found
  <2>4. \A k \in Found(procs', u) : k \in Found(procs, u)
    <3> SUFFICES ASSUME NEW k \in Found(procs', u) PROVE k \in Found(procs, u)
      OBVIOUS
    <3>1. k \in InUse(procs') /\ procs'[k].tid = u
      BY DEF Found
    <3>2. k # j /\ k # i
      BY <1>6, <1>7, <1>15, <3>1
    <3> QED
      BY <1>8, <3>1, <3>2 DEF Found
  <2>5. Found(procs, u)' = Found(procs, u)
    <3>1. Found(procs', u) = Found(procs, u)
      BY <2>3, <2>4
    <3> QED
      BY <3>1 DEF Found, InUse
  <2>6. tracee'[u] = tracee[u]
    BY <1>15 DEF ForkTakes
  <2> QED
    BY <1>5, <2>2, <2>5, <2>6 DEF Same
<1>16. tracee'[c].at = "user" /\ tracee'[c].ev \in {"none", "sigstop"}
  <2>1. tracee[c].at = "user" /\ tracee[c].ev \in {"none", "sigstop"} /\ tracee[c] \in Tracee
    BY <1>2, <1>3 DEF PhaseInv, Newcomer, KernelInv
  <2>2. tracee'[c] = tracee[c] \/ tracee'[c] = Resumed(tracee[c])
    BY DEF ForkTakes
  <2> QED
    BY <2>1, <2>2, ReapedStays
<1>17. procs'[j].execve_info = NoInfo
  <2>1. CASE j \in InUse(procs)
    <3>1. j \in Found(procs, c) /\ j \in DOMAIN procs
      BY <1>6, <2>1 DEF Found, InUse
    <3>2. InPhase(procs[j], tracee[c], Taken(c))
      BY <1>2, <3>1 DEF PhaseInv, Followed, Fit
    <3>3. tracee[c].at = "user" /\ tracee[c].ev \in {"none", "sigstop"}
      BY <1>2, <1>3 DEF PhaseInv, Newcomer
    <3>4. procs[j].execve_info = NoInfo
      BY <1>4, <3>2, <3>3 DEF InPhase, Inside, Unhandled
    <3> QED
      BY <3>1, <3>4, ForkSlot
  <2>2. CASE j \notin InUse(procs)
    <3>1. j \in DOMAIN procs => procs[j].execve_info = NoInfo
      BY <1>2, <2>2 DEF PhaseInv, FreeSlots
    <3> QED
      BY <3>1, ForkSlot
  <2> QED
    BY <2>1, <2>2
<1>18. Found(procs, t)' = {i} /\ Found(procs, c)' = {j}
  BY <1>13, <1>14 DEF Found, InUse
<1>19. tracee'[t] \in {Reaped(tracee[t]), Resumed(Reaped(tracee[t]))}
  BY DEF ForkTakes
<1> QED
  BY <1>2, <1>4, <1>5, <1>6, <1>12, <1>15, <1>16, <1>17, <1>18, <1>19 DEF i

LEMMA ForkPhase ==
  ASSUME Placed, PhaseInv, NEW t \in Tids, ForkEvent(t)
  PROVE  PhaseInv'
<1> USE DEF Placed, Stopping, Base, TInv
<1> DEFINE i == Find(procs, t)
           r == [procs[i] EXCEPT !.flags = @ \ {"FORKING"}]
<1>1. /\ Waited(t) /\ Event(t) = "spawn" /\ i \in Found(procs, t) /\ i \in DOMAIN procs
      /\ procs[i] \in Slot(Tids) /\ procs[i].status = "ATTACHED"
      /\ InPhase(procs[i], tracee[t], FALSE) /\ ~ UNCHANGED <<tracee, tables>>
  BY ForkDoes DEF Found, InUse
<1>2. PICK c \in Tids, j \in DOMAIN procs' : ForkTakes(t, c, j) /\ ForkFills(t, c, j)
  BY <1>1, ForkWrites
<1>3. /\ \A u \in Tids : u # t /\ u # c => Same(u)
      /\ Found(procs, t)' = {i} /\ Found(procs, c)' = {j} /\ i # j
      /\ ~ Taken(t)' /\ ~ Taken(c)'
      /\ tracee'[t] \in {Reaped(tracee[t]), Resumed(Reaped(tracee[t]))}
      /\ tracee'[c].at = "user" /\ tracee'[c].ev \in {"none", "sigstop"}
      /\ procs'[j].execve_info = NoInfo
  BY <1>2, ForkSlots
<1>4. procs'[i] = r
  BY <1>2 DEF ForkFills
<1>5. mpc \in Looping /\ mpc \in Live /\ tracee[t] \in Tracee /\ Orderly(tracee[t])
  BY <1>1, Reporter
<1>6. tracee'[t].ev = "none" /\ tracee'[t].at = tracee[t].at /\ tracee'[t].call = tracee[t].call
      /\ tracee'[t].ret = tracee[t].ret
  BY <1>3, <1>5, ReapedStays
<1>7. r.status = "ATTACHED" /\ r.tid = t
  BY <1>1 DEF Slot, Found
<1> HIDE DEF i
<1>8. InPhase(r, tracee'[t], FALSE)
  BY <1>1, <1>5, <1>6, PhaseFork DEF Event
<1> HIDE DEF r
<1>9. Fit(t)'
  BY <1>3, <1>4, <1>8 DEF Fit, Taken, InPhase, Inside, Unhandled
<1>10. InPhase(procs'[j], tracee'[c], FALSE)
  <2>1. procs'[j].flags = {} /\ procs'[j].in_syscall = FALSE
    BY <1>2, ForkSlot
  <2> QED
    BY <1>3, <2>1, PhaseFresh
<1>11. Fit(c)'
  BY <1>3, <1>10 DEF Fit, Taken, InPhase, Inside, Unhandled
<1>12. \A k \in FreeSlots(procs') : procs'[k].execve_info = NoInfo
  <2> SUFFICES ASSUME NEW k \in FreeSlots(procs') PROVE procs'[k].execve_info = NoInfo
    OBVIOUS
  <2>1. k # i /\ k # j /\ k \in DOMAIN procs' /\ procs'[k].status = "FREE"
    BY <1>2, <1>4, <1>7 DEF FreeSlots, InUse, ForkTakes
  <2>2. CASE k \in DOMAIN procs
    <3>1. procs'[k] = procs[k]
      BY <1>2, <2>1, <2>2 DEF ForkFills, i
    <3> QED
      BY <1>5, <2>1, <2>2, <3>1 DEF PhaseInv, FreeSlots, InUse
  <2>3. CASE k \notin DOMAIN procs
    BY <1>2, <2>1, <2>3 DEF ForkFills, FreeSlot
  <2> QED
    BY <2>2, <2>3
<1>13. Attachment(t)'
  BY <1>1, <1>2, <1>4, <1>7 DEF Attachment, ForkTakes
<1>14. \A u \in {t, c} : Followed(u)' => Fit(u)'
  BY <1>9, <1>11
<1>15. \A u \in {t, c} : u \in Children' => Attachment(u)' \/ tracee'[u].at = "user"
  BY <1>3, <1>13
<1>16. {t, c} \in SUBSET Tids
  OBVIOUS
<1>17. mpc' \in {"poll", "failed"}
  BY ForkDoes
<1> QED
  BY <1>3, <1>5, <1>12, <1>14, <1>15, <1>16, PhaseKept

\* The exit of a process that has a worker: it has a slot too.
LEMMA ExitDoes ==
  ASSUME Placed, PhaseInv, NEW t \in Tids, ExitReported(t)
  PROVE  LET i == Find(procs, t)
             r == [procs[i] EXCEPT !.status = "FREE", !.tg = NoGroup, !.execve_info = NoInfo]
         IN
         /\ Waited(t) /\ tracee[t].ev = "exit" /\ tracee[t].st = "dead"
         /\ tracee' = [tracee EXCEPT ![t] = Reaped(@)]
         /\ tracee'[t].st = "gone" /\ tracee'[t].ret = tracee[t].ret
         /\ UNCHANGED <<cwd, did, left, workers, toWorker, toTracer, dbRows>>
         /\ i \in Found(procs, t) /\ Found(procs, t) = {i} /\ procs[i] \in Slot(Tids)
         /\ procs[i].status = "ATTACHED" /\ procs[i].tg = t
         /\ \/ /\ procs' = [procs EXCEPT ![i] = r] /\ procs' = FreeProcess(procs, i)
               /\ groups' = DropThreadGroup(groups, t)
               /\ AddExit(procs[i].identifier, tracee[t].ret)
               /\ mpc' = AfterExit(procs')
            \/ mpc' = "failed" /\ "db" \in Faults /\ UNCHANGED <<procs, groups, dbProcs>>
<1> USE DEF Placed, Stopping, Base, TInv
<1> DEFINE i == Find(procs, t)
<1>1. /\ Waited(t) /\ tracee[t].ev = "exit" /\ FindTid(list, t) # 0
      /\ tracee' = [tracee EXCEPT ![t] = Reaped(@)]
      /\ UNCHANGED <<cwd, did, left, workers, toWorker, toTracer, dbRows>>
  BY DEF ExitReported, Event, pipes
<1>2. mpc \in Looping /\ mpc \in Live /\ tracee[t] \in Tracee /\ Ordered(t, tracee[t])
  BY <1>1, Reporter
<1>3. tracee[t].st = "dead"
  BY <1>1, <1>2 DEF Ordered
<1>4. tracee'[t].st = "gone" /\ tracee'[t].ret = tracee[t].ret
  <2>1. tracee'[t] = Reaped(tracee[t])
    BY <1>1 DEF KernelInv
  <2> QED
    BY <1>2, <1>3, <2>1 DEF Reaped, Tracee
<1>5. t \in Listed
  <2>1. list' = vector_delete(list, FindTid(list, t))
    BY DEF ExitReported
  <2> QED
    BY <1>1, <2>1, ListedAfterExit
<1>6. PICK k \in DOMAIN procs : procs[k].status = "ATTACHED" /\ procs[k].tid = t
  BY <1>2, <1>5 DEF PipesInv, Stages
<1>7. k \in Found(procs, t) /\ Found(procs, t) = {k}
  BY <1>6 DEF Found, InUse, TablesInv, UniqueTids
<1>8. i \in Found(procs, t)
  BY <1>7, FindFinds DEF WellTyped, Found
<1>9. i = k
  BY <1>7, <1>8
<1>10. procs[i] \in Slot(Tids) /\ SlotInOrder(procs[i])
  BY <1>2, <1>6, <1>9 DEF WellTyped, PipesInv, SlotsInOrder
<1>11. procs[i].tg = t /\ NoGroup \notin Tids
  BY <1>6, <1>9, <1>10, TidsAssumption DEF SlotInOrder, Threadless, NoGroup, NoTid
<1>12. \/ /\ procs' = FreeProcess(procs, i)
          /\ groups' = DropThreadGroup(groups, t)
          /\ AddExit(procs[i].identifier, tracee[t].ret)
          /\ mpc' = AfterExit(procs')
       \/ mpc' = "failed" /\ "db" \in Faults /\ UNCHANGED <<procs, groups, dbProcs>>
  BY <1>7, <1>11 DEF ExitReported, InsertionFails, tables
<1>13. procs' = FreeProcess(procs, i) =>
          procs' = [procs EXCEPT ![i] = [procs[i] EXCEPT !.status = "FREE", !.tg = NoGroup, !.execve_info = NoInfo]]
  BY <1>6, <1>9 DEF FreeProcess
<1> QED
  BY <1>1, <1>3, <1>4, <1>6, <1>7, <1>9, <1>10, <1>11, <1>12, <1>13

\* What it leaves to the others.
LEMMA ExitSlots ==
  ASSUME Placed, PhaseInv, NEW t \in Tids, ExitReported(t)
  PROVE  /\ \A u \in Tids : u # t => Same(u)
         /\ ~ Taken(t) /\ ~ Taken(t)' /\ workers'[t].pc # "peek"
         /\ DOMAIN procs' = DOMAIN procs
         /\ procs' # procs => /\ \A k \in FreeSlots(procs') : k \in FreeSlots(procs) \/ procs'[k].execve_info = NoInfo
                              /\ \A k \in FreeSlots(procs) : procs'[k] = procs[k]
<1> USE DEF Placed, Stopping, Base, TInv
<1> DEFINE i == Find(procs, t)
           r == [procs[i] EXCEPT !.status = "FREE", !.tg = NoGroup, !.execve_info = NoInfo]
<1>1. /\ Waited(t) /\ tracee' = [tracee EXCEPT ![t] = Reaped(@)]
      /\ UNCHANGED <<workers, toWorker>>
      /\ Found(procs, t) = {i} /\ procs[i] \in Slot(Tids) /\ procs[i].tid = t /\ i \in DOMAIN procs
      /\ i \in InUse(procs)
      /\ procs' = procs \/ procs' = [procs EXCEPT ![i] = r]
  BY ExitDoes DEF Found, InUse
<1>2. ~ Taken(t) /\ workers[t].pc # "peek"
  BY <1>1, Reporter
<1>3. \A u \in Tids : Taken(u)' <=> Taken(u)
  BY <1>1, SameTaken
<1>4. r.status = "FREE" /\ r.execve_info = NoInfo
  BY <1>1 DEF Slot
<1> HIDE DEF i, r
<1>5. DOMAIN procs' = DOMAIN procs /\ \A k \in DOMAIN procs : k # i => procs'[k] = procs[k]
  BY <1>1
<1>6. procs' # procs => procs'[i] = r
  BY <1>1 DEF WellTyped
<1>7. ASSUME NEW u \in Tids, u # t PROVE Same(u)
  <2>1. tracee'[u] = tracee[u] /\ workers'[u] = workers[u]
    BY <1>1, <1>7 DEF KernelInv
  <2>2. \A k \in Found(procs, u) : k \in DOMAIN procs /\ k # i
    BY <1>1, <1>7 DEF Found, InUse
  <2>3. \A k \in Found(procs, u) : k \in Found(procs', u)
    BY <1>5, <2>2 DEF Found, InUse
  <2>4. ASSUME NEW k \in Found(procs', u) PROVE k \in Found(procs, u)
    <3>1. k \in DOMAIN procs /\ procs'[k].tid = u /\ procs'[k].status # "FREE"
      BY <1>5 DEF Found, InUse
    <3>2. k # i
      BY <1>1, <1>4, <1>6, <1>7, <3>1
    <3> QED
      BY <1>5, <3>1, <3>2 DEF Found, InUse
  <2>5. Found(procs', u) = Found(procs, u)
    BY <2>3, <2>4
  <2>6. Found(procs, u)' = Found(procs', u)
    BY DEF Found, InUse
  <2> QED
    BY <1>3, <1>5, <2>1, <2>2, <2>5, <2>6 DEF Same
<1>8. \A k \in FreeSlots(procs) : k # i
  BY <1>1 DEF FreeSlots
<1>9. ASSUME NEW k \in FreeSlots(procs'), procs' # procs
      PROVE  k \in FreeSlots(procs) \/ procs'[k].execve_info = NoInfo
  <2>1. CASE k = i
    BY <1>4, <1>6, <1>9, <2>1
  <2>2. CASE k # i
    BY <1>5, <2>2 DEF FreeSlots, InUse
  <2> QED
    BY <2>1, <2>2
<1>10. \A k \in FreeSlots(procs) : procs'[k] = procs[k]
  BY <1>5, <1>8 DEF FreeSlots
<1> QED
  BY <1>1, <1>2, <1>3, <1>5, <1>7, <1>9, <1>10

LEMMA ExitPhase ==
  ASSUME Placed, PhaseInv, NEW t \in Tids, ExitReported(t)
  PROVE  PhaseInv'
<1>1. /\ mpc = "wait" /\ tracee'[t].st = "gone" /\ (mpc' = "failed" \/ procs' # procs)
  <2>1. CASE procs' = procs
    <3> DEFINE i == Find(procs, t)
               r == [procs[i] EXCEPT !.status = "FREE", !.tg = NoGroup, !.execve_info = NoInfo]
    <3>1. /\ Waited(t) /\ tracee'[t].st = "gone" /\ procs[i] \in Slot(Tids) /\ procs[i].status = "ATTACHED"
          /\ i \in DOMAIN procs /\ (mpc' = "failed" \/ procs' = [procs EXCEPT ![i] = r])
      BY ExitDoes DEF Found, InUse
    <3>2. r.status = "FREE"
      BY <3>1 DEF Slot
    <3> HIDE DEF i, r
    <3> QED
      BY <2>1, <3>1, <3>2 DEF Waited, Placed, Stopping, Base, TInv, WellTyped
  <2>2. CASE procs' # procs
    BY <2>2, ExitDoes DEF Waited
  <2> QED
    BY <2>1, <2>2
<1>2. mpc \in Looping /\ mpc \in Live
  BY <1>1 DEF Looping, Live
<1>3. \A u \in Tids \ {t} : Followed(u)' => Same(u)
  BY ExitSlots
<1>4. ASSUME NEW u \in {t}, Followed(u)' PROVE Fit(u)'
  <2>1. ~ Taken(t)' /\ workers'[t].pc # "peek"
    BY ExitSlots
  <2>2. procs' # procs
    BY <1>1, <1>4, <2>1 DEF Followed, Looping
  <2>3. Found(procs, t)' = {}
    <3> DEFINE i == Find(procs, t)
               r == [procs[i] EXCEPT !.status = "FREE", !.tg = NoGroup, !.execve_info = NoInfo]
    <3>1. /\ Found(procs, t) = {i} /\ procs[i] \in Slot(Tids) /\ i \in DOMAIN procs
          /\ procs' = [procs EXCEPT ![i] = r]
      BY <2>2, ExitDoes DEF Found, InUse
    <3>2. r.status = "FREE"
      BY <3>1 DEF Slot
    <3> HIDE DEF i, r
    <3> QED
      BY <3>1, <3>2 DEF Found, InUse, Placed, Stopping, Base, TInv, WellTyped
  <2> QED
    BY <2>1, <2>3 DEF Fit
<1>5. ASSUME mpc' \in Looping, NEW k \in FreeSlots(procs') PROVE procs'[k].execve_info = NoInfo
  <2>1. procs' # procs
    BY <1>1, <1>5 DEF Looping
  <2> QED
    BY <1>2, <1>5, <2>1, ExitSlots DEF PhaseInv
<1>6. \A u \in {t} : u \notin Children'
  BY <1>1 DEF Children
<1>7. {t} \in SUBSET Tids
  OBVIOUS
<1>8. \A u \in {t} : Followed(u)' => Fit(u)'
  BY <1>4
<1> QED
  BY <1>2, <1>3, <1>5, <1>6, <1>7, <1>8, PhaseKept

\* Nothing is written that is looked at.
LEMMA StandsPhase ==
  ASSUME PhaseInv, UNCHANGED <<tracee, procs, workers, toWorker>>,
         mpc' \in Looping => mpc \in Looping, mpc' \in Live => mpc \in Live
  PROVE  PhaseInv'
<1>1. \A u \in Tids \ {} : Same(u)
  BY SameTaken DEF Same, Found, InUse
<1>2. mpc' \in Looping => \A k \in FreeSlots(procs') : procs'[k].execve_info = NoInfo
  BY DEF PhaseInv
<1>3. {} \in SUBSET Tids
  OBVIOUS
<1> QED
  BY <1>1, <1>2, <1>3, PhaseKept

LEMMA PhaseInit == Init => PhaseInv
<1> SUFFICES ASSUME Init PROVE PhaseInv
  OBVIOUS
<1>1. /\ \A t \in Tids : workers[t].pc = "none" /\ toWorker[t] = <<>>
      /\ DOMAIN procs = 1 .. InitSlots
      /\ \A i \in 1 .. InitSlots : i # 1 => procs[i] = FreeSlot
      /\ procs[1] = [FreeSlot EXCEPT !.status = "ALLOCATED", !.tid = First, !.tg = First, !.identifier = 1]
  BY SlotsAssumption DEF Init, NoWorker
<1>2. \A t \in Tids : ~ Taken(t) /\ workers[t].pc # "peek"
  BY <1>1 DEF Taken, Pointed
<1>3. /\ procs[1].tid = First /\ procs[1].flags = {} /\ procs[1].execve_info = NoInfo
      /\ procs[1].in_syscall = FALSE
  BY <1>1 DEF FreeSlot
<1>4. \A i \in DOMAIN procs : i # 1 => procs[i].status = "FREE" /\ procs[i].execve_info = NoInfo
  BY <1>1 DEF FreeSlot
<1>5. \A t \in Tids : tracee[t].at = "user" /\ tracee[t].ev \in {"none", "sigstop"}
  BY DEF Init, KernelInit, Born, NotBorn
<1>6. ASSUME NEW t \in Tids PROVE Fit(t)
  <2>1. ASSUME NEW i \in Found(procs, t) PROVE InPhase(procs[i], tracee[t], FALSE)
    <3>1. i = 1
      BY <1>4 DEF Found, InUse
    <3> QED
      BY <1>3, <1>5, <3>1, PhaseFresh
  <2> QED
    BY <1>2, <2>1 DEF Fit, InPhase, Inside, Unhandled
<1>7. \A k \in FreeSlots(procs) : procs[k].execve_info = NoInfo
  BY <1>3, <1>4 DEF FreeSlots
<1> QED
  BY <1>5, <1>6, <1>7 DEF PhaseInv, Children

LEMMA PhaseStep ==
  ASSUME Placed, PhaseInv, [Next]_vars, Unhurt'
  PROVE  PhaseInv'
<1>1. mpc' \notin Live => PhaseInv'
  BY DEF PhaseInv, Followed, Live
<1>2. ASSUME NEW t \in Tids, WaitStep(t) PROVE PhaseInv'
  <2>1. ExitWithoutWorker(t) => mpc' \notin Live
    BY DEF ExitWithoutWorker, Live, Looping
  <2> QED
    BY <1>1, <1>2, <2>1, ExitPhase, AppearsPhase, AttachedPhase, SyscallStopPhase, ExecPhase, ForkPhase,
       SignalPhase DEF WaitStep
<1>3. CASE WaitNothing \/ WaitFails \/ Poll
  BY <1>3, StandsPhase DEF WaitNothing, WaitFails, Poll, Looping, Live, kernelVars, tables, pipes
<1>4. CASE Commit \/ Rollback \/ Interrupt
  BY <1>1, <1>4 DEF Commit, Rollback, Interrupt, Live, Looping
<1>5. CASE UNCHANGED vars
  BY <1>5, StandsPhase DEF vars, kernelVars, tracerVars
<1> QED
  BY <1>2, <1>3, <1>4, <1>5, ServePhase, WorkerPhase, TraceePhase DEF Next, MainStep, Stops

LEMMA PhaseAlways ==
  Threadless => (Spec => [](/\ Base /\ PipesInv /\ CallOrder /\ LedgerInv
                            /\ (Unhurt => StillStopped /\ CreatorsInv /\ ToldInv /\ PhaseInv)))
<1> SUFFICES ASSUME Threadless
             PROVE  Spec => [](/\ Base /\ PipesInv /\ CallOrder /\ LedgerInv
                               /\ (Unhurt => StillStopped /\ CreatorsInv /\ ToldInv /\ PhaseInv))
  OBVIOUS
<1>1. Init => PhaseInv
  BY PhaseInit
<1>2. Base /\ PipesInv /\ CallOrder /\ (Unhurt => StillStopped /\ CreatorsInv)
        /\ (Unhurt => PhaseInv) /\ [Next]_vars => (Unhurt => PhaseInv)'
  <2> SUFFICES ASSUME Base, PipesInv, CallOrder, Unhurt => StillStopped /\ CreatorsInv,
                      Unhurt => PhaseInv, [Next]_vars, Unhurt'
               PROVE  PhaseInv'
    OBVIOUS
  <2>1. Unhurt
    BY CallOrderStep DEF Unhurt
  <2> QED
    BY <2>1, PhaseStep DEF Placed, Stopping
<1>3. Spec => [](/\ Base /\ PipesInv /\ CallOrder /\ LedgerInv
                 /\ (Unhurt => StillStopped /\ CreatorsInv /\ ToldInv))
  BY ToldAlways
<1> QED
  BY <1>1, <1>2, <1>3, PTL DEF Spec

------------------------------------------------------------------------------
(* The loop does not end of itself.                                          *)

\* A process that entered a call has a worker, or is about to.
Heard == mpc \in Looping =>
            \A t \in Children : tracee[t].at \in {"call", "return"} => t \in Listed \/ tracee[t].ev = "sysin"
\* There is someone left to wait for.
SomeLeft == mpc \in Looping => InUse(procs) # {}

LEMMA TreatedStays ==
  ASSUME NEW k \in Tracee, NEW m \in Treated(k)
  PROVE  /\ m.at = k.at /\ m.ret = k.ret /\ m.call = k.call
         /\ k.st \in {"unborn", "gone"} => m.st = k.st
BY DEF Treated, Reaped, Resumed, Tracee

LEMMA HeardKept ==
  ASSUME Heard, KernelInv, mpc' \in Looping => mpc \in Looping,
         \A u \in Tids : tracee'[u] \in Treated(tracee[u]),
         \A u \in Listed : u \in Listed' \/ tracee'[u].st = "gone",
         \A u \in Tids : \/ tracee'[u] = tracee[u] \/ tracee[u].ev # "sysin"
                         \/ u \in Listed' \/ u \in Listed \/ tracee'[u].at = "user"
  PROVE  Heard'
<1> SUFFICES ASSUME mpc' \in Looping, NEW u \in Children', tracee'[u].at \in {"call", "return"}
             PROVE  u \in Listed' \/ tracee'[u].ev = "sysin"
  BY DEF Heard
<1>1. u \in Tids /\ tracee[u] \in Tracee /\ tracee'[u].st \notin {"unborn", "gone"}
  BY DEF Children, KernelInv
<1>2. u \in Children /\ tracee[u].at = tracee'[u].at
  BY <1>1, TreatedStays DEF Children
<1>3. u \in Listed \/ tracee[u].ev = "sysin"
  BY <1>2 DEF Heard
<1> QED
  BY <1>1, <1>3

LEMMA TraceeHeard ==
  ASSUME Placed, Heard, NEW t \in Tids, TraceeStep(t), Unhurt'
  PROVE  Heard'
<1> USE DEF Placed, Stopping, Base, TInv
<1>1. KernelStep(t) /\ UNCHANGED <<mpc, list>>
  BY DEF TraceeStep, tracerVars
<1>2. TraceeMoves(t)
  <2>1. KernelInv /\ KernelOrder
    BY DEF PipesInv
  <2>2. ~ Kill(t)
    BY <2>1, NoKill
  <2> QED
    BY <1>1, <2>1, <2>2, TraceeShapes
<1>3. tracee[t].st = "running" /\ tracee[t].ev = "none" /\ Moved(tracee[t], tracee'[t])
  BY <1>2 DEF TraceeMoves
<1> SUFFICES ASSUME mpc' \in Looping, NEW u \in Children', tracee'[u].at \in {"call", "return"}
             PROVE  u \in Listed' \/ tracee'[u].ev = "sysin"
  BY DEF Heard
<1>4. Listed' = Listed /\ mpc \in Looping /\ u \in Tids
  BY <1>1 DEF Listed, Children
<1>5. CASE tracee'[u] = tracee[u]
  BY <1>4, <1>5 DEF Heard, Children
<1>6. CASE u = t
  <2>1. t \in Children
    BY <1>3 DEF Children
  <2>2. tracee[t].at \in {"call", "return"} => t \in Listed
    BY <1>3, <1>4, <2>1 DEF Heard
  <2>3. tracee'[t].at \in {"call", "return"} => tracee[t].at \in {"call", "return"} \/ tracee'[t].ev = "sysin"
    BY <1>3 DEF Moved
  <2> QED
    BY <1>4, <1>6, <2>2, <2>3
<1>7. CASE u # t /\ tracee'[u] # tracee[u]
  <2>1. tracee'[u] = Born(u)
    BY <1>2, <1>4, <1>7 DEF TraceeMoves
  <2> QED
    BY <2>1 DEF Born, NotBorn
<1> QED
  BY <1>5, <1>6, <1>7

\* Who reports the entry of a call has a slot, and is waited for by a worker.
LEMMA WaitHeard ==
  ASSUME Placed, PhaseInv, Heard, NEW t \in Tids, WaitStep(t), mpc' \in Looping
  PROVE  Heard'
<1> USE DEF Placed, Stopping, Base, TInv
<1>1. Waited(t)
  BY DEF WaitStep, ExitWithoutWorker, ExitReported, Appears, Attached, SyscallStop, ExecEvent,
         ForkEvent, SignalForwarded, Stop
<1>2. mpc \in Looping /\ t \in Children /\ Orderly(tracee[t])
  BY <1>1, Reporter
<1>3. \A u \in Tids : tracee'[u] \in Treated(tracee[u])
  BY <1>2, TracerTreats DEF MainStep, Rollback, Looping
<1>4. ASSUME NEW u \in Listed PROVE u \in Listed' \/ tracee'[u].st = "gone"
  <2>1. CASE ExitReported(t)
    <3>1. Listed' = Listed \ {t} /\ tracee'[t].st = "gone"
      <4>1. FindTid(list, t) # 0 /\ list' = vector_delete(list, FindTid(list, t))
        BY <2>1 DEF ExitReported
      <4> QED
        BY <2>1, <4>1, ExitDoes, ListedAfterExit
    <3> QED
      BY <1>4, <3>1
  <2>2. CASE SyscallStop(t)
    <3>1. list' = list \/ list' = Append(list, t)
      BY <2>2 DEF SyscallStop
    <3>2. PICK n \in DOMAIN list : list[n] = u
      BY <1>4 DEF Listed
    <3>3. n \in DOMAIN list' /\ list'[n] = u
      BY <3>1, <3>2 DEF VInv
    <3> QED
      BY <3>3 DEF Listed
  <2>3. CASE ~ ExitReported(t) /\ ~ SyscallStop(t)
    <3>1. list' = list
      BY <2>3 DEF WaitStep, ExitWithoutWorker, Appears, Attached, ExecEvent, ForkEvent, SignalForwarded, pool
    <3> QED
      BY <1>4, <3>1 DEF Listed
  <2> QED
    BY <2>1, <2>2, <2>3
<1>5. ASSUME tracee[t].ev = "sysin" PROVE t \in Listed'
  <2>1. Attachment(t)
    BY <1>2, <1>5 DEF PhaseInv, Orderly
  <2>2. PICK k \in DOMAIN procs : procs[k].status = "ATTACHED" /\ procs[k].tid = t
    BY <2>1 DEF Attachment
  <2>3. k \in Found(procs, t) /\ \A j \in Found(procs, t) : j = k
    BY <2>2 DEF Found, InUse, TablesInv, UniqueTids
  <2>4. Find(procs, t) \in Found(procs, t)
    BY <2>3, FindFinds DEF WellTyped, Found
  <2>5. ~ Appears(t) /\ ~ Attached(t)
    BY <2>2, <2>3, <2>4 DEF Appears, Attached
  <2>6. SyscallStop(t)
    BY <1>5, <2>5 DEF WaitStep, ExitWithoutWorker, ExitReported, ExecEvent, ForkEvent,
       SignalForwarded, Stop, Event
  <2>7. CASE FindTid(list, t) = 0
    <3>1. list' = Append(list, t)
      BY <2>6, <2>7 DEF SyscallStop
    <3> QED
      BY <3>1 DEF Listed, VInv
  <2>8. CASE FindTid(list, t) # 0
    <3>1. list' = list
      BY <2>6, <2>8 DEF SyscallStop
    <3>2. t \in Listed
      BY <2>8 DEF FindTid, Listed
    <3> QED
      BY <3>1, <3>2 DEF Listed
  <2> QED
    BY <2>7, <2>8
<1>6. ASSUME NEW u \in Tids, u # t PROVE tracee'[u] = tracee[u] \/ tracee'[u].at = "user"
  <2>1. CASE ForkEvent(t)
    <3>1. PICK c \in Tids, j \in DOMAIN procs' : ForkTakes(t, c, j) /\ ForkFills(t, c, j)
      BY <2>1, ForkDoes, ForkWrites
    <3>2. (\A v \in Tids : v # t /\ v # c => Same(v)) /\ tracee'[c].at = "user"
      BY <2>1, <3>1, ForkSlots
    <3> QED
      BY <1>6, <3>2 DEF Same
  <2>2. CASE ~ ForkEvent(t)
    <3>1. \/ tracee' = [tracee EXCEPT ![t] = Reaped(@)]
          \/ tracee' = [tracee EXCEPT ![t] = Resumed(Reaped(@))]
          \/ UNCHANGED tracee
      BY <2>2 DEF WaitStep, ExitWithoutWorker, ExitReported, Appears, Attached, SyscallStop, ExecEvent,
         SignalForwarded
    <3> QED
      BY <1>6, <3>1 DEF KernelInv
  <2> QED
    BY <2>1, <2>2
<1> QED
  BY <1>2, <1>3, <1>4, <1>5, <1>6, HeardKept

LEMMA HeardStep ==
  ASSUME Placed, PhaseInv, Heard, [Next]_vars, Unhurt'
  PROVE  Heard'
<1> SUFFICES ASSUME mpc' \in Looping PROVE Heard'
  BY DEF Heard
<1> USE DEF Placed, Stopping, Base, TInv
<1>1. ASSUME UNCHANGED <<tracee, list>>, mpc \in Looping PROVE Heard'
  BY <1>1 DEF Heard, Children, Listed
<1>2. CASE Serve
  <2>1. PICK w \in Tids :
           /\ mpc = "serve" /\ w \in Listed /\ list' = list
           /\ tracee' = IF workers[w].pc = "resume" /\ tracee[w].st = "stopped"
                        THEN [tracee EXCEPT ![w] = Resumed(@)] ELSE tracee
    BY <1>2, Served
  <2>2. \A u \in Tids : tracee'[u] \in Treated(tracee[u])
    BY <1>2, TracerTreats DEF MainStep, Rollback, Serve
  <2>3. Listed' = Listed /\ mpc \in Looping
    BY <2>1 DEF Listed, Looping
  <2>4. \A u \in Tids : tracee'[u] = tracee[u] \/ u \in Listed
    BY <2>1 DEF KernelInv
  <2> QED
    BY <2>2, <2>3, <2>4, HeardKept
<1>3. ASSUME NEW t \in Tids, WorkerStep(t) PROVE Heard'
  <2>1. UNCHANGED <<tracee, list>>
    BY <1>3, WorkerTouches DEF kernelVars
  <2>2. mpc \in Looping
    BY <1>3, WorkerDoes DEF Looping
  <2> QED
    BY <1>1, <2>1, <2>2
<1>4. CASE WaitNothing \/ Poll
  BY <1>1, <1>4 DEF WaitNothing, Poll, Looping, kernelVars, pool
<1>5. ~ WaitFails /\ ~ Commit /\ ~ Rollback /\ ~ Interrupt
  BY DEF WaitFails, Commit, Rollback, Interrupt, Looping
<1>6. CASE UNCHANGED vars
  BY <1>1, <1>6 DEF vars, kernelVars, tracerVars
<1> QED
  BY <1>2, <1>3, <1>4, <1>5, <1>6, WaitHeard, TraceeHeard DEF Next, MainStep, Stops

LEMMA SomeLeftStep ==
  ASSUME Placed, PhaseInv, SomeLeft, [Next]_vars
  PROVE  SomeLeft'
<1> SUFFICES ASSUME mpc' \in Looping PROVE InUse(procs') # {}
  BY DEF SomeLeft, InUse
<1> USE DEF Placed, Stopping, Base, TInv
<1>1. ASSUME NEW k \in DOMAIN procs', procs'[k].status # "FREE" PROVE InUse(procs') # {}
  BY <1>1 DEF InUse
<1>2. ASSUME SameSlots, mpc \in Looping PROVE InUse(procs') # {}
  <2>1. PICK k \in DOMAIN procs : procs[k].status # "FREE"
    BY <1>2 DEF SomeLeft, InUse
  <2> QED
    BY <1>1, <1>2, <2>1 DEF SameSlots, SameSlot
<1>3. ASSUME NEW t \in Tids, ExitReported(t) PROVE InUse(procs') # {}
  <2>1. mpc' = AfterExit(procs')
    BY <1>3, ExitDoes DEF Looping
  <2>2. NProc(procs') # 0
    BY <2>1 DEF AfterExit, Looping
  <2> QED
    BY <2>2, FS_EmptySet DEF NProc
<1>4. ASSUME NEW t \in Tids, Appears(t) PROVE InUse(procs') # {}
  <2> DEFINE ps == WithRoom(procs)
             j == EmptySlot(procs)
             s == [ps[j] EXCEPT !.status = "UNKNOWN", !.flags = {}, !.tid = t, !.tg = NoGroup,
                              !.in_syscall = FALSE]
  <2>1. procs' = [ps EXCEPT ![j] = s]
    BY <1>4 DEF Appears
  <2>2. ps \in Seq(Slot(Tids)) /\ j \in DOMAIN ps
    BY RoomInTable DEF TInv
  <2>3. s.status = "UNKNOWN"
    <3>1. ps[j] \in Slot(Tids)
      BY <2>2
    <3> HIDE DEF ps, j
    <3> QED
      BY <3>1 DEF Slot
  <2> HIDE DEF ps, j, s
  <2>4. j \in DOMAIN procs' /\ procs'[j] = s
    BY <2>1, <2>2
  <2> QED
    BY <1>1, <2>3, <2>4
<1>5. ASSUME NEW t \in Tids, NEW s, procs' = [procs EXCEPT ![Find(procs, t)] = s], s.status # "FREE",
             Found(procs, t) # {}
      PROVE  InUse(procs') # {}
  <2>1. Find(procs, t) \in DOMAIN procs
    BY <1>5, FindFinds DEF WellTyped
  <2>2. Find(procs, t) \in DOMAIN procs' /\ procs'[Find(procs, t)] = s
    BY <1>5, <2>1
  <2> QED
    BY <1>1, <1>5, <2>2
<1>6. ASSUME NEW t \in Tids, Attached(t) PROVE InUse(procs') # {}
  <2> DEFINE i == Find(procs, t)
             s == [procs[i] EXCEPT !.status = "ATTACHED"]
  <2>1. Found(procs, t) # {} /\ procs' = [procs EXCEPT ![i] = s]
    BY <1>6 DEF Attached
  <2>2. i \in DOMAIN procs
    BY <2>1, FindFinds DEF WellTyped
  <2> HIDE DEF i
  <2>3. s.status = "ATTACHED"
    BY <2>2 DEF WellTyped, Slot
  <2> HIDE DEF s
  <2> QED
    BY <1>5, <2>1, <2>3 DEF i
<1>7. ASSUME NEW t \in Tids, SyscallStop(t) PROVE InUse(procs') # {}
  <2> DEFINE i == Find(procs, t)
             s == WithRegisters(procs[i], tracee[t])
  <2>1. i \in Found(procs, t) /\ procs[i] \in Slot(Tids) /\ procs[i].status = "ATTACHED"
        /\ procs' = [procs EXCEPT ![i] = s]
    BY <1>7, SyscallStopDoes
  <2> HIDE DEF i
  <2>2. s.status = "ATTACHED"
    BY <2>1 DEF Slot, WithRegisters
  <2> HIDE DEF s
  <2> QED
    BY <1>5, <2>1, <2>2 DEF i
<1>8. ASSUME NEW t \in Tids, ExecEvent(t) PROVE InUse(procs') # {}
  <2> DEFINE i == Find(procs, t)
             s == [procs[i] EXCEPT !.execve_info = NoInfo, !.flags = {"EXECD"}]
  <2>1. i \in Found(procs, t) /\ procs[i] \in Slot(Tids) /\ procs[i].status = "ATTACHED"
        /\ procs' = [procs EXCEPT ![i] = s]
    BY <1>8, ExecDoes
  <2> HIDE DEF i
  <2>2. s.status = "ATTACHED"
    BY <2>1 DEF Slot
  <2> HIDE DEF s
  <2> QED
    BY <1>5, <2>1, <2>2 DEF i
<1>9. ASSUME NEW t \in Tids, ForkEvent(t) PROVE InUse(procs') # {}
  <2>1. PICK c \in Tids, j \in DOMAIN procs' : ForkTakes(t, c, j)
    BY <1>9, ForkDoes, ForkWrites
  <2> QED
    BY <1>1, <2>1 DEF ForkTakes
<1>10. ASSUME NEW t \in Tids, SignalForwarded(t) PROVE InUse(procs') # {}
  BY <1>2, <1>10, NothingWritten DEF SignalForwarded, Stop, Waited, Looping, tables
<1>11. ASSUME NEW t \in Tids, WorkerStep(t) PROVE InUse(procs') # {}
  <2>1. mpc \in Looping
    BY <1>11, WorkerDoes DEF Looping
  <2> QED
    BY <1>2, <1>11, <2>1, WorkerSlots
<1>12. CASE WaitNothing \/ Poll \/ Serve \/ UNCHANGED vars \/ (\E t \in Tids : TraceeStep(t))
  <2>1. UNCHANGED procs /\ mpc \in Looping
    BY <1>12 DEF WaitNothing, Poll, Serve, TraceeStep, Looping, tables, vars, tracerVars
  <2> QED
    BY <1>2, <2>1, NothingWritten
<1>13. ~ WaitFails /\ ~ Commit /\ ~ Rollback /\ ~ Interrupt /\ \A t \in Tids : ~ ExitWithoutWorker(t)
  BY DEF WaitFails, Commit, Rollback, Interrupt, ExitWithoutWorker, Looping
<1> QED
  BY <1>3, <1>4, <1>6, <1>7, <1>8, <1>9, <1>10, <1>11, <1>12, <1>13
  DEF Next, MainStep, WaitStep, Stops

LEMMA LeftInit == Init => Heard /\ SomeLeft
<1> SUFFICES ASSUME Init PROVE Heard /\ SomeLeft
  OBVIOUS
<1>1. \A t \in Tids : tracee[t].at = "user"
  BY DEF Init, KernelInit, Born, NotBorn
<1>2. 1 \in DOMAIN procs /\ procs[1].status = "ALLOCATED"
  BY SlotsAssumption DEF Init, FreeSlot
<1> QED
  BY <1>1, <1>2 DEF Heard, SomeLeft, InUse, Children

\* Whoever is UNKNOWN has a creator, which is not.
LEMMA KnownLeft ==
  ASSUME Placed, PhaseInv, NEW t \in Tids, ExitReported(t), mpc' = AfterExit(procs')
  PROVE  mpc' # "failed"
<1> USE DEF Placed, Stopping, Base, TInv
<1> SUFFICES ASSUME mpc' = "failed" PROVE FALSE
  OBVIOUS
<1> DEFINE U == {k \in DOMAIN procs' : procs'[k].status = "UNKNOWN"}
<1>1. /\ mpc = "wait" /\ mpc \in Looping /\ tracee[t].st = "dead" /\ Found(procs, t) = {Find(procs, t)}
  BY ExitDoes DEF Waited, Looping
<1>2. NProc(procs') > 0 /\ NUnknown(procs') >= NProc(procs')
  BY DEF AfterExit
<1>3. IsFiniteSet(InUse(procs')) /\ U \subseteq InUse(procs')
  <2>1. DOMAIN procs' = DOMAIN procs /\ IsFiniteSet(DOMAIN procs)
    <3>1. DOMAIN procs = 1 .. Len(procs) /\ Len(procs) \in Int /\ 1 \in Int
      BY DEF WellTyped
    <3> QED
      BY <3>1, ExitSlots, FS_Interval
  <2>3. InUse(procs') \subseteq DOMAIN procs /\ U \subseteq InUse(procs')
    BY <2>1 DEF InUse
  <2> QED
    BY <2>1, <2>3, FS_Subset
<1>4. IsFiniteSet(U) /\ Cardinality(U) = Cardinality(InUse(procs')) => U = InUse(procs')
  BY <1>3, FS_Subset
<1>5. U = InUse(procs') /\ U # {}
  <2>1. IsFiniteSet(U) /\ Cardinality(U) <= Cardinality(InUse(procs'))
    BY <1>3, FS_Subset
  <2>2. Cardinality(U) \in Nat /\ Cardinality(InUse(procs')) \in Nat
    BY <1>3, <2>1, FS_CardinalityType
  <2>3. Cardinality(U) >= Cardinality(InUse(procs')) /\ Cardinality(U) # 0
    <3>1. NUnknown(procs') = Cardinality(U) /\ NProc(procs') = Cardinality(InUse(procs'))
      BY DEF NUnknown, NProc
    <3>2. ASSUME NEW m \in Nat, NEW n \in Nat, m > 0, n >= m PROVE n >= m /\ n # 0
      BY <3>2
    <3> HIDE DEF U
    <3>3. Cardinality(InUse(procs')) > 0 /\ Cardinality(U) >= Cardinality(InUse(procs'))
      BY <1>2, <3>1
    <3> QED
      BY <2>2, <3>2, <3>3
  <2> HIDE DEF U
  <2>4. Cardinality(U) = Cardinality(InUse(procs'))
    BY <2>1, <2>2, <2>3
  <2> QED
    BY <1>4, <2>1, <2>3, <2>4, FS_EmptySet
<1>6. ASSUME NEW k \in DOMAIN procs, procs[k].status # "FREE", procs[k].tid # t
      PROVE  procs'[k] = procs[k]
  <2>1. procs[k].tid \in Tids
    BY <1>1, <1>6 DEF PipesInv, Stages, InUse
  <2>2. Same(procs[k].tid)
    BY <1>6, <2>1, ExitSlots
  <2> QED
    BY <1>6, <2>2 DEF Same, Found, InUse
<1>7. PICK k \in DOMAIN procs : procs[k].status = "UNKNOWN"
  <2>1. PICK k \in DOMAIN procs' : procs'[k].status = "UNKNOWN"
    BY <1>5
  <2> DEFINE i == Find(procs, t)
             r == [procs[i] EXCEPT !.status = "FREE", !.tg = NoGroup, !.execve_info = NoInfo]
  <2>2. procs[i] \in Slot(Tids) /\ i \in DOMAIN procs /\ (procs' = procs \/ procs' = [procs EXCEPT ![i] = r])
    BY ExitDoes DEF Found, InUse
  <2>3. r.status = "FREE"
    BY <2>2 DEF Slot
  <2> HIDE DEF i, r
  <2> QED
    BY <2>1, <2>2, <2>3 DEF WellTyped
<1>8. PICK p \in Tids : Spawning(p) /\ tracee[p].child = procs[k].tid
  BY <1>1, <1>7 DEF CreatorsInv, Created
<1>9. p # t /\ p \in Children
  <2>1. Ordered(p, tracee[p])
    BY DEF PipesInv, KernelOrder
  <2> QED
    BY <1>1, <1>8, <2>1 DEF Ordered, Spawning, Children
<1>10. PICK q \in DOMAIN procs : procs[q].status = "ATTACHED" /\ procs[q].tid = p
  BY <1>1, <1>8, <1>9 DEF CreatorsInv, Place, Newcomer, Spawning, Attachment
<1>11. procs'[q] = procs[q] /\ q \in DOMAIN procs'
  BY <1>6, <1>9, <1>10, ExitSlots
<1>12. q \in InUse(procs') /\ q \notin U
  BY <1>10, <1>11 DEF InUse
<1> QED
  BY <1>5, <1>12

Going == mpc \notin {"failed", "rolledback", "exit", "segv"}
\* No insertion fails, and nobody interrupts the tracer.
Undisturbed == Threadless /\ "db" \notin Faults /\ "interrupt" \notin Faults

LEMMA WaitGoesOn ==
  ASSUME Placed, PhaseInv, Heard, Undisturbed, ~ Harmed', NEW t \in Tids, WaitStep(t)
  PROVE  Going'
<1> USE DEF Placed, Stopping, Base, TInv
<1>1. ~ ExitWithoutWorker(t)
  <2> SUFFICES ASSUME ExitWithoutWorker(t) PROVE FALSE
    OBVIOUS
  <2>1. Waited(t) /\ tracee[t].ev = "exit" /\ FindTid(list, t) = 0 /\ tracee'[t] = Reaped(tracee[t])
    BY DEF ExitWithoutWorker, Event, KernelInv
  <2>2. mpc \in Looping /\ t \in Children /\ tracee[t] \in Tracee /\ Orderly(tracee[t]) /\ Ordered(t, tracee[t])
    BY <2>1, Reporter
  <2>3. tracee[t].ret # "killed"
    BY <2>1, <2>2, ReapedStays DEF Harmed
  <2>4. tracee[t].at = "call"
    BY <2>1, <2>2, <2>3 DEF Orderly, Ordered
  <2>5. t \in Listed
    BY <2>1, <2>2, <2>4 DEF Heard
  <2>6. t \notin Listed
    <3>1. \A n \in DOMAIN list : list[n] # t
      BY <2>1, FindTidFinds, TidsAssumption DEF VInv, NoTid
    <3> QED
      BY <3>1 DEF Listed
  <2> QED
    BY <2>5, <2>6
<1>2. CASE ExitReported(t)
  BY <1>2, ExitDoes, KnownLeft, AfterExitTyped DEF Going, Undisturbed
<1>3. CASE Appears(t) \/ Attached(t) \/ SyscallStop(t) \/ SignalForwarded(t)
  BY <1>3 DEF Appears, Attached, SyscallStop, SignalForwarded, Stop, Waited, Going
<1>4. CASE ExecEvent(t)
  BY <1>4, ExecDoes DEF Going, Undisturbed
<1>5. CASE ForkEvent(t)
  BY <1>5, ForkDoes DEF Going, Undisturbed
<1> QED
  BY <1>1, <1>2, <1>3, <1>4, <1>5 DEF WaitStep

LEMMA WorkerGoesOn ==
  ASSUME Placed, PhaseInv, LedgerInv, Going, NEW t \in Tids, WorkerStep(t)
  PROVE  mpc' = mpc
<1> USE DEF Placed, Stopping, Base, TInv
<1> SUFFICES ASSUME mpc' # mpc PROVE FALSE
  OBVIOUS
<1>1. BadPointer(t) \/ (PathRead(t) /\ procs[workers[t].slot].tg = NoGroup)
  BY DEF WorkerStep, StopHandled, StopPeeks, PeekAgain, PathRead, InsertFails, Answered
<1>2. Receives(t, "idle") \/ Receives(t, "peek")
  BY <1>1 DEF BadPointer, PathRead
<1>3. mpc \in Looping \cup {"returned"}
  BY <1>2 DEF Receives, Live, Going
<1>4. ~ BadPointer(t)
  BY <1>2, HandsOver DEF BadPointer, Receives
<1>5. workers[t].pc = "peek" /\ procs[workers[t].slot].tg = NoGroup
  BY <1>1, <1>4 DEF PathRead, Receives
<1>6. workers[t].slot \in Found(procs, t) /\ t \in Listed
  BY <1>2, <1>5, HandsOver
<1>7. mpc \in Looping
  BY <1>3, <1>6 DEF LedgerInv, Found, Tracing
<1>8. PICK k \in DOMAIN procs : procs[k].status = "ATTACHED" /\ procs[k].tid = t
  BY <1>6, <1>7 DEF PipesInv, Stages
<1>9. k = workers[t].slot
  BY <1>6, <1>8 DEF Found, InUse, TablesInv, UniqueTids
<1>10. SlotInOrder(procs[k])
  BY <1>7, <1>8 DEF PipesInv, SlotsInOrder, Live
<1> QED
  BY <1>5, <1>8, <1>9, <1>10 DEF SlotInOrder

LEMMA GoesOn ==
  ASSUME Placed, PhaseInv, LedgerInv, Heard, SomeLeft, Undisturbed, Going, [Next]_vars, ~ Harmed'
  PROVE  Going'
<1> USE DEF Placed, Stopping, Base, TInv
<1>1. ~ WaitFails
  <2> SUFFICES ASSUME WaitFails PROVE FALSE
    OBVIOUS
  <2>1. mpc \in Looping /\ Children = {}
    BY DEF WaitFails, Looping
  <2>2. PICK i \in InUse(procs) : TRUE
    BY <2>1 DEF SomeLeft
  <2>3. procs[i].tid \in Children
    BY <2>1, <2>2 DEF PipesInv, Stages, Children
  <2> QED
    BY <2>1, <2>3
<1>2. CASE WaitNothing \/ Poll \/ Serve \/ Commit
  BY <1>2 DEF WaitNothing, Poll, Serve, Commit, Going
<1>3. ~ Rollback /\ ~ Interrupt
  BY DEF Rollback, Interrupt, Going, Undisturbed
<1>4. ASSUME NEW t \in Tids, WorkerStep(t) PROVE Going'
  BY <1>4, WorkerGoesOn DEF Going
<1>5. CASE UNCHANGED vars \/ (\E t \in Tids : TraceeStep(t))
  BY <1>5 DEF vars, tracerVars, TraceeStep, Going
<1> QED
  BY <1>1, <1>2, <1>3, <1>4, <1>5, WaitGoesOn DEF Next, MainStep, Stops

\* Nothing but a process killed from outside keeps trace() from ending with its
\* processes: it is not left waiting for nobody, no exit is of an unknown worker,
\* no pointer it follows is NULL, and it never gives up on UNKNOWN processes.
\* In programs without threads, when every insertion succeeds and nobody presses
\* ^C twice.
THEOREM NothingElseAborts == Undisturbed => (Spec => []OnlyKillsAbort)
<1> SUFFICES ASSUME Undisturbed PROVE Spec => []OnlyKillsAbort
  OBVIOUS
<1>1. Threadless
  BY DEF Undisturbed
<1>2. Init => Heard /\ SomeLeft /\ Going
  BY LeftInit DEF Init, Going
<1>3. /\ Base /\ PipesInv /\ CallOrder /\ LedgerInv
      /\ (Unhurt => StillStopped /\ CreatorsInv /\ ToldInv /\ PhaseInv)
      /\ (~ Harmed => Heard /\ SomeLeft /\ Going)
      /\ [Next]_vars
      => (~ Harmed => Heard /\ SomeLeft /\ Going)'
  <2> SUFFICES ASSUME Base, PipesInv, CallOrder, LedgerInv,
                      Unhurt => StillStopped /\ CreatorsInv /\ ToldInv /\ PhaseInv,
                      ~ Harmed => Heard /\ SomeLeft /\ Going, [Next]_vars, ~ Harmed'
               PROVE  (Heard /\ SomeLeft /\ Going)'
    OBVIOUS
  <2>1. ~ Harmed
    BY <1>1, CallOrderStep
  <2>2. Unhurt /\ Unhurt' /\ Placed
    BY <1>1, <2>1 DEF Unhurt, Placed, Stopping
  <2> QED
    BY <2>1, <2>2, HeardStep, SomeLeftStep, GoesOn
<1>4. (~ Harmed => Heard /\ SomeLeft /\ Going) => OnlyKillsAbort
  BY DEF OnlyKillsAbort, Going, Harmed
<1>5. Spec => [](/\ Base /\ PipesInv /\ CallOrder /\ LedgerInv
                 /\ (Unhurt => StillStopped /\ CreatorsInv /\ ToldInv /\ PhaseInv))
  BY <1>1, PhaseAlways
<1> QED
  BY <1>2, <1>3, <1>4, <1>5, PTL DEF Spec

------------------------------------------------------------------------------
(* What the database holds of what a process did.                            *)

\* The row that the process did last, when it is still to be written.
Owes(k, taken) ==
    CASE k.ev = "exec" -> "exec"
      [] k.ev # "exec" /\ k.at = "user" /\ k.ret = "ok" /\ k.call \in {"open", "chdir"}
            /\ Unhandled(k, taken) -> k.call
      [] OTHER -> "none"

\* The rows of t and the directory of its thread group are those of its history,
\* less what is still to be written.
Synced(rows, done, wd, dir, owes, t) ==
    CASE owes = "none"  -> done = rows /\ dir = wd
      [] owes = "chdir" -> done = Append(rows, DbRow("wd", wd + 1, t)) /\ dir = wd + 1
      [] OTHER          -> done = Append(rows, DbRow(owes, wd, t)) /\ dir = wd
Rows(t) ==
    \A i \in Found(procs, t) : Registered(procs[i]) =>
       LET id == procs[i].identifier IN
       /\ id \in DOMAIN dbProcs /\ dbProcs[id].tid = t
       /\ Synced(dbRows[id], did[t], groups[t].wd, cwd[t], Owes(tracee[t], Taken(t)), t)

Begun(a, b) == Len(a) <= Len(b) /\ \A n \in 1 .. Len(a) : a[n] = b[n]
Parent(id) ==
    LET t == dbProcs[id].tid IN
    IF t = First THEN dbProcs[id].parent = 0
    ELSE /\ dbProcs[id].parent \in DOMAIN dbProcs /\ Len(did[t]) > 0
         /\ dbProcs[dbProcs[id].parent].tid = did[t][1].by

\* Every process has one row, that of its parent too, and a beginning of its history.
LogInv ==
    /\ Len(dbRows) = Len(dbProcs)
    /\ \A a, b \in DOMAIN dbProcs : dbProcs[a].tid = dbProcs[b].tid => a = b
    /\ \A id \in DOMAIN dbProcs : Begun(dbRows[id], did[dbProcs[id].tid])
    /\ \A id \in DOMAIN dbProcs : Parent(id)
\* Up to the last stop, for a process whose worker has not given up.
Written(t) == Followed(t) /\ workers[t].pc # "exited" => Rows(t)
\* A process that nobody told of has done nothing.
NotBegun(t)   == did[t] = <<>> /\ Ids(t) = {}
Newborn(c, p) == /\ did[c] = <<DbRow("wd", cwd[p], p)>> /\ cwd[c] = cwd[p]
                 /\ Ids(c) = {} /\ c # First
NewRows ==
    /\ First \notin Unborn /\ \A t \in Unborn : NotBegun(t)
    /\ mpc \in Looping => \A p, c \in Tids : Spawning(p) /\ tracee[p].child = c => Newborn(c, p)
\* One that is gone has all its rows.
GoneRows ==
    mpc \in Tracing => \A id \in DOMAIN dbProcs :
       tracee[dbProcs[id].tid].st = "gone" => dbRows[id] = did[dbProcs[id].tid]
RowsInv == LogInv /\ (\A t \in Tids : Written(t)) /\ NewRows /\ GoneRows

\* Nothing of that changes for u.
SameRows(u) ==
    \A id \in DOMAIN dbProcs : dbProcs[id].tid = u =>
       id \in DOMAIN dbProcs' /\ dbProcs'[id].tid = u /\ dbRows'[id] = dbRows[id]
Carried(u) ==
    Followed(u)' /\ workers'[u].pc # "exited" =>
       \A i \in Found(procs, u)' : Registered(procs'[i]) =>
          /\ Followed(u) /\ workers[u].pc # "exited"
          /\ i \in Found(procs, u) /\ Registered(procs[i])
          /\ procs'[i].identifier = procs[i].identifier
          /\ Owes(tracee'[u], Taken(u)') = Owes(tracee[u], Taken(u))
          /\ did'[u] = did[u] /\ cwd'[u] = cwd[u] /\ groups'[u].wd = groups[u].wd
\* The processes have the rows they had, but for the exits.
SameProcesses ==
    /\ Len(dbProcs') = Len(dbProcs) /\ DOMAIN dbProcs' = DOMAIN dbProcs
    /\ \A id \in DOMAIN dbProcs : /\ dbProcs'[id].tid = dbProcs[id].tid
                                  /\ dbProcs'[id].parent = dbProcs[id].parent

LEMMA OwesOf ==
  ASSUME NEW k, NEW taken
  PROVE  /\ Owes(k, taken) \in {"none", "exec", "open", "chdir"}
         /\ Owes(k, taken) = "exec" <=> k.ev = "exec"
         /\ \A c \in {"open", "chdir"} : Owes(k, taken) = c <=>
               k.ev # "exec" /\ k.at = "user" /\ k.ret = "ok" /\ k.call = c /\ Unhandled(k, taken)
BY DEF Owes

LEMMA WrittenStays ==
  ASSUME NEW u \in Tids, Written(u), Carried(u), SameRows(u)
  PROVE  Written(u)'
<1> SUFFICES ASSUME Followed(u)', workers'[u].pc # "exited" PROVE Rows(u)'
  BY DEF Written
<1> SUFFICES ASSUME NEW i \in Found(procs, u)', Registered(procs'[i])
             PROVE  LET id == procs'[i].identifier IN
                    /\ id \in DOMAIN dbProcs' /\ dbProcs'[id].tid = u
                    /\ Synced(dbRows'[id], did'[u], groups'[u].wd, cwd'[u], Owes(tracee'[u], Taken(u)'), u)
  BY DEF Rows, Synced, Owes, Unhandled
<1>1. /\ Followed(u) /\ workers[u].pc # "exited"
      /\ i \in Found(procs, u) /\ Registered(procs[i])
      /\ procs'[i].identifier = procs[i].identifier
      /\ Owes(tracee'[u], Taken(u)') = Owes(tracee[u], Taken(u))
      /\ did'[u] = did[u] /\ cwd'[u] = cwd[u] /\ groups'[u].wd = groups[u].wd
  BY DEF Carried
<1>2. Rows(u)
  BY <1>1 DEF Written
<1> QED
  BY <1>1, <1>2 DEF Rows, SameRows

LEMMA SameCarried ==
  ASSUME NEW u \in Tids, Same(u), did'[u] = did[u], cwd'[u] = cwd[u], groups'[u].wd = groups[u].wd,
         mpc' \in Looping => mpc \in Looping, mpc' \in Live => mpc \in Live
  PROVE  Carried(u)
BY DEF Same, Carried, Followed, Owes, Unhandled

LEMMA BegunThrough ==
  ASSUME NEW S, NEW a \in Seq(S), NEW b \in Seq(S), NEW c \in Seq(S), Begun(a, b), Begun(b, c)
  PROVE  Begun(a, c)
BY DEF Begun

LEMMA BegunSelf == ASSUME NEW S, NEW a \in Seq(S) PROVE Begun(a, a)
BY DEF Begun

LEMMA BegunAppend ==
  ASSUME NEW S, NEW a \in Seq(S), NEW e \in S
  PROVE  Begun(a, Append(a, e)) /\ Append(a, e) \in Seq(S)
BY DEF Begun

LEMMA RowsTyped ==
  ASSUME WellTyped, LogInv
  PROVE  /\ Len(dbProcs) \in Nat /\ DOMAIN dbProcs = 1 .. Len(dbProcs)
         /\ DOMAIN dbRows = DOMAIN dbProcs
         /\ \A id \in DOMAIN dbProcs : dbRows[id] \in Seq(Row)
BY DEF WellTyped, LogInv

\* Histories go on, and rows are kept.
LEMMA LogKept ==
  ASSUME LogInv, WellTyped, KernelInv, KernelInv', UNCHANGED dbRows, SameProcesses,
         \A u \in Tids : Begun(did[u], did'[u])
  PROVE  LogInv'
<1>1. ASSUME NEW id \in DOMAIN dbProcs' PROVE Begun(dbRows'[id], did'[dbProcs'[id].tid]) /\ Parent(id)'
  <2> DEFINE t == dbProcs[id].tid
  <2>1. id \in DOMAIN dbProcs /\ dbProcs'[id].tid = t /\ dbProcs'[id].parent = dbProcs[id].parent
        /\ t \in Tids /\ dbRows[id] \in Seq(Row)
    BY <1>1, RowTyped, RowsTyped DEF SameProcesses
  <2> HIDE DEF t
  <2>2. did[t] \in Seq(Row) /\ did'[t] \in Seq(Row)
    BY <2>1 DEF KernelInv
  <2>3. Begun(dbRows[id], did[t]) /\ Begun(did[t], did'[t]) /\ Parent(id)
    BY <2>1 DEF LogInv, t
  <2>4. Begun(dbRows[id], did'[t])
    BY <2>1, <2>2, <2>3, BegunThrough
  <2>5. Len(did[t]) > 0 => Len(did'[t]) > 0 /\ did'[t][1] = did[t][1]
    BY <2>2, <2>3 DEF Begun
  <2>6. Parent(id)'
    <3>1. CASE t = First
      BY <2>1, <2>3, <3>1 DEF Parent, t
    <3>2. CASE t # First
      BY <2>1, <2>3, <2>5, <3>2 DEF Parent, t, SameProcesses
    <3> QED
      BY <3>1, <3>2
  <2> QED
    BY <2>1, <2>4, <2>6
<1>2. \A a, b \in DOMAIN dbProcs' : dbProcs'[a].tid = dbProcs'[b].tid => a = b
  BY DEF LogInv, SameProcesses
<1>3. Len(dbRows') = Len(dbProcs')
  BY DEF LogInv, SameProcesses
<1> QED
  BY <1>1, <1>2, <1>3 DEF LogInv

LEMMA TreatedSpawn ==
  ASSUME NEW k \in Tracee, NEW m \in Treated(k), m.ev = "spawn"
  PROVE  k.ev = "spawn" /\ m.child = k.child
BY DEF Treated, Reaped, Resumed, Tracee

LEMMA NewRowsKept ==
  ASSUME NewRows, KernelInv, UNCHANGED <<did, cwd>>, SameProcesses,
         \A u \in Tids : tracee'[u].st = "unborn" => tracee[u].st = "unborn",
         mpc' \in Looping => mpc \in Looping /\ \A u \in Tids : tracee'[u] \in Treated(tracee[u])
  PROVE  NewRows'
<1>1. \A u : Ids(u)' = Ids(u)
  BY DEF Ids, SameProcesses
<1>2. \A u : NotBegun(u) => NotBegun(u)'
  BY <1>1 DEF NotBegun
<1>3. \A c, p : Newborn(c, p) => Newborn(c, p)'
  BY <1>1 DEF Newborn, DbRow
<1>4. First \notin Unborn' /\ \A u \in Unborn' : NotBegun(u)'
  BY <1>2 DEF Unborn, NewRows
<1>5. ASSUME mpc' \in Looping, NEW p \in Tids, NEW c \in Tids, Spawning(p)', tracee'[p].child = c
      PROVE  Newborn(c, p)'
  <2>1. mpc \in Looping /\ tracee'[p] \in Treated(tracee[p]) /\ tracee[p] \in Tracee
    BY <1>5 DEF KernelInv
  <2>2. Spawning(p) /\ tracee'[p].child = tracee[p].child
    BY <1>5, <2>1, TreatedSpawn DEF Spawning
  <2> QED
    BY <1>3, <1>5, <2>1, <2>2 DEF NewRows
<1> QED
  BY <1>4, <1>5 DEF NewRows

\* A step that nobody does anything in, and that writes no row.
LEMMA QuietRows ==
  ASSUME RowsInv, WellTyped, KernelInv, KernelInv', UNCHANGED <<did, cwd, dbRows>>, SameProcesses,
         \A u \in Tids : Carried(u),
         \A u \in Tids : tracee'[u].st = "unborn" => tracee[u].st = "unborn",
         mpc' \in Looping => mpc \in Looping /\ \A u \in Tids : tracee'[u] \in Treated(tracee[u]),
         mpc' \in Tracing => /\ mpc \in Tracing
                             /\ \A id \in DOMAIN dbProcs : LET u == dbProcs[id].tid IN
                                   tracee'[u].st = "gone" => tracee[u].st = "gone" \/ dbRows[id] = did[u]
  PROVE  RowsInv'
<1>1. \A u \in Tids : Begun(did[u], did'[u])
  BY BegunSelf DEF KernelInv
<1>2. LogInv'
  BY <1>1, LogKept DEF RowsInv
<1>3. \A u \in Tids : SameRows(u)
  BY DEF SameRows, SameProcesses
<1>4. \A u \in Tids : Written(u)'
  BY <1>3, WrittenStays DEF RowsInv
<1>5. NewRows'
  BY NewRowsKept DEF RowsInv
<1>6. GoneRows'
  BY DEF RowsInv, GoneRows, SameProcesses
<1> QED
  BY <1>2, <1>4, <1>5, <1>6 DEF RowsInv

\* The answer to a tracee, and to nobody else, makes none unborn.
LEMMA TreatedLives ==
  ASSUME NEW k \in Tracee, NEW m \in Treated(k)
  PROVE  m.st = "unborn" => k.st = "unborn"
BY DEF Treated, Reaped, Resumed, Tracee

LEMMA MainRows ==
  ASSUME RowsInv, TInv, TInv', UNCHANGED <<did, cwd, dbProcs, dbRows>>,
         \A u \in Tids : tracee'[u] \in Treated(tracee[u]), \A u \in Tids : Carried(u),
         mpc' \in Looping => mpc \in Looping, mpc' \in Tracing => mpc \in Tracing /\ NoneReaped
  PROVE  RowsInv'
<1>1. SameProcesses
  BY DEF SameProcesses
<1>2. \A u \in Tids : tracee'[u].st = "unborn" => tracee[u].st = "unborn"
  BY TreatedLives DEF TInv, KernelInv
<1>3. mpc' \in Tracing => /\ mpc \in Tracing
                          /\ \A id \in DOMAIN dbProcs : LET u == dbProcs[id].tid IN
                                tracee'[u].st = "gone" => tracee[u].st = "gone" \/ dbRows[id] = did[u]
  BY RowTyped DEF TInv, NoneReaped
<1> QED
  BY <1>1, <1>2, <1>3, QuietRows DEF TInv

LEMMA StandsRows ==
  ASSUME RowsInv, TInv, TInv',
         UNCHANGED <<tracee, cwd, did, procs, groups, workers, toWorker, dbProcs, dbRows>>,
         mpc' \in Looping => mpc \in Looping, mpc' \in Live => mpc \in Live,
         mpc' \in Tracing => mpc \in Tracing
  PROVE  RowsInv'
<1>1. \A u \in Tids : Taken(u)' <=> Taken(u)
  BY SameTaken
<1>2. \A u \in Tids : Same(u)
  BY <1>1 DEF Same, Found, InUse
<1>3. \A u \in Tids : Carried(u)
  BY <1>2, SameCarried
<1>4. \A u \in Tids : tracee'[u] \in Treated(tracee[u])
  BY DEF Treated
<1>5. NoneReaped
  BY DEF NoneReaped
<1> QED
  BY <1>3, <1>4, <1>5, MainRows

\* The tracer has ended: only the rows that are there matter.
LEMMA EndedRows ==
  ASSUME RowsInv, TInv, TInv', UNCHANGED <<did, cwd, dbProcs, dbRows>>,
         \A u \in Tids : tracee'[u].st = "unborn" => tracee[u].st = "unborn",
         mpc' \in {"exit", "segv"}
  PROVE  RowsInv'
<1>1. mpc' \notin Looping /\ mpc' \notin Live /\ mpc' \notin Tracing
  BY DEF Looping, Live, Tracing
<1>2. SameProcesses
  BY DEF SameProcesses
<1>3. \A u \in Tids : ~ Followed(u)'
  BY <1>1 DEF Followed
<1>4. \A u \in Tids : Carried(u)
  BY <1>3 DEF Carried
<1> QED
  BY <1>1, <1>2, <1>4, QuietRows DEF TInv

\* A stop that is not handled owes nothing.
LEMMA OwesNothing ==
  ASSUME NEW k, k.ev \notin {"exec", "sysin", "sysout"}
  PROVE  Owes(k, FALSE) = "none"
BY DEF Owes, Unhandled

\* One slot of t changes, and t was not in the hands of its worker.
LEMMA OneSlotRows ==
  ASSUME Placed, RowsInv, TInv', NEW t \in Tids, Waited(t), mpc' \in Looping, ~ Taken(t),
         UNCHANGED <<did, cwd, groups, workers, toWorker, dbProcs, dbRows>>,
         NEW i \in Found(procs, t), NEW r, r.tid = t, r.status # "FREE", procs' = [procs EXCEPT ![i] = r],
         Registered(r) => Registered(procs[i]), r.identifier = procs[i].identifier,
         tracee' = [tracee EXCEPT ![t] = Resumed(Reaped(@))],
         tracee[t].ev \notin {"exit", "exec", "sysin", "sysout"}
  PROVE  RowsInv'
<1> USE DEF Placed, Stopping, Base
<1>0. i \in DOMAIN procs /\ procs[i].tid = t /\ procs[i].status # "FREE"
  BY DEF Found, InUse
<1>1. mpc \in Looping /\ mpc \in Live /\ mpc \in Tracing
  BY DEF Waited, Looping, Live, Tracing
<1>2. tracee[t] \in Tracee /\ tracee'[t] = Resumed(Reaped(tracee[t]))
      /\ \A u \in Tids : u # t => tracee'[u] = tracee[u]
  BY DEF TInv, KernelInv
<1>3. \A u \in Tids : Taken(u)' <=> Taken(u)
  BY SameTaken
<1>4. /\ \A u \in Tids : Found(procs, u)' = Found(procs, u)
      /\ Found(procs, t) = {i} /\ procs'[i] = r
      /\ \A u \in Tids : u # t => \A k \in Found(procs, u) : procs'[k] = procs[k]
  BY <1>0, SameSlot2 DEF TInv, TablesInv
<1>5. \A u \in Tids : u # t => Same(u)
  BY <1>2, <1>3, <1>4 DEF Same
<1>6. \A u \in Tids : u # t => Carried(u)
  BY <1>1, <1>5, SameCarried
<1>7. Owes(tracee'[t], Taken(t)') = Owes(tracee[t], Taken(t))
  <2>1. tracee'[t].ev = "none"
    BY <1>2, ReapedStays
  <2>2. Owes(tracee'[t], FALSE) = "none"
    BY <2>1, OwesNothing
  <2>3. Owes(tracee[t], FALSE) = "none"
    BY OwesNothing
  <2> QED
    BY <1>3, <2>2, <2>3 DEF Owes, Unhandled
<1>8. Carried(t)
  BY <1>1, <1>3, <1>4, <1>7 DEF Carried, Followed
<1>9. \A u \in Tids : tracee'[u] \in Treated(tracee[u])
  BY <1>2 DEF Treated
<1>10. NoneReaped
  BY StopReapsNone DEF Event
<1> QED
  BY <1>1, <1>6, <1>8, <1>9, <1>10, MainRows

LEMMA AttachedRows ==
  ASSUME Placed, PhaseInv, RowsInv, TInv', NEW t \in Tids, Attached(t)
  PROVE  RowsInv'
<1> USE DEF Placed, Stopping, Base, TInv
<1> DEFINE i == Find(procs, t)
           r == [procs[i] EXCEPT !.status = "ATTACHED"]
<1>1. /\ Waited(t) /\ Event(t) # "exit" /\ Found(procs, t) # {} /\ mpc' = mpc
      /\ UNCHANGED <<did, cwd, groups, workers, toWorker, dbProcs, dbRows>>
      /\ tracee' = [tracee EXCEPT ![t] = Resumed(Reaped(@))]
      /\ procs[i].status = "ALLOCATED" /\ procs' = [procs EXCEPT ![i] = r]
  BY DEF Attached, pipes, db
<1>2. i \in Found(procs, t) /\ i \in DOMAIN procs /\ procs[i] \in Slot(Tids) /\ procs[i].tid = t
      /\ i \in InUse(procs)
  BY <1>1, FindFinds DEF WellTyped, Found
<1>3. mpc \in Looping /\ tracee[t].ev # "none" /\ t \in Children /\ ~ Taken(t)
  BY <1>1, Reporter
<1>4. ~ Attachment(t)
  BY <1>1, <1>2 DEF Attachment, TablesInv, UniqueTids, InUse
<1>5. tracee[t].ev = "sigstop"
  BY <1>3, <1>4 DEF CreatorsInv, Place, Newcomer
<1>6. /\ r.tid = t /\ r.status = "ATTACHED" /\ r.identifier = procs[i].identifier
      /\ Registered(procs[i])
  BY <1>1, <1>2 DEF Slot, Registered
<1> HIDE DEF r, i
<1> QED
  BY <1>1, <1>2, <1>3, <1>5, <1>6, OneSlotRows

LEMMA SignalRows ==
  ASSUME Placed, PhaseInv, RowsInv, TInv', NEW t \in Tids, SignalForwarded(t)
  PROVE  RowsInv'
<1> USE DEF Placed, Stopping, Base, TInv
<1> DEFINE i == Find(procs, t)
<1>1. /\ Stop(t, {"signal", "sigstop"}) /\ UNCHANGED <<procs, workers, toWorker>>
      /\ mpc' = "poll" /\ UNCHANGED <<did, cwd, groups, dbProcs, dbRows>>
      /\ tracee' = [tracee EXCEPT ![t] = Resumed(Reaped(@))]
  BY DEF SignalForwarded, tables, pipes, db
<1>2. /\ Waited(t) /\ tracee[t].ev \in {"signal", "sigstop"} /\ i \in DOMAIN procs /\ i \in InUse(procs)
      /\ procs[i].status = "ATTACHED" /\ procs[i].tid = t
  BY <1>1, StopSlot DEF Stop, Event
<1>3. i \in Found(procs, t)
  BY <1>2 DEF Found
<1>4. ~ Taken(t)
  BY <1>2, Reporter
<1>5. procs' = [procs EXCEPT ![i] = procs[i]]
  BY <1>1 DEF WellTyped
<1>6. mpc' \in Looping
  BY <1>1 DEF Looping
<1> HIDE DEF i
<1> QED
  BY <1>1, <1>2, <1>3, <1>4, <1>5, <1>6, OneSlotRows

LEMMA SyscallStopRows ==
  ASSUME Placed, PhaseInv, RowsInv, TInv', NEW t \in Tids, SyscallStop(t)
  PROVE  RowsInv'
<1> USE DEF Placed, Stopping, Base
<1> DEFINE i == Find(procs, t)
           r == WithRegisters(procs[i], tracee[t])
<1>1. /\ Waited(t) /\ tracee[t].ev \in {"sysin", "sysout"}
      /\ i \in Found(procs, t) /\ procs[i] \in Slot(Tids) /\ procs[i].status = "ATTACHED"
      /\ procs' = [procs EXCEPT ![i] = r]
      /\ tracee' = [tracee EXCEPT ![t] = Reaped(@)] /\ mpc' = "poll"
      /\ UNCHANGED <<cwd, did, groups, dbProcs, dbRows>>
      /\ Taken(t)' /\ workers'[t].pc \in {"idle", "resume"}
      /\ \A u \in Tids : u # t => workers'[u] = workers[u] /\ (Taken(u)' <=> Taken(u))
  BY SyscallStopDoes
<1>2. mpc \in Looping /\ mpc \in Live /\ mpc \in Tracing /\ ~ Taken(t) /\ workers[t].pc # "exited"
  BY <1>1, Reporter DEF Tracing, Taken
<1>3. i \in DOMAIN procs /\ procs[i].tid = t
  BY <1>1 DEF Found, InUse
<1> HIDE DEF i
<1>4. r.tid = t /\ r.status = "ATTACHED" /\ r.identifier = procs[i].identifier
  BY <1>1, <1>3 DEF WithRegisters, Slot
<1> HIDE DEF r
<1>5. tracee[t] \in Tracee /\ tracee'[t] = Reaped(tracee[t])
      /\ \A u \in Tids : u # t => tracee'[u] = tracee[u]
  BY <1>1 DEF TInv, KernelInv
<1>6. /\ \A u \in Tids : Found(procs, u)' = Found(procs, u)
      /\ Found(procs, t) = {i} /\ procs'[i] = r
      /\ \A u \in Tids : u # t => \A k \in Found(procs, u) : procs'[k] = procs[k]
  BY <1>1, <1>3, <1>4, SameSlot2 DEF TInv, TablesInv
<1>7. \A u \in Tids : u # t => Same(u)
  BY <1>1, <1>5, <1>6 DEF Same
<1>8. \A u \in Tids : u # t => Carried(u)
  BY <1>1, <1>2, <1>7, SameCarried
<1>9. Owes(tracee'[t], Taken(t)') = Owes(tracee[t], Taken(t))
  <2>1. tracee'[t].ev = "none" /\ tracee'[t].at = tracee[t].at /\ tracee'[t].call = tracee[t].call
        /\ tracee'[t].ret = tracee[t].ret
    BY <1>5, ReapedStays
  <2> QED
    BY <1>1, <2>1 DEF Owes, Unhandled
<1>10. Carried(t)
  BY <1>1, <1>2, <1>4, <1>6, <1>9 DEF Carried, Followed, Registered
<1>11. \A u \in Tids : tracee'[u] \in Treated(tracee[u])
  BY <1>5 DEF Treated
<1>12. NoneReaped
  BY <1>1, StopReapsNone DEF Event
<1> QED
  BY <1>1, <1>2, <1>8, <1>10, <1>11, <1>12, MainRows

\* An UNKNOWN slot has no row.
LEMMA AppearsRows ==
  ASSUME Placed, PhaseInv, RowsInv, TInv', NEW t \in Tids, Appears(t)
  PROVE  RowsInv'
<1> USE DEF Placed, Stopping, Base
<1> DEFINE ps == WithRoom(procs)
           j == EmptySlot(procs)
           s == [ps[j] EXCEPT !.status = "UNKNOWN", !.flags = {}, !.tid = t, !.tg = NoGroup,
                              !.in_syscall = FALSE]
<1>0. /\ Waited(t) /\ Event(t) # "exit" /\ Found(procs, t) = {}
      /\ procs' = [ps EXCEPT ![j] = s]
      /\ tracee' = [tracee EXCEPT ![t] = Reaped(@)]
      /\ UNCHANGED <<did, cwd, groups, mpc, workers, toWorker, dbProcs, dbRows>>
  BY DEF Appears, pipes, db
<1>1. /\ mpc \in Looping /\ tracee[t] \in Tracee
  BY <1>0, Reporter
<1>2. /\ ps \in Seq(Slot(Tids)) /\ DOMAIN procs \subseteq DOMAIN ps
      /\ j \in DOMAIN ps /\ ps[j].status = "FREE"
      /\ \A i \in DOMAIN procs : ps[i] = procs[i]
      /\ \A i \in DOMAIN ps : i \notin DOMAIN procs => ps[i] = FreeSlot
  BY RoomInTable DEF TInv
<1>3. s.status = "UNKNOWN" /\ s.tid = t
  <2>1. ps[j] \in Slot(Tids)
    BY <1>2
  <2> HIDE DEF ps, j
  <2> QED
    BY <2>1 DEF Slot
<1> HIDE DEF ps, j, s
<1>4. DOMAIN procs' = DOMAIN ps /\ procs'[j] = s /\ \A i \in DOMAIN ps : i # j => procs'[i] = ps[i]
  BY <1>0, <1>2
<1>5. FreeSlot.status = "FREE"
  BY DEF FreeSlot
<1>6. \A k \in DOMAIN procs' : Registered(procs'[k]) =>
         k \in InUse(procs) /\ procs'[k] = procs[k]
  BY <1>2, <1>3, <1>4, <1>5 DEF InUse, Registered
<1>7. \A u \in Tids : Taken(u)' <=> Taken(u)
  BY <1>0, SameTaken
<1>8. tracee'[t] = Reaped(tracee[t]) /\ \A u \in Tids : u # t => tracee'[u] = tracee[u]
  BY <1>0 DEF TInv, KernelInv
<1>9. \A u \in Tids : \A k \in Found(procs, u)' : Registered(procs'[k]) =>
         k \in Found(procs, u) /\ Registered(procs[k]) /\ procs'[k] = procs[k] /\ u # t
  BY <1>0, <1>6 DEF Found, InUse
<1>10. \A u \in Tids : Followed(u)' => Followed(u)
  BY <1>0, <1>1 DEF Followed
<1>11. ASSUME NEW u \in Tids PROVE Carried(u)
  <2>1. u # t => Owes(tracee'[u], Taken(u)') = Owes(tracee[u], Taken(u))
    BY <1>7, <1>8 DEF Owes, Unhandled
  <2> QED
    BY <1>0, <1>9, <1>10, <2>1 DEF Carried
<1>12. \A u \in Tids : tracee'[u] \in Treated(tracee[u])
  BY <1>8 DEF Treated
<1>13. NoneReaped
  BY <1>0, StopReapsNone DEF Event
<1>14. mpc \in Tracing
  BY <1>1 DEF Tracing
<1> QED
  BY <1>0, <1>1, <1>11, <1>12, <1>13, <1>14, MainRows

LEMMA AddExitKeeps ==
  ASSUME WellTyped, NEW id, NEW why \in {"exited", "killed", "execed"}, AddExit(id, why)
  PROVE  SameProcesses
<1>1. CASE id \notin DOMAIN dbProcs
  BY <1>1 DEF AddExit, SameProcesses
<1>2. CASE id \in DOMAIN dbProcs
  <2> DEFINE r == [dbProcs[id] EXCEPT !.exit = why]
  <2>1. dbProcs[id] \in ProcRow
    BY <1>2, RowTyped
  <2>2. r.tid = dbProcs[id].tid /\ r.parent = dbProcs[id].parent
    BY <2>1 DEF ProcRow
  <2>3. dbProcs' = [dbProcs EXCEPT ![id] = r]
    BY <1>2 DEF AddExit
  <2> HIDE DEF r
  <2> QED
    BY <1>2, <2>2, <2>3 DEF SameProcesses, WellTyped
<1> QED
  BY <1>1, <1>2

\* A process that is gone has all its rows: its last call was handled before it ended.
LEMMA ExitRows ==
  ASSUME Placed, PhaseInv, LedgerInv, RowsInv, TInv', NEW t \in Tids, ExitReported(t)
  PROVE  RowsInv'
<1> USE DEF Placed, Stopping, Base
<1> DEFINE i == Find(procs, t)
           r == [procs[i] EXCEPT !.status = "FREE", !.tg = NoGroup, !.execve_info = NoInfo]
<1>1. /\ Waited(t) /\ tracee[t].ev = "exit" /\ tracee[t].st = "dead"
      /\ tracee' = [tracee EXCEPT ![t] = Reaped(@)]
      /\ UNCHANGED <<cwd, did, workers, toWorker, dbRows>>
      /\ i \in Found(procs, t) /\ Found(procs, t) = {i} /\ procs[i] \in Slot(Tids)
      /\ procs[i].status = "ATTACHED"
      /\ \/ /\ procs' = [procs EXCEPT ![i] = r]
            /\ groups' = DropThreadGroup(groups, t)
            /\ AddExit(procs[i].identifier, tracee[t].ret)
            /\ mpc' = AfterExit(procs')
         \/ mpc' = "failed" /\ UNCHANGED <<groups, dbProcs>>
  BY ExitDoes
<1>2. /\ mpc \in Looping /\ mpc \in Live /\ mpc \in Tracing /\ ~ Taken(t)
      /\ tracee[t] \in Tracee /\ i \in DOMAIN procs /\ procs[i].tid = t
  BY <1>1, Reporter DEF Tracing, Found, InUse
<1>3. tracee'[t] = Reaped(tracee[t]) /\ \A u \in Tids : u # t => tracee'[u] = tracee[u]
  BY <1>1 DEF TInv, KernelInv
<1>4. \A u \in Tids : tracee'[u] \in Treated(tracee[u])
  BY <1>3 DEF Treated
<1>5. r.status = "FREE"
  BY <1>1 DEF Slot
<1> HIDE DEF r, i
<1>6. SameProcesses
  <2>1. tracee[t].ret \in {"exited", "killed"}
    BY <1>1 DEF TInv, KernelInv
  <2>2. UNCHANGED dbProcs => SameProcesses
    BY DEF SameProcesses
  <2> QED
    BY <1>1, <2>1, <2>2, AddExitKeeps DEF TInv
<1>7. ASSUME NEW u \in Tids, u # t PROVE Carried(u)
  <2>1. Same(u)
    BY <1>7, ExitSlots
  <2>2. groups'[u].wd = groups[u].wd
    BY <1>1, <1>7 DEF DropThreadGroup, TInv, WellTyped, Groups
  <2> QED
    BY <1>1, <1>2, <2>1, <2>2, SameCarried
<1>8. Carried(t)
  <2>1. ~ Taken(t)'
    BY <1>1, <1>2, SameTaken
  <2>2. mpc' = "failed" => ~ Followed(t)'
    BY <2>1 DEF Followed, Looping
  <2>3. procs' = [procs EXCEPT ![i] = r] => Found(procs, t)' = {}
    BY <1>1, <1>2, <1>5 DEF Found, InUse, TInv, WellTyped
  <2> QED
    BY <1>1, <2>2, <2>3 DEF Carried
<1>9. \A id \in DOMAIN dbProcs : dbProcs[id].tid = t => dbRows[id] = did[t]
  <2>1. workers[t].pc # "exited" /\ Followed(t) /\ Registered(procs[i])
    BY <1>1, <1>2 DEF Taken, Followed, Registered
  <2>2. Rows(t)
    BY <2>1 DEF RowsInv, Written
  <2>3. Owes(tracee[t], Taken(t)) = "none"
    BY <1>1, <1>2, OwesNothing DEF Owes, Unhandled
  <2>4. LET id == procs[i].identifier IN
        id \in DOMAIN dbProcs /\ dbProcs[id].tid = t /\ dbRows[id] = did[t]
    BY <1>1, <2>1, <2>2, <2>3 DEF Rows, Synced
  <2> QED
    BY <2>4 DEF RowsInv, LogInv
<1>10. \A u \in Tids : Carried(u)
  BY <1>7, <1>8
<1>11. \A u \in Tids : tracee'[u].st = "unborn" => tracee[u].st = "unborn"
  BY <1>4, TreatedLives DEF TInv, KernelInv
<1>12. ASSUME NEW id \in DOMAIN dbProcs, tracee'[dbProcs[id].tid].st = "gone"
       PROVE  tracee[dbProcs[id].tid].st = "gone" \/ dbRows[id] = did[dbProcs[id].tid]
  BY <1>3, <1>9, <1>12, RowTyped DEF TInv
<1> QED
  BY <1>1, <1>2, <1>4, <1>6, <1>10, <1>11, <1>12, QuietRows DEF TInv

LEMMA ServeRows ==
  ASSUME Placed, PhaseInv, RowsInv, TInv', Serve
  PROVE  RowsInv'
<1> USE DEF Placed, Stopping, Base
<1>1. PICK w \in Tids :
           /\ mpc = "serve" /\ mpc' \in Looping
           /\ workers[w].pc \in {"peek", "resume"}
           /\ toTracer[w] # <<>> /\ toWorker[w] = <<>>
           /\ tracee' = IF workers[w].pc = "resume" /\ tracee[w].st = "stopped"
                        THEN [tracee EXCEPT ![w] = Resumed(@)] ELSE tracee
           /\ UNCHANGED <<procs, workers>>
           /\ \A u \in Tids : Pointed(u)' <=> Pointed(u)
  BY Served DEF TInv
<1>2. mpc \in Looping /\ mpc \in Live /\ mpc \in Tracing
  BY <1>1 DEF Looping, Live, Tracing
<1>3. \A u \in Tids : Taken(u)' <=> Taken(u)
  BY <1>1 DEF Taken
<1>4. UNCHANGED <<did, cwd, groups, dbProcs, dbRows>>
  BY DEF Serve, tables, db
<1>5. \A u \in Tids : u # w => tracee'[u] = tracee[u]
  BY <1>1 DEF TInv, KernelInv
<1>6. \/ tracee'[w] = tracee[w]
      \/ /\ tracee'[w] = Resumed(tracee[w]) /\ tracee[w].ev = "none" /\ tracee[w] \in Tracee
         /\ ~ Taken(w)
  <2> SUFFICES ASSUME tracee'[w] # tracee[w]
               PROVE  /\ tracee'[w] = Resumed(tracee[w]) /\ tracee[w].ev = "none" /\ tracee[w] \in Tracee
                      /\ ~ Taken(w)
    OBVIOUS
  <2>1. workers[w].pc = "resume" /\ tracee[w].st = "stopped" /\ tracee'[w] = Resumed(tracee[w])
    BY <1>1 DEF TInv, KernelInv
  <2>2. Busy(w) /\ ~ Taken(w)
    BY <1>1, <2>1 DEF Busy, InHand, Taken, Pointed
  <2>3. tracee[w].ev = "none"
    BY <1>2, <2>1, <2>2 DEF PipesInv, Pipes, Parked, Waits
  <2> QED
    BY <2>1, <2>2, <2>3 DEF TInv, KernelInv
<1>7. \A u \in Tids : Owes(tracee'[u], Taken(u)') = Owes(tracee[u], Taken(u))
  <2>1. \A u \in Tids : tracee'[u] = tracee[u] => Owes(tracee'[u], Taken(u)') = Owes(tracee[u], Taken(u))
    BY <1>3 DEF Owes, Unhandled
  <2>2. tracee'[w] # tracee[w] => Owes(tracee'[w], Taken(w)') = Owes(tracee[w], Taken(w))
    <3> SUFFICES ASSUME tracee'[w] # tracee[w] PROVE Owes(tracee'[w], Taken(w)') = Owes(tracee[w], Taken(w))
      OBVIOUS
    <3>1. tracee'[w].ev = "none"
      BY <1>6, ReapedStays
    <3>2. Owes(tracee'[w], FALSE) = "none" /\ Owes(tracee[w], FALSE) = "none"
      BY <1>6, <3>1, OwesNothing
    <3> QED
      BY <1>3, <1>6, <3>2 DEF Owes, Unhandled
  <2> QED
    BY <1>5, <2>1, <2>2
<1>8. ASSUME NEW u \in Tids PROVE Carried(u)
  BY <1>1, <1>2, <1>4, <1>7 DEF Carried, Followed, Found, InUse
<1>9. \A u \in Tids : tracee'[u] \in Treated(tracee[u])
  BY <1>5, <1>6 DEF Treated
<1>10. NoneReaped
  BY <1>5, <1>6 DEF NoneReaped, Resumed, Tracee
<1> QED
  BY <1>1, <1>2, <1>4, <1>8, <1>9, <1>10, MainRows

\* A worker that records nothing, or gives up.
LEMMA LeavesRows ==
  ASSUME Placed, PhaseInv, RowsInv, TInv', NEW t \in Tids, WorkerStep(t), mpc' # "segv",
         LeavesInHand(t) \/ FailsToInsert(t)
  PROVE  RowsInv'
<1> USE DEF Placed, Stopping, Base
<1>1. /\ mpc' = mpc /\ UNCHANGED <<tracee, cwd, did, dbProcs, procs, dbRows>>
      /\ \A u \in Tids : u # t => /\ workers'[u] = workers[u] /\ (Taken(u)' <=> Taken(u))
                                  /\ groups'[u] = groups[u]
  BY WorkerDoes DEF kernelVars, LeavesInHand, FailsToInsert
<1>2. ASSUME NEW u \in Tids, u # t PROVE Carried(u)
  <2>1. Same(u)
    BY <1>1, <1>2 DEF Same, Found, InUse
  <2> QED
    BY <1>1, <1>2, <2>1, SameCarried
<1>3. Carried(t)
  <2>1. CASE FailsToInsert(t)
    BY <2>1 DEF FailsToInsert, Carried
  <2>2. CASE LeavesInHand(t)
    <3>1. workers[t].pc # "exited"
      BY DEF WorkerStep, StopHandled, StopPeeks, BadPointer, PeekAgain, PathRead, InsertFails, Answered, Receives
    <3> QED
      BY <1>1, <2>2, <3>1 DEF LeavesInHand, Carried, Followed, Found, InUse, Owes, Unhandled
  <2> QED
    BY <2>1, <2>2
<1>4. \A u \in Tids : tracee'[u] \in Treated(tracee[u])
  BY <1>1 DEF Treated
<1>5. NoneReaped
  BY <1>1 DEF NoneReaped
<1> QED
  BY <1>1, <1>2, <1>3, <1>4, <1>5, MainRows

\* The row of what t did last is written.
LEMMA RowWritten ==
  ASSUME RowsInv, TInv, TInv', UNCHANGED <<did, cwd, dbProcs>>, NEW t \in Tids,
         NEW id \in DOMAIN dbProcs, dbProcs[id].tid = t,
         NEW row, did[t] = Append(dbRows[id], row), dbRows' = [dbRows EXCEPT ![id] = Append(@, row)],
         Written(t)', \A u \in Tids : u # t => Carried(u),
         \A u \in Tids : tracee'[u] \in Treated(tracee[u]),
         mpc' \in Looping => mpc \in Looping, mpc' \in Tracing => mpc \in Tracing /\ NoneReaped
  PROVE  RowsInv'
<1>1. /\ DOMAIN dbRows = DOMAIN dbProcs /\ DOMAIN dbProcs = 1 .. Len(dbProcs) /\ Len(dbProcs) \in Nat
      /\ \A a \in DOMAIN dbProcs : dbRows[a] \in Seq(Row)
  BY RowsTyped DEF TInv, RowsInv
<1>2. /\ DOMAIN dbRows' = DOMAIN dbProcs /\ Len(dbRows') = Len(dbProcs')
      /\ dbRows'[id] = did[t]
      /\ \A a \in DOMAIN dbProcs : a # id => dbRows'[a] = dbRows[a]
  <2>1. /\ DOMAIN dbRows' = DOMAIN dbProcs /\ dbRows'[id] = did[t]
        /\ \A a \in DOMAIN dbProcs : a # id => dbRows'[a] = dbRows[a]
    BY <1>1
  <2>2. dbRows' \in Seq(Seq(Row))
    BY DEF TInv, WellTyped
  <2>3. Len(dbRows') = Len(dbProcs)
    BY <1>1, <2>1, <2>2
  <2> QED
    BY <2>1, <2>3
<1>3. \A a \in DOMAIN dbProcs : a # id => dbProcs[a].tid # t
  BY DEF RowsInv, LogInv
<1>4. SameProcesses
  BY DEF SameProcesses
<1>5. LogInv'
  <2>1. \A a \in DOMAIN dbProcs' : Begun(dbRows'[a], did'[dbProcs'[a].tid])
    <3>1. Begun(did[t], did[t])
      BY BegunSelf DEF TInv, KernelInv
    <3> QED
      BY <1>2, <3>1 DEF RowsInv, LogInv
  <2>2. \A a \in DOMAIN dbProcs' : Parent(a)'
    BY DEF RowsInv, LogInv, Parent
  <2>3. \A a, b \in DOMAIN dbProcs' : dbProcs'[a].tid = dbProcs'[b].tid => a = b
    BY DEF RowsInv, LogInv
  <2> QED
    BY <1>2, <2>1, <2>2, <2>3 DEF LogInv
<1>6. ASSUME NEW u \in Tids PROVE Written(u)'
  <2>1. CASE u = t
    BY <2>1
  <2>2. CASE u # t
    <3>1. SameRows(u)
      BY <1>2, <1>3, <2>2 DEF SameRows
    <3> QED
      BY <2>2, <3>1, WrittenStays DEF RowsInv
  <2> QED
    BY <2>1, <2>2
<1>7. NewRows'
  BY <1>4, TreatedLives, NewRowsKept DEF TInv, KernelInv, RowsInv
<1>8. GoneRows'
  <2> SUFFICES ASSUME mpc' \in Tracing, NEW a \in DOMAIN dbProcs, tracee'[dbProcs[a].tid].st = "gone"
               PROVE  dbRows'[a] = did[dbProcs[a].tid]
    BY DEF GoneRows
  <2>1. dbProcs[a].tid \in Tids /\ mpc \in Tracing
    BY RowTyped DEF TInv
  <2> QED
    BY <1>2, <2>1 DEF RowsInv, GoneRows, NoneReaped
<1> QED
  BY <1>5, <1>6, <1>7, <1>8 DEF RowsInv

\* A worker records what its tracee has just done.
LEMMA OwedIsRecorded ==
  ASSUME NEW s \in Slot(Tids), NEW k, InPhase(s, k, TRUE), k.ev = "none"
  PROVE  /\ Owes(k, TRUE) \in {"none", "open", "chdir"}
         /\ Owes(k, TRUE) = "open" <=>
               "EXECD" \notin s.flags /\ PeekingHandler(s) = "open" /\ s.ret = "ok"
         /\ Owes(k, TRUE) = "chdir" <=> "EXECD" \notin s.flags /\ PeekingHandler(s) = "chdir"
         /\ Owes(k, FALSE) = "none"
<1>1. /\ s.in_syscall <=> k.at = "user"
      /\ s.call = k.call /\ k.at \in {"user", "call"}
      /\ s.in_syscall => s.ret = k.ret
      /\ "EXECD" \in s.flags => s.call = "execve"
  BY DEF InPhase, Inside, Unhandled
<1>2. s.in_syscall \in BOOLEAN
  BY DEF Slot
<1>3. /\ PeekingHandler(s) = "open" <=> s.in_syscall /\ s.call = "open"
      /\ PeekingHandler(s) = "chdir" <=> s.in_syscall /\ s.call = "chdir" /\ s.ret = "ok"
  BY <1>2 DEF PeekingHandler
<1>4. Owes(k, FALSE) = "none"
  BY OwesNothing
<1>5. Owes(k, TRUE) \in {"none", "exec", "open", "chdir"}
  BY OwesOf
<1>6. Owes(k, TRUE) # "exec"
  BY OwesOf
<1>7. \A c \in {"open", "chdir"} : Owes(k, TRUE) = c <=> k.at = "user" /\ k.ret = "ok" /\ k.call = c
  BY OwesOf DEF Unhandled
<1> QED
  BY <1>1, <1>3, <1>4, <1>5, <1>6, <1>7

LEMMA EndsStopRows ==
  ASSUME Placed, PhaseInv, RowsInv, TInv', NEW t \in Tids, WorkerStep(t), mpc' # "segv", EndsStop(t)
  PROVE  RowsInv'
<1> USE DEF Placed, Stopping, Base
<1>1. /\ mpc \in Live /\ mpc' = mpc /\ UNCHANGED <<tracee, cwd, did, dbProcs>>
      /\ \A u \in Tids : u # t => workers'[u] = workers[u] /\ (Taken(u)' <=> Taken(u))
      /\ Taken(t) /\ ~ Taken(t)' /\ workers'[t].pc = "resume"
  BY WorkerDoes DEF kernelVars, EndsStop
<1>2. PICK i, r :
           /\ i \in Found(procs, t)
           /\ procs' = [procs EXCEPT ![i] = r] /\ SameSlot(r, procs[i]) /\ Records(t, i)
  BY DEF EndsStop
<1>3. i \in DOMAIN procs /\ procs[i].tid = t /\ procs[i].status # "FREE" /\ procs[i] \in Slot(Tids)
      /\ r.tid = t /\ r.status = procs[i].status /\ r.identifier = procs[i].identifier
  BY <1>2 DEF Found, InUse, SameSlot, TInv, WellTyped
<1>4. /\ \A u \in Tids : Found(procs, u)' = Found(procs, u)
      /\ Found(procs, t) = {i} /\ procs'[i] = r
      /\ \A u \in Tids : u # t => \A k \in Found(procs, u) : procs'[k] = procs[k]
  BY <1>2, <1>3, SameSlot2 DEF TInv, TablesInv
<1>5. \A u \in Tids : u # t => Same(u)
  BY <1>1, <1>4 DEF Same
<1>6. Waits(tracee[t]) /\ Followed(t) /\ InPhase(procs[i], tracee[t], TRUE)
  <2>1. Waits(tracee[t]) /\ Followed(t)
    BY <1>1, TakenStops DEF Followed
  <2>2. InPhase(procs[i], tracee[t], Taken(t))
    BY <1>2, <2>1 DEF PhaseInv, Fit
  <2> QED
    BY <1>1, <2>1, <2>2 DEF InPhase, Inside, Unhandled
<1>7. workers[t].pc # "exited"
  BY DEF WorkerStep, StopHandled, StopPeeks, BadPointer, PeekAgain, PathRead, InsertFails, Answered, Receives
<1> DEFINE s == procs[i]
           k == tracee[t]
           id == s.identifier
<1>8. /\ Owes(k, TRUE) \in {"none", "open", "chdir"}
      /\ Owes(k, TRUE) = "open" <=>
               "EXECD" \notin s.flags /\ PeekingHandler(s) = "open" /\ s.ret = "ok"
      /\ Owes(k, TRUE) = "chdir" <=> "EXECD" \notin s.flags /\ PeekingHandler(s) = "chdir"
      /\ Owes(k, FALSE) = "none"
  BY <1>3, <1>6, OwedIsRecorded DEF Waits
<1>9. Owes(k, Taken(t)) = Owes(k, TRUE) /\ Owes(k, Taken(t)') = "none"
  BY <1>1, <1>8 DEF Owes, Unhandled
<1>10. Registered(s) => /\ id \in DOMAIN dbProcs /\ dbProcs[id].tid = t
                        /\ Synced(dbRows[id], did[t], groups[t].wd, cwd[t], Owes(k, TRUE), t)
  BY <1>2, <1>6, <1>7, <1>9 DEF RowsInv, Written, Rows
<1>11. \A u \in Tids : tracee'[u] \in Treated(tracee[u])
  BY <1>1 DEF Treated
<1>12. NoneReaped
  BY <1>1 DEF NoneReaped
<1>13. groups \in [Tids -> Groups] /\ DOMAIN dbRows = DOMAIN dbProcs
  BY RowsTyped DEF TInv, WellTyped, RowsInv
<1>14. ASSUME NEW row, Registered(s), AddRow(id, row), did[t] = Append(dbRows[id], row),
              \A u \in Tids : u # t => groups'[u].wd = groups[u].wd,
              groups'[t].wd = cwd[t]
       PROVE  RowsInv'
  <2>1. dbRows' = [dbRows EXCEPT ![id] = Append(@, row)]
    BY <1>10, <1>13, <1>14 DEF AddRow
  <2>2. \A u \in Tids : u # t => Carried(u)
    BY <1>1, <1>5, <1>14, SameCarried
  <2>3. Written(t)'
    <3> SUFFICES ASSUME NEW m \in Found(procs, t)', Registered(procs'[m])
                 PROVE  LET n == procs'[m].identifier IN
                        /\ n \in DOMAIN dbProcs' /\ dbProcs'[n].tid = t
                        /\ Synced(dbRows'[n], did'[t], groups'[t].wd, cwd'[t], Owes(tracee'[t], Taken(t)'), t)
      BY DEF Written, Rows, Synced, Owes, Unhandled
    <3>1. procs'[m].identifier = id
      BY <1>3, <1>4
    <3>2. dbRows'[id] = did[t] /\ tracee'[t] = k
      BY <1>1, <1>10, <1>13, <1>14, <2>1
    <3> HIDE DEF id, k
    <3>3. Synced(dbRows'[id], did'[t], groups'[t].wd, cwd'[t], "none", t)
      BY <1>1, <1>14, <3>2 DEF Synced
    <3> QED
      BY <1>1, <1>9, <1>10, <1>14, <3>1, <3>2, <3>3
  <2> HIDE DEF id
  <2> QED
    BY <1>1, <1>10, <1>11, <1>12, <1>14, <2>1, <2>2, <2>3, RowWritten
<1>15. CASE Owes(k, TRUE) = "none"
  <2>1. UNCHANGED <<groups, dbRows>>
    BY <1>2, <1>8, <1>15 DEF Records
  <2>2. \A u \in Tids : u # t => Carried(u)
    BY <1>1, <1>5, <2>1, SameCarried
  <2>3. Carried(t)
    BY <1>1, <1>3, <1>4, <1>6, <1>7, <1>9, <1>15, <2>1 DEF Carried, Registered
  <2> QED
    BY <1>1, <1>11, <1>12, <2>1, <2>2, <2>3, MainRows
<1>16. CASE Owes(k, TRUE) = "open"
  <2>1. AddRow(id, DbRow("open", groups[t].wd, t)) /\ UNCHANGED groups /\ Registered(s)
    BY <1>2, <1>8, <1>16 DEF Records
  <2>2. did[t] = Append(dbRows[id], DbRow("open", groups[t].wd, t)) /\ cwd[t] = groups[t].wd
    BY <1>10, <1>16, <2>1 DEF Synced
  <2> QED
    BY <1>14, <2>1, <2>2
<1>17. CASE Owes(k, TRUE) = "chdir"
  <2>1. /\ AddRow(id, DbRow("wd", groups[t].wd + 1, t)) /\ Registered(s)
        /\ groups' = [groups EXCEPT ![t].wd = @ + 1]
    BY <1>2, <1>8, <1>17 DEF Records
  <2>2. did[t] = Append(dbRows[id], DbRow("wd", groups[t].wd + 1, t)) /\ cwd[t] = groups[t].wd + 1
    BY <1>10, <1>17, <2>1 DEF Synced
  <2>3. groups'[t].wd = groups[t].wd + 1 /\ \A u \in Tids : u # t => groups'[u].wd = groups[u].wd
    BY <1>13, <2>1 DEF Groups
  <2> QED
    BY <1>14, <2>1, <2>2, <2>3
<1> QED
  BY <1>8, <1>15, <1>16, <1>17

LEMMA ExecRows ==
  ASSUME Placed, PhaseInv, RowsInv, TInv', NEW t \in Tids, ExecEvent(t)
  PROVE  RowsInv'
<1> USE DEF Placed, Stopping, Base
<1> DEFINE i == Find(procs, t)
           r == [procs[i] EXCEPT !.execve_info = NoInfo, !.flags = {"EXECD"}]
           id == procs[i].identifier
           row == DbRow("exec", groups[t].wd, t)
<1>1. /\ Waited(t) /\ tracee[t].ev = "exec"
      /\ i \in Found(procs, t) /\ procs[i] \in Slot(Tids) /\ procs[i].status = "ATTACHED"
      /\ procs' = [procs EXCEPT ![i] = r]
      /\ UNCHANGED <<cwd, did, groups, workers, toWorker, dbProcs>>
      /\ \/ /\ mpc' = "poll" /\ tracee' = [tracee EXCEPT ![t] = Resumed(Reaped(@))]
            /\ AddRow(id, row)
         \/ /\ mpc' = "failed" /\ tracee' = [tracee EXCEPT ![t] = Reaped(@)]
            /\ UNCHANGED dbRows
  BY ExecDoes
<1>2. /\ mpc \in Looping /\ mpc \in Live /\ mpc \in Tracing /\ ~ Taken(t)
      /\ tracee[t] \in Tracee /\ i \in DOMAIN procs /\ procs[i].tid = t
  BY <1>1, Reporter DEF Tracing, Found, InUse
<1>3. /\ r.tid = t /\ r.status = "ATTACHED" /\ r.identifier = id
  BY <1>1, <1>2 DEF Slot
<1>4. /\ \A u \in Tids : u # t => tracee'[u] = tracee[u]
      /\ tracee'[t] \in {Reaped(tracee[t]), Resumed(Reaped(tracee[t]))}
  BY <1>1 DEF TInv, KernelInv
<1> HIDE DEF r, i
<1>5. /\ \A u \in Tids : Found(procs, u)' = Found(procs, u)
      /\ Found(procs, t) = {i} /\ procs'[i] = r
      /\ \A u \in Tids : u # t => \A k \in Found(procs, u) : procs'[k] = procs[k]
  BY <1>1, <1>2, <1>3, SameSlot2 DEF TInv, TablesInv
<1>6. \A u \in Tids : Taken(u)' <=> Taken(u)
  BY <1>1, SameTaken
<1>7. ASSUME NEW u \in Tids, u # t PROVE Carried(u)
  <2>1. Same(u)
    BY <1>1, <1>4, <1>5, <1>6, <1>7 DEF Same
  <2> QED
    BY <1>1, <1>2, <1>7, <2>1, SameCarried
<1>8. \A u \in Tids : tracee'[u] \in Treated(tracee[u])
  BY <1>4 DEF Treated
<1>9. CASE mpc' = "failed" /\ UNCHANGED dbRows
  <2>1. mpc' \notin Looping /\ mpc' \notin Tracing
    BY <1>9 DEF Looping, Tracing
  <2>2. Carried(t)
    BY <1>2, <1>6, <2>1 DEF Carried, Followed
  <2> QED
    BY <1>1, <1>7, <1>8, <1>9, <2>1, <2>2, MainRows
<1>10. CASE mpc' = "poll" /\ tracee' = [tracee EXCEPT ![t] = Resumed(Reaped(@))] /\ AddRow(id, row)
  <2>1. Registered(procs[i]) /\ Followed(t) /\ workers[t].pc # "exited"
    BY <1>1, <1>2 DEF Registered, Followed, Taken
  <2>2. /\ id \in DOMAIN dbProcs /\ dbProcs[id].tid = t
        /\ Synced(dbRows[id], did[t], groups[t].wd, cwd[t], Owes(tracee[t], Taken(t)), t)
    BY <1>1, <2>1 DEF RowsInv, Written, Rows
  <2>3. Owes(tracee[t], Taken(t)) = "exec"
    BY <1>1, OwesOf
  <2>4. did[t] = Append(dbRows[id], row) /\ cwd[t] = groups[t].wd
    BY <2>2, <2>3 DEF Synced
  <2>5. dbRows' = [dbRows EXCEPT ![id] = Append(@, row)]
    BY <1>10, <2>2, RowsTyped DEF AddRow, TInv, RowsInv
  <2>6. Owes(tracee'[t], Taken(t)') = "none"
    <3>1. tracee'[t] = Resumed(Reaped(tracee[t]))
      BY <1>10 DEF TInv, KernelInv
    <3>2. tracee'[t].ev = "none"
      BY <1>2, <3>1, ReapedStays
    <3> QED
      BY <1>2, <1>6, <3>2, OwesNothing DEF Owes, Unhandled
  <2> HIDE DEF row, id
  <2>7. dbRows'[id] = did[t]
    BY <2>2, <2>4, <2>5, RowsTyped DEF TInv, RowsInv
  <2>8. Written(t)'
    <3> SUFFICES ASSUME NEW m \in Found(procs, t)', Registered(procs'[m])
                 PROVE  LET n == procs'[m].identifier IN
                        /\ n \in DOMAIN dbProcs' /\ dbProcs'[n].tid = t
                        /\ Synced(dbRows'[n], did'[t], groups'[t].wd, cwd'[t], Owes(tracee'[t], Taken(t)'), t)
      BY DEF Written, Rows, Synced, Owes, Unhandled
    <3>1. procs'[m].identifier = id
      BY <1>3, <1>5
    <3>2. Synced(dbRows'[id], did'[t], groups'[t].wd, cwd'[t], "none", t)
      BY <1>1, <2>4, <2>7 DEF Synced
    <3> QED
      BY <1>1, <2>2, <2>6, <3>1, <3>2
  <2>9. NoneReaped
    BY <1>1, <1>10, StopReapsNone DEF Event
  <2> QED
    BY <1>1, <1>2, <1>7, <1>8, <2>2, <2>4, <2>5, <2>8, <2>9, RowWritten
<1> QED
  BY <1>1, <1>9, <1>10

\* The row of a child is that of its parent's directory when it was forked.
LEMMA ForkRows ==
  ASSUME Placed, PhaseInv, RowsInv, TInv', NEW t \in Tids, ForkEvent(t)
  PROVE  RowsInv'
<1> USE DEF Placed, Stopping, Base
<1> DEFINE i == Find(procs, t)
           n == Len(dbProcs) + 1
           up == procs[i].identifier
<1>1. /\ Waited(t) /\ Event(t) = "spawn" /\ ~ UNCHANGED <<tracee, tables>>
      /\ i \in Found(procs, t) /\ procs[i] \in Slot(Tids) /\ procs[i].status = "ATTACHED" /\ procs[i].tg = t
      /\ groups' = NewThreadGroup(groups, tracee[t].child, groups[t].wd) /\ tracee[t].child \in Tids
      /\ UNCHANGED <<cwd, did, workers>>
      /\ mpc' = "poll" \/ (mpc' = "failed" /\ UNCHANGED <<dbProcs, dbRows>>)
  BY ForkDoes
<1>2. Stop(t, {"spawn"})
  BY DEF ForkEvent
<1>3. PICK c \in Tids, j \in DOMAIN procs' : ForkTakes(t, c, j) /\ ForkFills(t, c, j)
  BY <1>1, <1>2, ForkWrites DEF TInv
<1>4. c = tracee[t].child /\ c # t
  BY <1>3 DEF ForkTakes
<1>5. /\ \A u \in Tids : u # t /\ u # c => Same(u)
      /\ Found(procs, t) = {i} /\ Found(procs, t)' = {i} /\ Found(procs, c)' = {j}
      /\ ~ Taken(t) /\ ~ Taken(t)' /\ ~ Taken(c)'
      /\ tracee'[t] \in {Reaped(tracee[t]), Resumed(Reaped(tracee[t]))}
      /\ tracee'[c].ev \in {"none", "sigstop"}
  BY <1>3, ForkSlots
<1>6. /\ mpc \in Looping /\ mpc \in Live /\ mpc \in Tracing
      /\ tracee[t] \in Tracee /\ tracee[c] \in Tracee /\ i \in DOMAIN procs /\ procs[i].tid = t
  BY <1>1, Reporter DEF Tracing, Found, InUse, TInv, KernelInv
<1>7. /\ \A u \in Tids : u # t /\ u # c => tracee'[u] = tracee[u]
      /\ tracee'[c] = tracee[c] \/ tracee'[c] = Resumed(tracee[c])
  BY <1>3 DEF ForkTakes
<1>8. \A u \in Tids : tracee'[u] \in Treated(tracee[u])
  BY <1>5, <1>7 DEF Treated
<1>9. c \in Children
  BY <1>1, <1>4, ForkChild
<1>10. NoneReaped /\ tracee'[c].st # "gone"
  <2>1. tracee[t].st = "stopped" /\ tracee'[t].st # "gone"
    <3>1. tracee[t].st = "stopped" /\ Waits(Reaped(tracee[t])) /\ Resumed(Reaped(tracee[t])).st = "running"
      BY <1>1, StopTaken DEF TInv
    <3> QED
      BY <1>5, <3>1 DEF Waits
  <2>2. tracee[c].st # "gone" /\ tracee'[c].st # "gone"
    BY <1>6, <1>7, <1>9 DEF Children, Resumed, Tracee
  <2> QED
    BY <1>7, <2>1, <2>2 DEF NoneReaped
<1>11. groups'[c].wd = groups[t].wd /\ \A u \in Tids : u # c => groups'[u].wd = groups[u].wd
  BY <1>1, <1>4 DEF NewThreadGroup, TInv, WellTyped
<1>12. \A u \in Tids : u # t /\ u # c => Carried(u)
  BY <1>1, <1>5, <1>6, <1>11, SameCarried
<1>13. CASE mpc' = "failed" /\ UNCHANGED <<dbProcs, dbRows>>
  <2>1. mpc' \notin Looping /\ mpc' \notin Tracing
    BY <1>13 DEF Looping, Tracing
  <2>2. Carried(t) /\ Carried(c)
    BY <1>5, <2>1 DEF Carried, Followed
  <2> QED
    BY <1>1, <1>8, <1>12, <1>13, <2>1, <2>2, MainRows
<1>14. CASE mpc' = "poll"
  <2>1. mpc' \in Looping
    BY <1>14 DEF Looping
  <2>2. /\ dbProcs' = Append(dbProcs, [tid |-> c, exit |-> "none", parent |-> up])
        /\ dbRows' = Append(dbRows, <<DbRow("wd", groups[t].wd, t)>>)
    BY <1>1, <1>4, <2>1, ForkRow DEF TInv
  <2>3. /\ Len(dbProcs) \in Nat /\ DOMAIN dbProcs = 1 .. Len(dbProcs)
        /\ DOMAIN dbRows = DOMAIN dbProcs /\ Len(dbRows) = Len(dbProcs)
        /\ \A id \in DOMAIN dbProcs : dbRows[id] \in Seq(Row)
    BY RowsTyped DEF TInv, RowsInv, LogInv
  <2> HIDE DEF i, up
  <2>4. /\ DOMAIN dbProcs' = DOMAIN dbProcs \cup {n} /\ n \notin DOMAIN dbProcs
        /\ Len(dbProcs') = n /\ Len(dbRows') = n
        /\ \A id \in DOMAIN dbProcs : dbProcs'[id] = dbProcs[id] /\ dbRows'[id] = dbRows[id]
        /\ dbProcs'[n].tid = c /\ dbProcs'[n].parent = up
        /\ dbRows'[n] = <<DbRow("wd", groups[t].wd, t)>>
    <3>1. /\ DOMAIN dbProcs' = DOMAIN dbProcs \cup {n} /\ n \notin DOMAIN dbProcs
          /\ Len(dbProcs') = n
          /\ \A id \in DOMAIN dbProcs : dbProcs'[id] = dbProcs[id]
          /\ dbProcs'[n].tid = c /\ dbProcs'[n].parent = up
      BY <2>2, <2>3 DEF TInv, WellTyped
    <3>2. /\ Len(dbRows') = n /\ dbRows'[n] = <<DbRow("wd", groups[t].wd, t)>>
          /\ \A id \in DOMAIN dbProcs : dbRows'[id] = dbRows[id]
      <4>1. dbRows \in Seq(Seq(Row))
        BY DEF TInv, WellTyped
      <4> DEFINE e == <<DbRow("wd", groups[t].wd, t)>>
      <4>2. dbRows' = Append(dbRows, e)
        BY <2>2
      <4> HIDE DEF e
      <4>3. /\ Len(dbRows') = n /\ dbRows'[n] = e
            /\ \A id \in DOMAIN dbProcs : dbRows'[id] = dbRows[id]
        BY <2>3, <4>1, <4>2
      <4> QED
        BY <4>3 DEF e
    <3> QED
      BY <3>1, <3>2
  <2>5. Newborn(c, t)
    BY <1>1, <1>4, <1>6 DEF RowsInv, NewRows, Spawning, Event
  <2>6. /\ up \in DOMAIN dbProcs /\ dbProcs[up].tid = t
        /\ dbRows[up] = did[t] /\ groups[t].wd = cwd[t]
    <3>1. Registered(procs[i]) /\ Followed(t) /\ workers[t].pc # "exited"
      BY <1>1, <1>5, <1>6 DEF Registered, Followed, Taken
    <3>2. Owes(tracee[t], Taken(t)) = "none"
      BY <1>1, <1>5, OwesNothing DEF Owes, Unhandled, Event
    <3> QED
      BY <1>1, <3>1, <3>2 DEF RowsInv, Written, Rows, Synced, up
  <2> HIDE DEF n
  <2>7. dbRows'[n] = did[c] /\ did'[c] = did[c] /\ groups'[c].wd = cwd'[c]
    BY <1>1, <1>11, <2>4, <2>5, <2>6 DEF Newborn
  <2>8. \A id \in DOMAIN dbProcs : dbProcs[id].tid # c
    BY <2>5 DEF Newborn, Ids
  <2>9. LogInv'
    <3>1. \A id \in DOMAIN dbProcs' : Begun(dbRows'[id], did'[dbProcs'[id].tid])
      <4>1. Begun(did[c], did[c])
        BY BegunSelf DEF TInv, KernelInv
      <4> QED
        BY <1>1, <2>4, <2>7, <4>1 DEF RowsInv, LogInv
    <3>2. ASSUME NEW id \in DOMAIN dbProcs' PROVE Parent(id)'
      <4>1. CASE id = n
        <5>1. Len(did'[c]) > 0 /\ did'[c][1].by = t /\ c # First
          BY <2>5, <2>7 DEF Newborn, DbRow
        <5>2. dbProcs'[up].tid = t /\ up \in DOMAIN dbProcs'
          BY <2>4, <2>6
        <5> QED
          BY <2>4, <4>1, <5>1, <5>2 DEF Parent
      <4>2. CASE id \in DOMAIN dbProcs
        <5>1. Parent(id)
          BY <4>2 DEF RowsInv, LogInv
        <5>2. dbProcs'[id] = dbProcs[id]
          BY <2>4, <4>2
        <5> QED
          BY <1>1, <2>4, <5>1, <5>2 DEF Parent
      <4> QED
        BY <2>4, <4>1, <4>2
    <3>3. \A a, b \in DOMAIN dbProcs' : dbProcs'[a].tid = dbProcs'[b].tid => a = b
      BY <2>4, <2>8 DEF RowsInv, LogInv
    <3> QED
      BY <2>4, <3>1, <3>2, <3>3 DEF LogInv
  <2>10. \A u \in Tids : SameRows(u)
    BY <2>4 DEF SameRows
  <2>11. procs'[i].identifier = up /\ Registered(procs[i]) /\ procs'[j].identifier = n
    <3>1. procs'[i] = [procs[i] EXCEPT !.flags = @ \ {"FORKING"}]
      BY <1>3 DEF ForkFills, i
    <3>2. procs'[j].identifier = Len(dbProcs) + 1
      <4>1. PICK b \in Slot(Tids) :
              procs'[j] = [b EXCEPT
                    !.status = IF Found(procs, c) # {} THEN "ATTACHED" ELSE "ALLOCATED",
                    !.flags = {}, !.tid = c, !.in_syscall = FALSE,
                    !.tg = IF procs[Find(procs, t)].call = "clone" THEN procs[Find(procs, t)].tg ELSE c,
                    !.identifier = Len(dbProcs) + 1]
        BY <1>3 DEF ForkFills
      <4> QED
        BY <4>1 DEF Slot
    <3> QED
      BY <1>1, <3>1, <3>2 DEF Slot, Registered, up, n
  <2>12. Carried(t)
    <3>1. Owes(tracee[t], Taken(t)) = "none"
      BY <1>1, <1>5, OwesNothing DEF Owes, Unhandled, Event
    <3>2. tracee'[t].ev = "none"
      BY <1>5, <1>6, ReapedStays
    <3>3. Owes(tracee'[t], Taken(t)') = "none"
      BY <1>5, <3>2, OwesNothing DEF Owes, Unhandled
    <3>4. Followed(t) /\ workers[t].pc # "exited"
      BY <1>5, <1>6 DEF Followed, Taken
    <3> QED
      BY <1>1, <1>4, <1>5, <1>11, <2>11, <3>1, <3>3, <3>4 DEF Carried, up
  <2>13. Written(c)'
    <3> SUFFICES ASSUME NEW m \in Found(procs, c)', Registered(procs'[m])
                 PROVE  LET id == procs'[m].identifier IN
                        /\ id \in DOMAIN dbProcs' /\ dbProcs'[id].tid = c
                        /\ Synced(dbRows'[id], did'[c], groups'[c].wd, cwd'[c], Owes(tracee'[c], Taken(c)'), c)
      BY DEF Written, Rows, Synced, Owes, Unhandled
    <3>1. procs'[m].identifier = n
      BY <1>5, <2>11
    <3>2. Owes(tracee'[c], Taken(c)') = "none"
      BY <1>5, OwesNothing DEF Owes, Unhandled
    <3>3. Synced(dbRows'[n], did'[c], groups'[c].wd, cwd'[c], "none", c)
      BY <2>7 DEF Synced
    <3> QED
      BY <2>4, <3>1, <3>2, <3>3
  <2>14. \A u \in Tids : Written(u)'
    BY <1>12, <2>10, <2>12, <2>13, WrittenStays DEF RowsInv
  <2>15. \A u \in Tids : u # c => Ids(u)' = Ids(u)
    BY <2>4 DEF Ids
  <2>16. NewRows'
    <3>1. \A u \in Tids : u # c /\ NotBegun(u) => NotBegun(u)'
      BY <1>1, <2>15 DEF NotBegun
    <3>2. \A u, p \in Tids : u # c /\ Newborn(u, p) => Newborn(u, p)'
      BY <1>1, <2>15 DEF Newborn, DbRow
    <3>3. First \notin Unborn' /\ \A u \in Unborn' : NotBegun(u)'
      <4>1. \A u \in Unborn' : u \in Unborn /\ u \in Tids /\ u # c
        BY <1>8, <1>9, TreatedLives DEF Unborn, Children, TInv, KernelInv
      <4> QED
        BY <3>1, <4>1 DEF RowsInv, NewRows
    <3>4. ASSUME NEW p \in Tids, NEW d \in Tids, Spawning(p)', tracee'[p].child = d
          PROVE  Newborn(d, p)'
      <4>1. tracee'[p] \in Treated(tracee[p]) /\ tracee[p] \in Tracee
        BY <1>8 DEF TInv, KernelInv
      <4>2. Spawning(p) /\ tracee[p].child = d
        BY <3>4, <4>1, TreatedSpawn DEF Spawning
      <4>3. p # t
        BY <1>5, <1>6, <3>4, ReapedStays DEF Spawning
      <4>4. d # c
        BY <1>1, <1>4, <4>2, <4>3 DEF TablesInv, NewGroups, Spawning, Event
      <4> QED
        BY <1>6, <3>2, <4>2, <4>4 DEF RowsInv, NewRows
    <3> QED
      BY <3>3, <3>4 DEF NewRows
  <2>17. GoneRows'
    <3> SUFFICES ASSUME NEW id \in DOMAIN dbProcs', tracee'[dbProcs'[id].tid].st = "gone"
                 PROVE  dbRows'[id] = did'[dbProcs'[id].tid]
      BY DEF GoneRows
    <3>1. id # n
      BY <1>10, <2>4
    <3>2. id \in DOMAIN dbProcs /\ dbProcs'[id] = dbProcs[id] /\ dbRows'[id] = dbRows[id]
      BY <2>4, <3>1
    <3> QED
      BY <1>1, <1>6, <1>10, <3>2, RowTyped DEF RowsInv, GoneRows, NoneReaped, TInv
  <2> QED
    BY <2>9, <2>14, <2>16, <2>17 DEF RowsInv
<1> QED
  BY <1>1, <1>13, <1>14

------------------------------------------------------------------------------
(* The tracees.                                                              *)

\* What a step of t adds to its history is owed by the stop it ends in; another
\* process is left alone, or is made by t.
TraceeAdds(t) ==
    /\ Synced(did[t], did'[t], cwd[t], cwd'[t], Owes(tracee'[t], FALSE), t)
    /\ \A u \in Tids : u # t =>
          \/ did'[u] = did[u] /\ cwd'[u] = cwd[u] /\ tracee'[u] = tracee[u]
          \/ /\ u \in Unborn /\ tracee'[u] = Born(u)
             /\ tracee'[t].ev = "spawn" /\ tracee'[t].child = u
             /\ did'[u] = Append(did[u], DbRow("wd", cwd[t], t)) /\ cwd'[u] = cwd[t]
    /\ tracee'[t].ev = "spawn" => tracee'[t].child \in Unborn \ Unborn'

LEMMA QuietOwes ==
  ASSUME NEW k, NEW m, Moved(k, m), Orderly(k), m.ev # "exec",
         m.ev = "sysout" => m.ret # "ok" \/ k.at = "return" \/ k.call \notin {"open", "chdir"}
  PROVE  Owes(m, FALSE) = "none"
BY DEF Moved, Orderly, Owes, Unhandled

LEMMA TraceeDoes ==
  ASSUME Threadless, KernelInv, KernelOrder, CallOrder, NEW t \in Tids, KernelStep(t), TraceeMoves(t)
  PROVE  TraceeAdds(t)
<1>1. /\ tracee \in [Tids -> Tracee] /\ tracee[t] \in Tracee /\ Orderly(tracee[t])
      /\ cwd \in [Tids -> Nat] /\ did \in [Tids -> Seq(Row)]
  BY DEF KernelInv, CallOrder
<1>2. tracee[t].st = "running" /\ Moved(tracee[t], tracee'[t])
  BY DEF TraceeMoves
<1>3. tracee[t].grp = t /\ Group(t) = {t} /\ Here(t) = cwd[t]
  BY <1>2, OneAlone DEF Here
<1>4. ASSUME UNCHANGED <<did, cwd>>, tracee'[t].ev \notin {"exec", "spawn"},
             tracee'[t].ev = "sysout" =>
                tracee'[t].ret # "ok" \/ tracee[t].at = "return" \/ tracee[t].call \notin {"open", "chdir"}
      PROVE  TraceeAdds(t)
  <2>1. Owes(tracee'[t], FALSE) = "none"
    BY <1>1, <1>2, <1>4, QuietOwes
  <2> QED
    BY <1>4, <2>1 DEF TraceeMoves, TraceeAdds, Synced
<1>5. CASE EnterCall(t)
  <2>1. PICK c \in Calls \cup {"exit_group"} : tracee' = [tracee EXCEPT ![t] =
                    [Stopped(@, "sysin") EXCEPT !.at = "call", !.call = c]]
    BY <1>5 DEF EnterCall
  <2>2. tracee'[t].ev = "sysin"
    BY <1>1, <2>1 DEF Stopped, Tracee
  <2> QED
    BY <1>4, <1>5, <2>2 DEF EnterCall
<1>6. ASSUME NEW r, ReturnWith(t, r)
      PROVE  /\ tracee'[t].ev = "sysout" /\ tracee'[t].ret = r /\ tracee'[t].at = "user"
             /\ tracee'[t].call = tracee[t].call
             /\ \A u \in Tids : u # t => tracee'[u] = tracee[u]
  BY <1>1, <1>6 DEF ReturnWith, Stopped, Tracee
<1>7. CASE PathCallSucceeds(t)
  <2>1. ReturnWith(t, "ok")
    BY <1>7 DEF PathCallSucceeds
  <2>2. CASE tracee[t].call = "open" /\ Did(t, "open", Here(t), t) /\ UNCHANGED cwd
    <3>1. Owes(tracee'[t], FALSE) = "open"
      BY <1>6, <2>1, <2>2 DEF Owes, Unhandled
    <3>2. /\ did'[t] = Append(did[t], DbRow("open", cwd[t], t))
          /\ \A u \in Tids : u # t => did'[u] = did[u]
      BY <1>1, <1>3, <2>2 DEF Did, DbRow
    <3> QED
      BY <1>6, <2>1, <2>2, <3>1, <3>2 DEF TraceeAdds, Synced
  <2>3. CASE tracee[t].call = "chdir" /\ Did(t, "wd", Here(t) + 1, t)
             /\ cwd' = [cwd EXCEPT ![tracee[t].grp] = @ + 1]
    <3>1. Owes(tracee'[t], FALSE) = "chdir"
      BY <1>6, <2>1, <2>3 DEF Owes, Unhandled
    <3>2. /\ did'[t] = Append(did[t], DbRow("wd", cwd[t] + 1, t))
          /\ \A u \in Tids : u # t => did'[u] = did[u]
      BY <1>1, <1>3, <2>3 DEF Did, DbRow
    <3>3. cwd'[t] = cwd[t] + 1 /\ \A u \in Tids : u # t => cwd'[u] = cwd[u]
      BY <1>1, <1>3, <2>3
    <3> QED
      BY <1>6, <2>1, <3>1, <3>2, <3>3 DEF TraceeAdds, Synced
  <2> QED
    BY <1>7, <2>2, <2>3 DEF PathCallSucceeds
<1>8. CASE CallFails(t)
  <2>1. PICK r \in {"error", "efault"} : ReturnWith(t, r)
    BY <1>8 DEF CallFails
  <2> QED
    BY <1>4, <1>6, <1>8, <2>1 DEF CallFails
<1>9. CASE FinishCall(t)
  BY <1>4, <1>6, <1>9 DEF FinishCall, Running
<1>10. CASE Spawn(t)
  <2> DEFINE g(c) == IF tracee[t].call = "fork" THEN c ELSE tracee[t].grp
             s(c) == [Stopped(tracee[t], "spawn") EXCEPT !.at = "return", !.child = c]
  <2>1. PICK c \in Unborn :
           /\ tracee' = [tracee EXCEPT ![t] = s(c), ![c] = Born(g(c))]
           /\ cwd' = IF tracee[t].call = "fork" THEN [cwd EXCEPT ![c] = Here(t)] ELSE cwd
           /\ Did(c, "wd", Here(t), t)
    BY <1>10 DEF Spawn
  <2>2. c \in Tids /\ c # t
    BY <1>2 DEF Unborn
  <2>3. s(c).ev = "spawn" /\ s(c).child = c
    BY <1>1 DEF Stopped, Tracee
  <2> HIDE DEF s, g
  <2>4. tracee'[t].ev = "spawn" /\ tracee'[t].child = c /\ \A u \in Tids : u # t /\ u # c => tracee'[u] = tracee[u]
    BY <1>1, <2>1, <2>2, <2>3
  <2>5. tracee[t].call = "fork"
    BY <1>2, <2>4 DEF Moved
  <2>6. /\ cwd'[c] = cwd[t] /\ \A u \in Tids : u # c => cwd'[u] = cwd[u]
        /\ did'[c] = Append(did[c], DbRow("wd", cwd[t], t)) /\ \A u \in Tids : u # c => did'[u] = did[u]
    BY <1>1, <1>3, <2>1, <2>2, <2>5 DEF Did, DbRow
  <2>7. tracee'[c] = Born(c)
    BY <1>1, <2>1, <2>2, <2>5 DEF g
  <2>8. Owes(tracee'[t], FALSE) = "none"
    BY <1>1, <1>2, <2>4, QuietOwes
  <2>9. tracee'[t].child \in Unborn \ Unborn'
    <3>1. Born(c).st = "stopped"
      BY DEF Born, NotBorn
    <3> QED
      BY <2>1, <2>2, <2>4, <2>7, <3>1 DEF Unborn
  <2>10. Synced(did[t], did'[t], cwd[t], cwd'[t], Owes(tracee'[t], FALSE), t)
    BY <2>2, <2>6, <2>8 DEF Synced
  <2> QED
    BY <2>1, <2>4, <2>6, <2>7, <2>9, <2>10 DEF TraceeAdds
<1>11. CASE ExecKills(t)
  BY <1>11, GroupOfOne, ThreadlessSafe DEF ExecKills, Running
<1>12. CASE Exec(t)
  <2> DEFINE s == [Stopped(tracee[t], "exec") EXCEPT !.at = "return"]
  <2>1. tracee' = [tracee EXCEPT ![t] = s]
    BY <1>1, <1>3, <1>12 DEF Exec
  <2>2. s.ev = "exec"
    BY <1>1 DEF Stopped, Tracee
  <2> HIDE DEF s
  <2>3. tracee'[t].ev = "exec" /\ \A u \in Tids : u # t => tracee'[u] = tracee[u]
    BY <1>1, <2>1, <2>2
  <2>4. Did(t, "exec", cwd[t], t) /\ UNCHANGED cwd
    BY <1>3, <1>12 DEF Exec
  <2>5. /\ did'[t] = Append(did[t], DbRow("exec", cwd[t], t))
        /\ \A u \in Tids : u # t => did'[u] = did[u]
    BY <1>1, <2>4 DEF Did, DbRow
  <2>6. Owes(tracee'[t], FALSE) = "exec"
    BY <2>3 DEF Owes
  <2> QED
    BY <2>3, <2>4, <2>5, <2>6 DEF TraceeAdds, Synced
<1>13. ASSUME NEW why, tracee' = KillAll({t}, why) PROVE tracee'[t].ev = "exit"
  <2>1. tracee'[t] = Dead(tracee[t], why)
    BY <1>2, <1>13 DEF KillAll, Alive
  <2> QED
    BY <1>1, <2>1 DEF Dead, Tracee
<1>14. CASE Exit(t)
  <2>1. tracee' = KillAll({t}, "exited")
    BY <1>3, <1>14 DEF Exit
  <2> QED
    BY <1>4, <1>13, <1>14, <2>1 DEF Exit
<1>15. CASE Kill(t)
  BY <1>3, <1>4, <1>13, <1>15 DEF Kill
<1>16. CASE SignalStop(t)
  <2>1. tracee'[t].ev = "signal"
    BY <1>1, <1>16 DEF SignalStop, Stopped, Tracee
  <2> QED
    BY <1>4, <1>16, <2>1 DEF SignalStop
<1>17. CASE SignalDelivered(t)
  <2>1. tracee'[t].ev \in {"none", "exit"}
    <3>1. CASE tracee' = [tracee EXCEPT ![t].at = "user"]
      BY <1>1, <3>1 DEF TraceeMoves, Tracee
    <3> QED
      BY <1>3, <1>13, <1>17, <3>1 DEF SignalDelivered
  <2> QED
    BY <1>4, <1>17, <2>1 DEF SignalDelivered
<1> QED
  BY <1>5, <1>7, <1>8, <1>9, <1>10, <1>11, <1>12, <1>14, <1>15, <1>16, <1>17 DEF KernelStep

LEMMA BegunMore ==
  ASSUME NEW S, NEW a \in Seq(S), NEW b, NEW wd, NEW dir, NEW owes, NEW t, Synced(a, b, wd, dir, owes, t)
  PROVE  Begun(a, b)
BY DEF Synced, Begun

LEMMA TraceeRows ==
  ASSUME Placed, PhaseInv, RowsInv, TInv', NEW t \in Tids, TraceeStep(t), Unhurt'
  PROVE  RowsInv'
<1> USE DEF Placed, Stopping, Base
<1>1. /\ mpc \in Live /\ KernelStep(t)
      /\ UNCHANGED <<mpc, procs, groups, workers, toWorker, dbProcs, dbRows>>
  BY DEF TraceeStep, tracerVars
<1>2. TraceeMoves(t) /\ TraceeAdds(t)
  <2>1. KernelInv /\ KernelOrder /\ KernelInv'
    BY DEF PipesInv, TInv
  <2>2. ~ Kill(t)
    BY <2>1, NoKill
  <2> QED
    BY <1>1, <2>1, <2>2, TraceeShapes, TraceeDoes
<1>3. /\ tracee[t].st = "running" /\ tracee[t].ev = "none" /\ Moved(tracee[t], tracee'[t])
      /\ tracee'[t].st # "unborn"
  BY <1>2 DEF TraceeMoves, Moved
<1>4. \A u \in Tids : Taken(u)' <=> Taken(u)
  BY <1>1, SameTaken
<1>5. ASSUME NEW u \in Tids, u = t \/ u \in Unborn PROVE ~ Taken(u)
  <2>1. tracee[u].st # "stopped"
    BY <1>3, <1>5 DEF Unborn
  <2> QED
    BY <1>1, <2>1, TakenStops DEF Waits
<1>6. ASSUME NEW u \in Tids, u # t, u \notin Unborn
      PROVE  did'[u] = did[u] /\ cwd'[u] = cwd[u] /\ tracee'[u] = tracee[u]
  BY <1>2, <1>6 DEF TraceeAdds
<1>7. ASSUME NEW u \in Unborn', u \in Tids
      PROVE  /\ u \in Unborn /\ u # t
             /\ did'[u] = did[u] /\ cwd'[u] = cwd[u] /\ tracee'[u] = tracee[u]
  BY <1>2, <1>3, <1>7 DEF TraceeAdds, Unborn, Born, NotBorn
<1>8. \A u \in Tids : SameRows(u) /\ Ids(u)' = Ids(u)
  BY <1>1 DEF SameRows, Ids
<1>9. ASSUME NEW u \in Tids, u # t, did'[u] = did[u], cwd'[u] = cwd[u], tracee'[u] = tracee[u]
      PROVE  Written(u)'
  <2>1. Same(u)
    BY <1>1, <1>4, <1>9 DEF Same, Found, InUse
  <2>2. Carried(u)
    BY <1>1, <1>9, <2>1, SameCarried
  <2> QED
    BY <1>8, <2>2, WrittenStays DEF RowsInv
<1>10. ASSUME NEW u \in Tids, u \in Unborn PROVE Written(u)'
  <2>1. ~ Taken(u)'
    BY <1>4, <1>5, <1>10
  <2>2. mpc \in Looping => Found(procs, u)' = {}
    BY <1>1, <1>10 DEF Found, InUse, Unborn, PipesInv, Stages
  <2> QED
    BY <1>1, <2>1, <2>2 DEF Written, Rows, Followed
<1>11. Written(t)'
  <2> SUFFICES ASSUME Followed(t)', workers'[t].pc # "exited", NEW i \in Found(procs, t)', Registered(procs'[i])
               PROVE  LET id == procs'[i].identifier IN
                      /\ id \in DOMAIN dbProcs' /\ dbProcs'[id].tid = t
                      /\ Synced(dbRows'[id], did'[t], groups'[t].wd, cwd'[t], Owes(tracee'[t], Taken(t)'), t)
    BY DEF Written, Rows, Synced, Owes, Unhandled
  <2>1. ~ Taken(t) /\ ~ Taken(t)' /\ Followed(t) /\ workers[t].pc # "exited"
        /\ i \in Found(procs, t) /\ Registered(procs[i]) /\ procs'[i] = procs[i]
    BY <1>1, <1>4, <1>5 DEF Followed, Found, InUse
  <2>2. Owes(tracee[t], Taken(t)) = "none" /\ Owes(tracee'[t], Taken(t)') = Owes(tracee'[t], FALSE)
    BY <1>3, <2>1 DEF Owes, Unhandled
  <2> DEFINE id == procs[i].identifier
  <2>3. /\ id \in DOMAIN dbProcs /\ dbProcs[id].tid = t
        /\ dbRows[id] = did[t] /\ groups[t].wd = cwd[t]
    BY <2>1, <2>2 DEF RowsInv, Written, Rows, Synced
  <2>4. Synced(did[t], did'[t], cwd[t], cwd'[t], Owes(tracee'[t], FALSE), t)
    BY <1>2 DEF TraceeAdds
  <2> QED
    BY <1>1, <2>1, <2>2, <2>3, <2>4
<1>12. ASSUME NEW u \in Tids PROVE Written(u)'
  BY <1>6, <1>9, <1>10, <1>11
<1>13. LogInv'
  <2>1. ASSUME NEW u \in Tids PROVE Begun(did[u], did'[u])
    <3>1. did[u] \in Seq(Row)
      BY DEF TInv, KernelInv
    <3>2. CASE u = t
      BY <1>2, <3>1, <3>2, BegunMore DEF TraceeAdds
    <3>3. CASE did'[u] = did[u]
      BY <3>1, <3>3, BegunSelf
    <3>4. ASSUME did'[u] = Append(did[u], DbRow("wd", cwd[t], t)) PROVE Begun(did[u], did'[u])
      BY <3>1, <3>4 DEF Begun
    <3> QED
      BY <1>2, <3>2, <3>3, <3>4 DEF TraceeAdds
  <2>2. SameProcesses
    BY <1>1 DEF SameProcesses
  <2> QED
    BY <1>1, <2>1, <2>2, LogKept DEF RowsInv, TInv
<1>14. NewRows'
  <2>1. First \notin Unborn'
    BY <1>7, FirstAssumption DEF RowsInv, NewRows
  <2>2. \A u \in Unborn' : NotBegun(u)'
    BY <1>7, <1>8 DEF RowsInv, NewRows, NotBegun, Unborn
  <2>3. ASSUME mpc' \in Looping, NEW p \in Tids, NEW d \in Tids, Spawning(p)', tracee'[p].child = d
        PROVE  Newborn(d, p)'
    <3>1. CASE p = t
      <4>1. /\ d \in Unborn \ Unborn' /\ d # t /\ d # First
        BY <1>2, <1>3, <2>3, <3>1 DEF TraceeAdds, Spawning, Unborn, RowsInv, NewRows
      <4>2. did'[d] = Append(did[d], DbRow("wd", cwd[t], t)) /\ cwd'[d] = cwd[t]
        BY <1>2, <4>1 DEF TraceeAdds, Unborn
      <4>3. did[d] = <<>> /\ Ids(d)' = {}
        BY <1>8, <4>1 DEF RowsInv, NewRows, NotBegun
      <4>4. Owes(tracee'[t], FALSE) = "none"
        BY <2>3, <3>1, OwesNothing DEF Spawning
      <4>5. cwd'[t] = cwd[t]
        BY <1>2, <4>4 DEF TraceeAdds, Synced
      <4>6. Append(<<>>, DbRow("wd", cwd[t], t)) = <<DbRow("wd", cwd[t], t)>>
        OBVIOUS
      <4> QED
        BY <3>1, <4>1, <4>2, <4>3, <4>5, <4>6 DEF Newborn, DbRow
    <3>2. CASE p # t
      <4>1. tracee'[p] = tracee[p] /\ p \notin Unborn /\ Spawning(p) /\ tracee[p].child = d /\ cwd'[p] = cwd[p]
        <5>1. tracee'[p] = tracee[p]
          BY <1>2, <2>3, <3>2 DEF TraceeAdds, Spawning, Born, NotBorn
        <5>2. Spawning(p) /\ tracee[p].child = d
          BY <2>3, <5>1 DEF Spawning
        <5>3. p \notin Unborn
          BY <5>2, CreatorStopped DEF Unborn
        <5> QED
          BY <1>6, <3>2, <5>1, <5>2, <5>3
      <4>2. Newborn(d, p) /\ d \notin Unborn
        BY <1>1, <2>3, <4>1 DEF RowsInv, NewRows, PipesInv, Stages, Unborn
      <4>3. d # t
        <5>1. t \in Children /\ ~ Newcomer(t)
          BY <1>3 DEF Children, Newcomer
        <5>2. PICK k \in DOMAIN procs : procs[k].status = "ATTACHED" /\ procs[k].tid = t
          BY <1>1, <2>3, <5>1 DEF CreatorsInv, Place, Attachment
        <5> QED
          BY <1>1, <2>3, <4>1, <5>2 DEF PipesInv, Stages, InUse
      <4> QED
        BY <1>6, <1>8, <4>1, <4>2, <4>3 DEF Newborn, DbRow
    <3> QED
      BY <3>1, <3>2
  <2> QED
    BY <2>1, <2>2, <2>3 DEF NewRows
<1>15. GoneRows'
  <2> SUFFICES ASSUME mpc' \in Tracing, NEW id \in DOMAIN dbProcs', tracee'[dbProcs'[id].tid].st = "gone"
               PROVE  dbRows'[id] = did'[dbProcs'[id].tid]
    BY DEF GoneRows
  <2>1. dbProcs[id].tid \in Tids
    BY <1>1, RowTyped DEF TInv
  <2>2. NoneReaped
    BY <1>1, GoneStays, ThreadlessSafe DEF TInv, PipesInv
  <2>3. tracee[dbProcs[id].tid].st = "gone"
    BY <1>1, <2>1, <2>2 DEF NoneReaped
  <2> QED
    BY <1>1, <1>3, <1>6, <2>1, <2>3 DEF RowsInv, GoneRows, Unborn
<1> QED
  BY <1>12, <1>13, <1>14, <1>15 DEF RowsInv

------------------------------------------------------------------------------
(* The rows, from the start on.                                              *)

LEMMA RowsInit == Init => RowsInv
<1> SUFFICES ASSUME Init PROVE RowsInv
  OBVIOUS
<1> DEFINE r == DbRow("wd", 0, NoTid)
<1>1. /\ DOMAIN procs = 1 .. InitSlots /\ 1 \in DOMAIN procs
      /\ \A i \in 1 .. InitSlots : i # 1 => procs[i] = FreeSlot
      /\ procs[1] = [FreeSlot EXCEPT !.status = "ALLOCATED", !.tid = First, !.tg = First, !.identifier = 1]
      /\ mpc = "wait"
  BY SlotsAssumption DEF Init
<1>2. /\ procs[1].tid = First /\ procs[1].identifier = 1
      /\ \A i \in DOMAIN procs : i # 1 => procs[i].status = "FREE"
  BY <1>1 DEF FreeSlot
<1>3. /\ dbProcs = <<[tid |-> First, parent |-> 0, exit |-> "none"]>>
      /\ dbRows = <<<<r, r>>>>
      /\ groups[First].wd = 0 /\ cwd[First] = 0
  BY FirstAssumption DEF Init, KernelInit
<1>4. /\ did[First] = <<r, r>> /\ \A t \in Tids : t # First => did[t] = <<>>
  BY FirstAssumption DEF Init, KernelInit, StartRow, DbRow
<1>5. /\ Len(dbProcs) = 1 /\ Len(dbRows) = 1 /\ DOMAIN dbProcs = {1}
      /\ dbProcs[1].tid = First /\ dbProcs[1].parent = 0 /\ dbRows[1] = did[First]
  BY <1>3, <1>4
<1>6. /\ tracee[First].st = "stopped" /\ tracee[First].ev = "sigstop"
      /\ \A t \in Tids : t # First => tracee[t].ev = "none" /\ tracee[t].st = "unborn"
  BY FirstAssumption DEF Init, KernelInit, Born, NotBorn
<1>7. \A t \in Tids : ~ Taken(t)
  BY DEF Init, NoWorker, Taken, Pointed
<1>8. LogInv
  <2>1. Begun(did[First], did[First])
    <3>1. did[First] \in Seq({r})
      BY <1>4
    <3> HIDE DEF r
    <3> QED
      BY <3>1, BegunSelf
  <2>2. Parent(1)
    BY <1>5 DEF Parent
  <2> QED
    BY <1>5, <2>1, <2>2 DEF LogInv
<1>9. ASSUME NEW t \in Tids PROVE Written(t)
  <2> SUFFICES ASSUME NEW i \in Found(procs, t), Registered(procs[i])
               PROVE  LET id == procs[i].identifier IN
                      /\ id \in DOMAIN dbProcs /\ dbProcs[id].tid = t
                      /\ Synced(dbRows[id], did[t], groups[t].wd, cwd[t], Owes(tracee[t], Taken(t)), t)
    BY DEF Written, Rows
  <2>1. i = 1 /\ t = First
    BY <1>2 DEF Found, InUse
  <2>2. Owes(tracee[t], Taken(t)) = "none"
    BY <1>6, <1>7, <2>1, OwesNothing DEF Owes, Unhandled
  <2> QED
    BY <1>2, <1>3, <1>5, <2>1, <2>2 DEF Synced
<1>10. NewRows
  BY <1>4, <1>5, <1>6 DEF NewRows, NotBegun, Ids, Unborn, Spawning
<1>11. GoneRows
  BY <1>5, <1>6 DEF GoneRows
<1> QED
  BY <1>8, <1>9, <1>10, <1>11 DEF RowsInv

LEMMA WorkerRows ==
  ASSUME Placed, PhaseInv, RowsInv, TInv', NEW t \in Tids, WorkerStep(t)
  PROVE  RowsInv'
<1>1. CASE mpc' # "segv"
  BY <1>1, WorkerDoes, LeavesRows, EndsStopRows DEF Placed
<1>2. CASE mpc' = "segv"
  <2>1. UNCHANGED <<tracee, did, cwd, dbProcs, dbRows>>
    BY <1>2 DEF WorkerStep, StopHandled, StopPeeks, BadPointer, PeekAgain, PathRead, InsertFails, Answered,
       Receives, Live, Looping, kernelVars, db
  <2> QED
    BY <1>2, <2>1, EndedRows DEF Placed, Stopping, Base
<1> QED
  BY <1>1, <1>2

LEMMA EndRows ==
  ASSUME Placed, RowsInv, TInv', Commit \/ Rollback \/ Interrupt
  PROVE  RowsInv'
<1> USE DEF Placed, Stopping, Base
<1>1. CASE Commit
  BY <1>1, StandsRows DEF Commit, kernelVars, tables, pipes, db, Looping, Live, Tracing
<1>2. ASSUME Cleanup, NEW u \in Tids, tracee'[u].st = "unborn" PROVE tracee[u].st = "unborn"
  <2>1. tracee'[u] \in {tracee[u], Dead(tracee[u], "killed")} /\ tracee[u] \in Tracee
    BY <1>2 DEF Cleanup, KillAll, TInv, KernelInv
  <2>2. Dead(tracee[u], "killed").st = "dead"
    BY <2>1 DEF Dead, Tracee
  <2> QED
    BY <1>2, <2>1, <2>2
<1>3. CASE Interrupt
  BY <1>2, <1>3, EndedRows DEF Interrupt, db
<1>4. CASE Rollback
  <2>1. /\ mpc' \notin Looping /\ mpc' \notin Live /\ mpc' \notin Tracing
        /\ UNCHANGED did /\ dbProcs' = <<>> /\ dbRows' = <<>>
        /\ \A u \in Unborn' : u \in Unborn
    BY <1>2, <1>4 DEF Rollback, Looping, Live, Tracing, Unborn
  <2>2. LogInv'
    BY <2>1 DEF LogInv
  <2>3. \A u \in Tids : Written(u)'
    BY <2>1 DEF Written, Followed
  <2>4. NewRows'
    BY <2>1 DEF RowsInv, NewRows, NotBegun, Ids
  <2>5. GoneRows'
    BY <2>1 DEF GoneRows
  <2> QED
    BY <2>2, <2>3, <2>4, <2>5 DEF RowsInv
<1> QED
  BY <1>1, <1>3, <1>4

LEMMA RowsStep ==
  ASSUME Placed, PhaseInv, LedgerInv, RowsInv, TInv', [Next]_vars, Unhurt'
  PROVE  RowsInv'
<1>1. ASSUME NEW t \in Tids, ExitWithoutWorker(t) PROVE RowsInv'
  <2>1. /\ mpc' = "exit" /\ UNCHANGED <<did, cwd, dbProcs, dbRows>>
        /\ tracee' = [tracee EXCEPT ![t] = Reaped(@)]
    BY <1>1 DEF ExitWithoutWorker, db
  <2>2. \A u \in Tids : tracee'[u].st = "unborn" => tracee[u].st = "unborn"
    BY <2>1, QuietChanges DEF Placed, Stopping, Base, TInv, KernelInv
  <2> QED
    BY <2>1, <2>2, EndedRows DEF Placed, Stopping, Base
<1>2. ASSUME NEW t \in Tids, WaitStep(t) PROVE RowsInv'
  BY <1>1, <1>2, ExitRows, AppearsRows, AttachedRows, SyscallStopRows, ExecRows, ForkRows, SignalRows
  DEF WaitStep
<1>3. CASE WaitNothing \/ WaitFails \/ Poll
  BY <1>3, StandsRows
  DEF WaitNothing, WaitFails, Poll, Looping, Live, Tracing, kernelVars, tables, pipes, db, Placed, Stopping, Base
<1>4. CASE UNCHANGED vars
  BY <1>4, StandsRows DEF vars, kernelVars, tracerVars, Placed, Stopping, Base
<1> QED
  BY <1>2, <1>3, <1>4, EndRows, ServeRows, WorkerRows, TraceeRows DEF Next, MainStep, Stops

LEMMA RowsAlways ==
  Threadless => (Spec => [](/\ Base /\ PipesInv /\ CallOrder /\ LedgerInv
                            /\ (Unhurt => StillStopped /\ CreatorsInv /\ ToldInv /\ PhaseInv /\ RowsInv)))
<1> SUFFICES ASSUME Threadless
             PROVE  Spec => [](/\ Base /\ PipesInv /\ CallOrder /\ LedgerInv
                               /\ (Unhurt => StillStopped /\ CreatorsInv /\ ToldInv /\ PhaseInv /\ RowsInv))
  OBVIOUS
<1>1. Init => RowsInv
  BY RowsInit
<1>2. /\ Base /\ PipesInv /\ CallOrder /\ LedgerInv
      /\ (Unhurt => StillStopped /\ CreatorsInv /\ ToldInv /\ PhaseInv)
      /\ (Unhurt => RowsInv) /\ [Next]_vars /\ Base'
      => (Unhurt => RowsInv)'
  <2> SUFFICES ASSUME Base, PipesInv, CallOrder, LedgerInv, Base',
                      Unhurt => StillStopped /\ CreatorsInv /\ ToldInv /\ PhaseInv,
                      Unhurt => RowsInv, [Next]_vars, Unhurt'
               PROVE  RowsInv'
    OBVIOUS
  <2>1. Unhurt
    BY CallOrderStep DEF Unhurt
  <2>2. TInv'
    BY DEF Base
  <2> QED
    BY <2>1, <2>2, RowsStep DEF Placed, Stopping
<1>3. Spec => [](/\ Base /\ PipesInv /\ CallOrder /\ LedgerInv
                 /\ (Unhurt => StillStopped /\ CreatorsInv /\ ToldInv /\ PhaseInv))
  BY PhaseAlways
<1> QED
  BY <1>1, <1>2, <1>3, PTL DEF Spec

------------------------------------------------------------------------------
(* What the trace shows.                                                     *)

\* The row of a process is the only one it has.
LEMMA RowOf ==
  ASSUME LogInv, WellTyped, NEW id \in DOMAIN dbProcs
  PROVE  Ids(dbProcs[id].tid) = {id} /\ Recorded(dbProcs[id].tid) = dbRows[id]
<1>1. Ids(dbProcs[id].tid) = {id}
  BY DEF LogInv, Ids
<1>2. id \in Nat
  BY DEF WellTyped
<1>3. Minimum({id}) = id
  <2>1. Minimum({id}) \in {id}
    BY <1>2, MinimumExists
  <2> QED
    BY <2>1
<1> QED
  BY <1>1, <1>3 DEF Recorded

LEMMA NoRow == ASSUME NEW t, Ids(t) = {} PROVE Recorded(t) = <<>>
BY DEF Recorded

LEMMA RecordedBegins ==
  ASSUME LogInv, TInv, NEW t \in Tids
  PROVE  Begun(Recorded(t), did[t]) /\ Recorded(t) \in Seq(Row)
<1>1. CASE Ids(t) = {}
  <2>1. did[t] \in Seq(Row)
    BY DEF TInv, KernelInv
  <2>2. Begun(<<>>, did[t]) /\ <<>> \in Seq(Row)
    BY <2>1 DEF Begun
  <2> QED
    BY <1>1, <2>2, NoRow
<1>2. ASSUME NEW id \in Ids(t) PROVE Begun(Recorded(t), did[t]) /\ Recorded(t) \in Seq(Row)
  <2>1. id \in DOMAIN dbProcs /\ dbProcs[id].tid = t
    BY DEF Ids
  <2>2. dbRows[id] \in Seq(Row)
    BY <2>1, RowsTyped DEF TInv
  <2> QED
    BY <2>1, <2>2, RowOf DEF LogInv, TInv
<1> QED
  BY <1>1, <1>2

\* Every row of a process is what it did, in the order it did it, against the
\* directory it was in: the handlers of the worker and those of the main thread
\* run when the program is at the place their rows tell of. In programs without
\* threads that nothing kills.
THEOREM RowsAreHistory == SelfExits => (Spec => []RecordedPrefix)
<1> SUFFICES ASSUME SelfExits PROVE Spec => []RecordedPrefix
  OBVIOUS
<1>1. Base /\ RowsInv => RecordedPrefix
  <2> SUFFICES ASSUME Base, RowsInv, NEW t \in Tids
               PROVE  /\ Len(Recorded(t)) <= Len(did[t])
                      /\ \A n \in DOMAIN Recorded(t) : Recorded(t)[n] = did[t][n]
    BY DEF RecordedPrefix
  <2>1. Begun(Recorded(t), did[t]) /\ Recorded(t) \in Seq(Row)
    BY RecordedBegins DEF RowsInv, Base
  <2>2. DOMAIN Recorded(t) = 1 .. Len(Recorded(t))
    BY <2>1
  <2> QED
    BY <2>1, <2>2 DEF Begun
<1>2. Spec => [](Base /\ (Unhurt => RowsInv))
  BY RowsAlways, SelfExitsNoThreads, PTL
<1> QED
  BY <1>1, <1>2, SelfExitsNoThreads, PTL

\* A trace is committed when it holds, of every process that was created, one row
\* with its parent and its exit status, and all that it did. In programs without
\* threads that nothing kills.
THEOREM CommittedIsComplete == SelfExits => (Spec => []CommitComplete)
<1> SUFFICES ASSUME SelfExits PROVE Spec => []CommitComplete
  OBVIOUS
<1>1. Base /\ LedgerInv /\ ToldInv /\ RowsInv => CommitComplete
  <2> SUFFICES ASSUME Base, LedgerInv, ToldInv, RowsInv, mpc = "committed"
               PROVE  /\ exit_status = tracee[First].ret
                      /\ \A t \in Tids \ Unborn :
                            \E id \in DOMAIN dbProcs :
                               /\ Ids(t) = {id}
                               /\ dbRows[id] = did[t]
                               /\ dbProcs[id].exit = tracee[t].ret
                               /\ IF t = First THEN dbProcs[id].parent = 0
                                  ELSE dbProcs[dbProcs[id].parent].tid = did[t][1].by
    BY DEF CommitComplete
  <2>1. mpc \in Tracing
    BY DEF Tracing
  <2>2. \A t \in Tids \ Unborn : tracee[t].st = "gone" /\ Ids(t) # {}
    BY DEF ToldInv
  <2>3. First \in Tids \ Unborn
    BY FirstAssumption DEF RowsInv, NewRows
  <2>4. exit_status = tracee[First].ret
    BY <2>1, <2>2, <2>3 DEF LedgerInv
  <2>5. ASSUME NEW t \in Tids \ Unborn, NEW id \in Ids(t)
        PROVE  /\ id \in DOMAIN dbProcs /\ Ids(t) = {id}
               /\ dbRows[id] = did[t]
               /\ dbProcs[id].exit = tracee[t].ret
               /\ IF t = First THEN dbProcs[id].parent = 0
                  ELSE dbProcs[dbProcs[id].parent].tid = did[t][1].by
    <3>1. id \in DOMAIN dbProcs /\ dbProcs[id].tid = t
      BY <2>5 DEF Ids
    <3>2. Ids(t) = {id}
      BY <3>1, RowOf DEF RowsInv, Base, TInv
    <3>3. dbRows[id] = did[t]
      BY <2>1, <2>2, <3>1 DEF RowsInv, GoneRows
    <3>4. Accounted(id) /\ InUse(procs) = {}
      BY <2>1, <3>1 DEF LedgerInv
    <3>5. dbProcs[id].exit = tracee[t].ret
      BY <3>1, <3>4 DEF Accounted, Registered, InUse
    <3>6. Parent(id)
      BY <3>1 DEF RowsInv, LogInv
    <3> QED
      BY <3>1, <3>2, <3>3, <3>5, <3>6 DEF Parent
  <2> QED
    BY <2>2, <2>4, <2>5
<1>2. Spec => [](Base /\ LedgerInv /\ (Unhurt => ToldInv /\ RowsInv))
  BY RowsAlways, SelfExitsNoThreads, PTL
<1> QED
  BY <1>1, <1>2, SelfExitsNoThreads, PTL

------------------------------------------------------------------------------
(* The trace is a log of what the programs do.                               *)

\* No step gives the trace up.
Kept == mpc \notin {"failed", "rolledback"}

LEMMA KeptStep ==
  ASSUME Placed, PhaseInv, SomeLeft, Kept, "db" \notin Faults, [Next]_vars
  PROVE  Kept'
<1> USE DEF Placed, Stopping, Base, TInv
<1>1. ~ WaitFails
  <2> SUFFICES ASSUME WaitFails PROVE FALSE
    OBVIOUS
  <2>1. mpc \in Looping /\ Children = {}
    BY DEF WaitFails, Looping
  <2>2. PICK i \in InUse(procs) : TRUE
    BY <2>1 DEF SomeLeft
  <2>3. procs[i].tid \in Children
    BY <2>1, <2>2 DEF PipesInv, Stages, Children
  <2> QED
    BY <2>1, <2>3
<1>2. ASSUME NEW t \in Tids, ExitReported(t) PROVE Kept'
  BY <1>2, ExitDoes, KnownLeft, AfterExitTyped DEF Kept
<1>3. ASSUME NEW t \in Tids,
             ExitWithoutWorker(t) \/ Appears(t) \/ Attached(t) \/ SyscallStop(t) \/ SignalForwarded(t)
      PROVE  Kept'
  BY <1>3 DEF ExitWithoutWorker, Appears, Attached, SyscallStop, SignalForwarded, Kept
<1>4. ASSUME NEW t \in Tids, ExecEvent(t) \/ ForkEvent(t) PROVE Kept'
  BY <1>4, ExecDoes, ForkDoes DEF Kept
<1>5. CASE WaitNothing \/ Poll \/ Serve \/ Commit \/ Rollback \/ Interrupt
  BY <1>5 DEF WaitNothing, Poll, Serve, Commit, Rollback, Interrupt, Kept
<1>6. ASSUME NEW t \in Tids, WorkerStep(t) PROVE Kept'
  BY <1>6 DEF WorkerStep, StopHandled, StopPeeks, BadPointer, PeekAgain, PathRead, InsertFails, Answered, Kept
<1>7. CASE UNCHANGED vars \/ (\E t \in Tids : TraceeStep(t))
  BY <1>7 DEF vars, tracerVars, TraceeStep, Kept
<1> QED
  BY <1>1, <1>2, <1>3, <1>4, <1>5, <1>6, <1>7 DEF Next, MainStep, WaitStep, Stops

LEMMA SameRecorded ==
  ASSUME UNCHANGED dbRows, SameProcesses
  PROVE  \A u : Recorded(u)' = Recorded(u)
<1>1. \A u : Ids(u)' = Ids(u)
  BY DEF Ids, SameProcesses
<1> QED
  BY <1>1 DEF Recorded

\* What the rows of a step come to, as a step of TraceLog.
LogStep == [Log!LogNext]_(Log!logVars)

LEMMA LogStands ==
  ASSUME UNCHANGED did, \A u \in Tids : Recorded(u)' = Recorded(u),
         mpc' = "committed" <=> mpc = "committed"
  PROVE  LogStep
BY DEF LogStep, Log!logVars

\* The next thing that t did gets into its rows.
LEMMA RecordStep ==
  ASSUME NEW t \in Tids, Len(Recorded(t)) < Len(did[t]),
         Recorded(t)' = Append(Recorded(t), did[t][Len(Recorded(t)) + 1]),
         \A u \in Tids : u # t => Recorded(u)' = Recorded(u),
         UNCHANGED did, mpc # "committed", mpc' # "committed"
  PROVE  LogStep
<1> DEFINE shown == [u \in Tids |-> Recorded(u)]
<1>1. shown' = [shown EXCEPT ![t] = Append(@, did[t][Len(@) + 1])]
  <2> DEFINE e == Append(shown[t], did[t][Len(shown[t]) + 1])
  <2>1. \A u \in Tids : shown[u] = Recorded(u)
    OBVIOUS
  <2>2. e = Recorded(t)'
    BY <2>1
  <2>3. shown' = [u \in Tids |-> Recorded(u)']
    OBVIOUS
  <2>4. [shown EXCEPT ![t] = e] = [u \in Tids |-> IF u = t THEN e ELSE Recorded(u)]
    BY <2>1
  <2> HIDE DEF e, shown
  <2>5. \A u \in Tids : Recorded(u)' = IF u = t THEN e ELSE Recorded(u)
    BY <2>2
  <2>6. shown' = [shown EXCEPT ![t] = e]
    BY <2>3, <2>4, <2>5
  <2> QED
    BY <2>6 DEF e
<1>2. Len(shown[t]) < Len(did[t])
  OBVIOUS
<1>3. UNCHANGED (mpc = "committed")
  OBVIOUS
<1> HIDE DEF shown
<1>4. Log!Record(t)
  BY <1>1, <1>2, <1>3 DEF Log!Record, shown
<1> QED
  BY <1>4 DEF LogStep, Log!LogNext

LEMMA RowAdded ==
  ASSUME LogInv, LogInv', TInv, TInv', UNCHANGED <<did, dbProcs>>, mpc # "committed", mpc' # "committed",
         NEW t, NEW id \in DOMAIN dbProcs, dbProcs[id].tid = t,
         NEW row, dbRows' = [dbRows EXCEPT ![id] = Append(@, row)]
  PROVE  LogStep
<1>1. t \in Tids /\ \A u : Ids(u)' = Ids(u)
  BY RowTyped DEF TInv, Ids
<1>2. Ids(t) = {id} /\ Recorded(t) = dbRows[id] /\ dbRows[id] \in Seq(Row) /\ DOMAIN dbRows = DOMAIN dbProcs
  BY RowOf, RowsTyped DEF TInv
<1>3. Recorded(t)' = Append(Recorded(t), row)
  <2>1. Recorded(t) = dbRows[Minimum({id})] /\ Recorded(t)' = dbRows'[Minimum({id})]
    BY <1>1, <1>2 DEF Recorded
  <2>2. Minimum({id}) = id
    <3>1. id \in Nat
      BY DEF TInv, WellTyped
    <3>2. Minimum({id}) \in {id}
      BY <3>1, MinimumExists
    <3> QED
      BY <3>2
  <2> QED
    BY <1>2, <2>1, <2>2 DEF TInv, WellTyped
<1>4. Len(Recorded(t)) < Len(did[t]) /\ row = did[t][Len(Recorded(t)) + 1]
  <2>1. Begun(dbRows'[id], did[t])
    BY DEF LogInv
  <2>2. dbRows'[id] = Append(dbRows[id], row)
    BY <1>2 DEF TInv, WellTyped
  <2>3. did[t] \in Seq(Row)
    BY <1>1 DEF TInv, KernelInv
  <2>4. row \in Row
    BY <1>2, <2>2 DEF TInv, WellTyped
  <2> QED
    BY <1>2, <2>1, <2>2, <2>3, <2>4 DEF Begun
<1>5. ASSUME NEW u \in Tids, u # t PROVE Recorded(u)' = Recorded(u)
  <2>1. CASE Ids(u) = {}
    BY <1>1, <2>1 DEF Recorded
  <2>2. CASE Ids(u) # {}
    <3>1. Ids(u) \subseteq Nat
      BY DEF Ids, TInv, WellTyped
    <3>2. Minimum(Ids(u)) \in Ids(u)
      BY <2>2, <3>1, MinimumExists
    <3>3. Minimum(Ids(u)) # id /\ Minimum(Ids(u)) \in DOMAIN dbRows
      BY <1>2, <1>5, <3>2 DEF Ids
    <3>4. dbRows'[Minimum(Ids(u))] = dbRows[Minimum(Ids(u))]
      BY <3>3 DEF TInv, WellTyped
    <3> QED
      BY <1>1, <3>4 DEF Recorded
  <2> QED
    BY <2>1, <2>2
<1> QED
  BY <1>1, <1>3, <1>4, <1>5, RecordStep

\* A process does one more thing, and nobody has heard of it.
LEMMA HappenStep ==
  ASSUME did \in [Tids -> Seq(Row)], did' \in [Tids -> Seq(Row)],
         NEW u \in Tids, NEW row \in Row, did'[u] = Append(did[u], row),
         \A v \in Tids : v # u => did'[v] = did[v],
         \A v \in Tids : Recorded(v)' = Recorded(v), mpc # "committed", mpc' # "committed"
  PROVE  LogStep
<1> DEFINE shown == [v \in Tids |-> Recorded(v)]
<1>1. did[u] \in Seq(Row)
  OBVIOUS
<1>2. Len(did'[u]) = Len(did[u]) + 1 /\ did'[u][Len(did[u]) + 1] = row
  BY <1>1
<1>3. did' = [did EXCEPT ![u] = Append(@, did'[u][Len(did[u]) + 1])]
  BY <1>2
<1>4. UNCHANGED shown /\ UNCHANGED (mpc = "committed")
  OBVIOUS
<1> HIDE DEF shown
<1>5. Log!Happen(u)
  BY <1>2, <1>3, <1>4 DEF Log!Happen, shown
<1> QED
  BY <1>5 DEF LogStep, Log!LogNext

LEMMA TraceeLogs ==
  ASSUME Placed, PhaseInv, TInv', NEW t \in Tids, TraceeStep(t), Unhurt'
  PROVE  LogStep
<1> USE DEF Placed, Stopping, Base
<1>1. /\ mpc \in Live /\ KernelStep(t) /\ UNCHANGED <<mpc, dbProcs, dbRows>>
  BY DEF TraceeStep, tracerVars
<1>2. TraceeAdds(t)
  <2>1. KernelInv /\ KernelOrder
    BY DEF PipesInv, TInv
  <2>2. ~ Kill(t)
    BY <2>1, NoKill
  <2> QED
    BY <1>1, <2>1, <2>2, TraceeShapes, TraceeDoes
<1>3. \A u \in Tids : Recorded(u)' = Recorded(u)
  BY <1>1, SameRecorded DEF SameProcesses
<1>4. mpc # "committed" /\ mpc' # "committed"
  BY <1>1 DEF Live, Looping
<1>5. /\ did \in [Tids -> Seq(Row)] /\ did' \in [Tids -> Seq(Row)] /\ cwd \in [Tids -> Nat]
      /\ tracee'[t] \in Tracee
  BY DEF TInv, KernelInv
<1>6. ASSUME NEW u \in Tids, u # t, did'[u] # did[u] PROVE LogStep
  <2>1. /\ tracee'[t].ev = "spawn" /\ tracee'[t].child = u
        /\ did'[u] = Append(did[u], DbRow("wd", cwd[t], t))
    BY <1>2, <1>6 DEF TraceeAdds
  <2>2. \A v \in Tids : v # t /\ v # u => did'[v] = did[v]
    BY <1>2, <2>1 DEF TraceeAdds
  <2>3. did'[t] = did[t]
    BY <1>2, <2>1, OwesNothing DEF TraceeAdds, Synced
  <2>4. DbRow("wd", cwd[t], t) \in Row
    BY <1>5 DEF DbRow, Row
  <2> QED
    BY <1>3, <1>4, <1>5, <2>1, <2>2, <2>3, <2>4, HappenStep
<1>7. ASSUME \A u \in Tids : u # t => did'[u] = did[u] PROVE LogStep
  <2>1. CASE did'[t] = did[t]
    <3>1. UNCHANGED did
      BY <1>5, <1>7, <2>1
    <3> QED
      BY <1>3, <1>4, <3>1, LogStands
  <2>2. ASSUME NEW row, did'[t] = Append(did[t], row), row \in Row PROVE LogStep
    BY <1>3, <1>4, <1>5, <1>7, <2>2, HappenStep
  <2>3. DbRow("wd", cwd[t] + 1, t) \in Row /\ \A k \in {"exec", "open"} : DbRow(k, cwd[t], t) \in Row
    BY <1>5 DEF DbRow, Row
  <2>4. Owes(tracee'[t], FALSE) \in {"none", "exec", "open", "chdir"}
    BY OwesOf
  <2> QED
    BY <1>2, <2>1, <2>2, <2>3, <2>4 DEF TraceeAdds, Synced
<1> QED
  BY <1>6, <1>7

LEMMA CommitLogs ==
  ASSUME Base, ToldInv, RowsInv, Commit
  PROVE  LogStep
<1>1. /\ mpc = "returned" /\ mpc' = "committed" /\ UNCHANGED <<did, dbProcs, dbRows>>
      /\ mpc \in Tracing
  BY DEF Commit, kernelVars, db, Tracing
<1>2. ASSUME NEW t \in Tids PROVE Recorded(t) = did[t]
  <2>1. CASE t \in Unborn
    BY <2>1, NoRow DEF RowsInv, NewRows, NotBegun
  <2>2. CASE t \notin Unborn
    <3>1. tracee[t].st = "gone" /\ Ids(t) # {}
      BY <1>1, <2>2 DEF ToldInv
    <3>2. PICK id \in DOMAIN dbProcs : dbProcs[id].tid = t
      BY <3>1 DEF Ids
    <3>3. dbRows[id] = did[t]
      BY <1>1, <3>1, <3>2 DEF RowsInv, GoneRows
    <3> QED
      BY <3>2, <3>3, RowOf DEF RowsInv, Base, TInv
  <2> QED
    BY <2>1, <2>2
<1>3. \A t \in Tids : Recorded(t)' = Recorded(t)
  BY <1>1, SameRecorded DEF SameProcesses
<1> DEFINE shown == [t \in Tids |-> Recorded(t)]
<1>4. shown = did
  BY <1>2 DEF Base, TInv, KernelInv
<1>5. shown' = [t \in Tids |-> Recorded(t)']
  OBVIOUS
<1>6. UNCHANGED shown
  BY <1>3, <1>5
<1>7. ~ (mpc = "committed") /\ (mpc = "committed")' = TRUE
  BY <1>1
<1> HIDE DEF shown
<1>8. Log!Close
  BY <1>1, <1>4, <1>6, <1>7 DEF Log!Close, shown
<1> QED
  BY <1>8 DEF LogStep, Log!LogNext

\* A child's first row is the first thing it did.
LEMMA ForkLogs ==
  ASSUME Placed, PhaseInv, RowsInv, RowsInv', TInv', NEW t \in Tids, ForkEvent(t), "db" \notin Faults
  PROVE  LogStep
<1> USE DEF Placed, Stopping, Base
<1> DEFINE n == Len(dbProcs) + 1
<1>1. /\ Waited(t) /\ Event(t) = "spawn" /\ tracee[t].child \in Tids /\ UNCHANGED did /\ mpc' = "poll"
      /\ Find(procs, t) \in Found(procs, t) /\ procs[Find(procs, t)].tg = t
  BY ForkDoes
<1>2. PICK c \in Tids : c = tracee[t].child
  BY <1>1
<1>3. mpc \in Looping /\ mpc # "committed" /\ mpc' \in Looping /\ mpc' # "committed" /\ Newborn(c, t)
  BY <1>1, <1>2, Reporter DEF RowsInv, NewRows, Spawning, Event, Looping
<1> DEFINE row == DbRow("wd", groups[t].wd, t)
           entry == [tid |-> c, exit |-> "none", parent |-> procs[Find(procs, t)].identifier]
<1>4. dbProcs' = Append(dbProcs, entry) /\ dbRows' = Append(dbRows, <<row>>)
  BY <1>1, <1>2, <1>3, ForkRow
<1> HIDE DEF row
<1>5. entry.tid = c
  OBVIOUS
<1> HIDE DEF entry
<1>6. /\ Len(dbProcs) \in Nat /\ DOMAIN dbProcs = 1 .. Len(dbProcs)
      /\ DOMAIN dbRows = DOMAIN dbProcs /\ Len(dbRows) = Len(dbProcs)
  BY RowsTyped DEF TInv, RowsInv, LogInv
<1>7. /\ DOMAIN dbProcs' = DOMAIN dbProcs \cup {n} /\ n \notin DOMAIN dbProcs
      /\ dbProcs'[n].tid = c /\ \A id \in DOMAIN dbProcs : dbProcs'[id] = dbProcs[id]
  BY <1>4, <1>5, <1>6 DEF TInv, WellTyped
<1>8. dbRows'[n] = <<row>> /\ \A id \in DOMAIN dbProcs : dbRows'[id] = dbRows[id]
  <2>1. dbRows \in Seq(Seq(Row))
    BY DEF TInv, WellTyped
  <2> DEFINE e == <<row>>
  <2>2. dbRows' = Append(dbRows, e)
    BY <1>4
  <2> HIDE DEF e
  <2>3. dbRows'[n] = e /\ \A id \in DOMAIN dbProcs : dbRows'[id] = dbRows[id]
    BY <1>6, <2>1, <2>2
  <2> QED
    BY <2>3 DEF e
<1>9. n \in Nat
  BY <1>6
<1> HIDE DEF n
<1>10. Recorded(c) = <<>>
  BY <1>3, NoRow DEF Newborn
<1>11. Ids(c) = {} /\ Ids(c)' = {n}
  BY <1>3, <1>7 DEF Newborn, Ids
<1>12. Minimum({n}) = n
  <2>1. Minimum({n}) \in {n}
    BY <1>9, MinimumExists
  <2> QED
    BY <2>1
<1>13. Recorded(c)' = <<row>>
  BY <1>8, <1>11, <1>12 DEF Recorded
<1>14. ASSUME NEW u \in Tids, u # c PROVE Recorded(u)' = Recorded(u)
  <2>1. Ids(u)' = Ids(u)
    BY <1>7, <1>14 DEF Ids
  <2>2. CASE Ids(u) = {}
    BY <2>1, <2>2 DEF Recorded
  <2>3. CASE Ids(u) # {}
    <3>1. Ids(u) \subseteq Nat
      BY <1>6 DEF Ids
    <3>2. Minimum(Ids(u)) \in DOMAIN dbProcs
      BY <2>3, <3>1, MinimumExists DEF Ids
    <3> QED
      BY <1>8, <2>1, <3>2 DEF Recorded
  <2> QED
    BY <2>2, <2>3
<1>15. did[c] = <<row>>
  <2>1. Begun(dbRows'[n], did'[dbProcs'[n].tid])
    BY <1>7 DEF RowsInv, LogInv
  <2>2. Begun(<<row>>, did[c])
    BY <1>1, <1>7, <1>8, <2>1
  <2>3. did[c][1] = row
    BY <2>2 DEF Begun
  <2> QED
    BY <1>3, <2>3 DEF Newborn
<1>16. /\ Len(Recorded(c)) < Len(did[c])
       /\ Recorded(c)' = Append(Recorded(c), did[c][Len(Recorded(c)) + 1])
  BY <1>10, <1>13, <1>15
<1> QED
  BY <1>1, <1>3, <1>14, <1>16, RecordStep

LEMMA RowLogs ==
  ASSUME Base, RowsInv, RowsInv', TInv', UNCHANGED <<did, dbProcs>>, mpc # "committed", mpc' # "committed",
         NEW id, NEW row, AddRow(id, row)
  PROVE  LogStep
<1>1. CASE id \in DOMAIN dbProcs
  <2>1. dbRows' = [dbRows EXCEPT ![id] = Append(@, row)]
    BY <1>1, RowsTyped DEF AddRow, RowsInv, Base, TInv
  <2> QED
    BY <1>1, <2>1, RowAdded DEF Base, RowsInv
<1>2. CASE id \notin DOMAIN dbProcs
  <2>1. UNCHANGED dbRows
    BY <1>2, RowsTyped DEF AddRow, RowsInv, Base, TInv
  <2> QED
    BY <2>1, SameRecorded, LogStands DEF SameProcesses
<1> QED
  BY <1>1, <1>2

LEMMA ExitLogs ==
  ASSUME Placed, PhaseInv, NEW t \in Tids, ExitReported(t)
  PROVE  LogStep
<1> USE DEF Placed, Stopping, Base
<1>1. /\ Waited(t) /\ tracee[t].ev = "exit" /\ UNCHANGED <<did, dbRows>>
      /\ \/ AddExit(procs[Find(procs, t)].identifier, tracee[t].ret) /\ mpc' = AfterExit(procs')
         \/ mpc' = "failed" /\ UNCHANGED dbProcs
  BY ExitDoes
<1>2. mpc # "committed" /\ mpc' # "committed"
  <2>1. mpc # "committed"
    BY <1>1, Reporter DEF Looping
  <2>2. AfterExit(procs') # "committed"
    BY AfterExitTyped
  <2> QED
    BY <1>1, <2>1, <2>2
<1>3. SameProcesses
  <2>1. tracee[t].ret \in {"exited", "killed"}
    BY <1>1 DEF TInv, KernelInv
  <2>2. UNCHANGED dbProcs => SameProcesses
    BY DEF SameProcesses
  <2> QED
    BY <1>1, <2>1, <2>2, AddExitKeeps DEF TInv
<1> QED
  BY <1>1, <1>2, <1>3, SameRecorded, LogStands

LEMMA QuietLogs ==
  ASSUME UNCHANGED <<did, dbProcs, dbRows>>, mpc' = "committed" <=> mpc = "committed"
  PROVE  LogStep
BY SameRecorded, LogStands DEF SameProcesses

LEMMA WorkerLogs ==
  ASSUME Placed, RowsInv, RowsInv', TInv', NEW t \in Tids, WorkerStep(t)
  PROVE  LogStep
<1>1. mpc # "committed" /\ mpc' # "committed"
  BY DEF WorkerStep, StopHandled, StopPeeks, BadPointer, PeekAgain, PathRead, InsertFails, Answered,
     Receives, Live, Looping
<1>2. CASE StopHandled(t) \/ StopPeeks(t) \/ BadPointer(t) \/ PeekAgain(t) \/ InsertFails(t) \/ Answered(t)
  BY <1>1, <1>2, QuietLogs
  DEF StopHandled, StopPeeks, BadPointer, PeekAgain, InsertFails, Answered, kernelVars, db
<1>3. CASE PathRead(t)
  <2>1. UNCHANGED <<did, dbProcs>>
    BY <1>3 DEF PathRead, kernelVars
  <2>2. UNCHANGED dbRows => LogStep
    BY <1>1, <2>1, QuietLogs
  <2>3. UNCHANGED dbRows \/ \E id, row : AddRow(id, row)
    BY <1>3 DEF PathRead, syscall_fileopening, syscall_chdir, syscall_execve_in
  <2> QED
    BY <1>1, <2>1, <2>2, <2>3, RowLogs DEF Placed, Stopping
<1> QED
  BY <1>2, <1>3 DEF WorkerStep

\* Every step of the tracer and of its tracees is one of TraceLog.
LEMMA NextLogs ==
  ASSUME Placed, PhaseInv, ToldInv, RowsInv, RowsInv', TInv', [Next]_vars, Unhurt',
         Kept, "db" \notin Faults
  PROVE  LogStep
<1> USE DEF Placed, Stopping
<1>1. ASSUME NEW t \in Tids,
             ExitWithoutWorker(t) \/ Appears(t) \/ Attached(t) \/ SyscallStop(t) \/ SignalForwarded(t)
      PROVE  LogStep
  <2>1. Waited(t)
    BY <1>1 DEF ExitWithoutWorker, Appears, Attached, SyscallStop, SignalForwarded, Stop
  <2>2. mpc # "committed"
    BY <2>1, Reporter DEF Looping
  <2>3. UNCHANGED <<did, dbProcs, dbRows>> /\ mpc' # "committed"
    BY <1>1, <2>2 DEF ExitWithoutWorker, Appears, Attached, SyscallStop, SignalForwarded, db
  <2> QED
    BY <2>2, <2>3, QuietLogs
<1>2. ASSUME NEW t \in Tids, ExecEvent(t) PROVE LogStep
  <2>1. /\ Waited(t) /\ UNCHANGED <<did, dbProcs>> /\ mpc' # "committed"
        /\ \E id, row : AddRow(id, row)
    BY <1>2, ExecDoes
  <2>2. mpc # "committed"
    BY <2>1, Reporter DEF Looping
  <2> QED
    BY <2>1, <2>2, RowLogs
<1>3. ASSUME NEW t \in Tids, WaitStep(t) PROVE LogStep
  BY <1>1, <1>2, <1>3, ExitLogs, ForkLogs DEF WaitStep
<1>4. CASE WaitNothing \/ WaitFails \/ Poll \/ Serve \/ Interrupt
  BY <1>4, QuietLogs
  DEF WaitNothing, WaitFails, Poll, Serve, Interrupt, Live, Looping, kernelVars, db
<1>5. CASE UNCHANGED vars
  BY <1>5, QuietLogs DEF vars, kernelVars, tracerVars, db
<1>6. ~ Rollback
  BY DEF Rollback, Kept
<1> QED
  BY <1>3, <1>4, <1>5, <1>6, CommitLogs, WorkerLogs, TraceeLogs DEF Next, MainStep, Stops

LEMMA LogStarts == Init => Log!LogInit
<1> SUFFICES ASSUME Init PROVE Log!LogInit
  OBVIOUS
<1>1. RowsInv
  BY RowsInit
<1> DEFINE r == DbRow("wd", 0, NoTid)
<1>2. /\ dbProcs = <<[tid |-> First, parent |-> 0, exit |-> "none"]>> /\ dbRows = <<<<r, r>>>>
      /\ \A t \in Tids : t # First => tracee[t].st = "unborn"
      /\ mpc = "wait" /\ did = [t \in Tids |-> did[t]] /\ did[First] = <<r, r>>
  BY FirstAssumption DEF Init, KernelInit, StartRow, DbRow, Born, NotBorn
<1>3. Ids(First) = {1}
  BY <1>2 DEF Ids
<1>4. Recorded(First) = did[First]
  <2>1. Minimum({1}) \in {1}
    BY MinimumExists
  <2> QED
    BY <1>2, <1>3, <2>1 DEF Recorded
<1>5. ASSUME NEW t \in Tids, t # First PROVE Recorded(t) = did[t]
  BY <1>1, <1>2, <1>5, NoRow DEF RowsInv, NewRows, NotBegun, Unborn
<1>6. did = [t \in Tids |-> Recorded(t)] /\ (mpc = "committed") = FALSE
  BY <1>2, <1>4, <1>5
<1> QED
  BY <1>6 DEF Log!LogInit

\* The trace is a log of what the programs do: each row is inserted once, in the
\* order of the calls it tells of and after them, and the transaction is committed
\* when all of them are in it. In programs without threads that nothing kills,
\* when the database takes every row.
THEOREM TracerImplementsLog == SelfExits /\ "db" \notin Faults => (Spec => ImplementsLog)
<1> SUFFICES ASSUME SelfExits, "db" \notin Faults PROVE Spec => ImplementsLog
  OBVIOUS
<1> DEFINE Inv == /\ Base /\ PipesInv /\ CallOrder
                  /\ (Unhurt => StillStopped /\ CreatorsInv /\ ToldInv /\ PhaseInv /\ RowsInv)
<1>1. Init => SomeLeft /\ Kept
  BY LeftInit DEF Init, Kept
<1>2. Inv /\ SomeLeft /\ Kept /\ [Next]_vars => (SomeLeft /\ Kept)'
  BY SelfExitsNoThreads, SomeLeftStep, KeptStep DEF Placed, Stopping
<1>3. Unhurt'
  BY DEF SelfExits, Unhurt
<1>4. Inv /\ Inv' /\ Kept /\ [Next]_vars => LogStep
  <2> SUFFICES ASSUME Inv, Inv', Kept, [Next]_vars PROVE LogStep
    OBVIOUS
  <2>1. RowsInv' /\ TInv'
    BY <1>3 DEF Base
  <2> QED
    BY <1>3, <2>1, SelfExitsNoThreads, NextLogs DEF Placed, Stopping
<1>5. Spec => []Inv
  BY RowsAlways, SelfExitsNoThreads, PTL
<1> QED
  BY <1>1, <1>2, <1>4, <1>5, LogStarts, PTL DEF Spec, ImplementsLog, Log!LogSpec, LogStep

==============================================================================
