---------------------------- MODULE TracerTables ----------------------------
(***************************************************************************)
(* The state of the tracer and of its tracees is well-formed in every      *)
(* reachable state: the two vectors of the main thread stay in step, and   *)
(* every variable has its type. Then the process table and the thread      *)
(* groups: no tid is in two slots, and the reference count of a thread     *)
(* group is the number of slots that point to it, whatever forks, execs,   *)
(* exits and faults happen, in any order. The counts are integers in the   *)
(* first part, and never go below zero by the second.                      *)
(***************************************************************************)
EXTENDS Tracer, Integers, FiniteSetTheorems, WellFoundedInduction, TLAPS

------------------------------------------------------------------------------
(* What the functions on the tracer's tables return, for every table.        *)

\* A relation that orders the naturals has a least element in every non-empty
\* set of them.
LEMMA LeastElement ==
  ASSUME NEW R, NEW S, S \subseteq Nat, S # {}, IsWellFoundedOn(R, Nat),
         \A x, y \in Nat : <<y, x>> \in R <=> y < x
  PROVE  \E x \in S : \A y \in S : x <= y
<1>1. PICK x \in S : \A y \in S : ~ (<<y, x>> \in R)
  BY WFMin
<1>2. ASSUME NEW y \in S PROVE x <= y
  <2>1. ~ (y < x)
    BY <1>1
  <2> QED
    BY <2>1
<1> QED
  BY <1>2

\* Minimum() returns the least element: the first entry that a loop meets.
LEMMA MinimumExists ==
  ASSUME NEW S, S \subseteq Nat, S # {}
  PROVE  Minimum(S) \in S /\ \A j \in S : Minimum(S) <= j
<1>1. \E x \in S : \A y \in S : x <= y
  <2>1. IsWellFoundedOn(OpToRel(<, Nat), Nat)
    BY NatLessThanWellFounded, Zenon
  <2>2. \A x, y \in Nat : <<y, x>> \in OpToRel(<, Nat) <=> y < x
    BY Zenon DEF OpToRel
  <2> QED
    BY <2>1, <2>2, LeastElement, Zenon
<1> QED
  BY <1>1 DEF Minimum

\* trace_find_process() returns a slot in use that has the tid asked for.
LEMMA FindFinds ==
  ASSUME NEW T, NEW ps \in Seq(Slot(T)), NEW t, Found(ps, t) # {}
  PROVE  /\ Find(ps, t) \in DOMAIN ps
         /\ Find(ps, t) \in InUse(ps)
         /\ ps[Find(ps, t)].tid = t
         /\ ps[Find(ps, t)].status # "FREE"
<1>1. Found(ps, t) \subseteq Nat
  BY DEF Found, InUse
<1>2. Find(ps, t) \in Found(ps, t)
  BY <1>1, MinimumExists DEF Find
<1> QED
  BY <1>2 DEF Found, InUse

\* vector_find_tid() returns an entry of the list that has the tid, or none.
LEMMA FindTidFinds ==
  ASSUME NEW T, NEW vec \in Seq(T), NEW t, 0 \notin T
  PROVE  /\ FindTid(vec, t) # 0 => FindTid(vec, t) \in DOMAIN vec /\ vec[FindTid(vec, t)] = t
         /\ FindTid(vec, t) = 0 => \A i \in DOMAIN vec : vec[i] # t
<1> DEFINE at == {i \in DOMAIN vec : vec[i] = t}
<1>1. at \subseteq Nat \ {0}
  OBVIOUS
<1>2. CASE at = {}
  BY <1>2 DEF FindTid
<1>3. CASE at # {}
  <2>1. Minimum(at) \in at
    BY <1>1, <1>3, MinimumExists
  <2>2. FindTid(vec, t) = Minimum(at)
    BY <1>3 DEF FindTid
  <2> QED
    BY <1>1, <2>1, <2>2
<1> QED
  BY <1>2, <1>3

\* Deleting one entry keeps the others, in order.
LEMMA DeleteKeeps ==
  ASSUME NEW T, NEW v \in Seq(T), NEW index \in DOMAIN v
  PROVE  /\ vector_delete(v, index) \in Seq(T)
         /\ Len(vector_delete(v, index)) = Len(v) - 1
         /\ \A i \in 1 .. Len(v) - 1 : vector_delete(v, index)[i] = IF i < index THEN v[i] ELSE v[i + 1]
<1>1. Len(v) \in Nat \ {0} /\ DOMAIN v = 1 .. Len(v)
  OBVIOUS
<1>2. \A i \in 1 .. Len(v) - 1 : (IF i < index THEN v[i] ELSE v[i + 1]) \in T
  BY <1>1
<1>3. vector_delete(v, index) \in [1 .. Len(v) - 1 -> T]
  BY <1>2 DEF vector_delete
<1> QED
  BY <1>1, <1>3 DEF vector_delete

\* trace_get_empty_process() returns a free slot of a table that has the slots
\* of the old one, and free slots besides.
LEMMA EmptySlotIsFree ==
  ASSUME NEW T, NEW ps \in Seq(Slot(T)), ps # <<>>
  PROVE  /\ WithRoom(ps) \in Seq(Slot(T))
         /\ Len(ps) <= Len(WithRoom(ps))
         /\ EmptySlot(ps) \in 1 .. Len(WithRoom(ps))
         /\ WithRoom(ps)[EmptySlot(ps)].status = "FREE"
         /\ \A i \in 1 .. Len(ps) : WithRoom(ps)[i] = ps[i]
         /\ \A i \in 1 .. Len(WithRoom(ps)) : i > Len(ps) => WithRoom(ps)[i] = FreeSlot
<1>1. Len(ps) \in Nat \ {0} /\ DOMAIN ps = 1 .. Len(ps)
  OBVIOUS
<1>2. FreeSlot \in Slot(T)
  BY DEF FreeSlot, Slot, SlotStatus, NoGroup, NoInfo, CallNumbers, ReturnValues
<1>3. CASE FreeSlots(ps) = {}
  <2>1. WithRoom(ps) = [i \in 1 .. 2 * Len(ps) |-> IF i <= Len(ps) THEN ps[i] ELSE FreeSlot]
    BY <1>3 DEF WithRoom
  <2>2. WithRoom(ps) \in [1 .. 2 * Len(ps) -> Slot(T)]
    BY <1>1, <1>2, <2>1
  <2>3. WithRoom(ps) \in Seq(Slot(T)) /\ Len(WithRoom(ps)) = 2 * Len(ps)
    BY <1>1, <2>2
  <2>4. EmptySlot(ps) = Len(ps) + 1
    BY <1>3 DEF EmptySlot
  <2>5. FreeSlot.status = "FREE"
    BY DEF FreeSlot
  <2> QED
    BY <1>1, <2>1, <2>3, <2>4, <2>5
<1>4. CASE FreeSlots(ps) # {}
  <2>1. FreeSlots(ps) \subseteq Nat
    BY <1>1 DEF FreeSlots
  <2>2. EmptySlot(ps) \in FreeSlots(ps)
    BY <1>4, <2>1, MinimumExists DEF EmptySlot
  <2>3. WithRoom(ps) = ps
    BY <1>4 DEF WithRoom
  <2> QED
    BY <1>1, <2>2, <2>3 DEF FreeSlots, InUse
<1> QED
  BY <1>3, <1>4

------------------------------------------------------------------------------
(* The vectors of the main thread: tid_worker_pipe_list and pollfds.         *)

\* The invariant is inductive with the type of the list.
VInv == list \in Seq(Tids) /\ VectorsAligned

LEMMA VInvInit == Init => VInv
BY DEF Init, VInv, VectorsAligned

\* A worker is created for a tid that has none: one more entry, of both vectors.
LEMMA AppendKeepsVInv ==
  ASSUME VInv, NEW t \in Tids, FindTid(list, t) = 0,
         list' = Append(list, t), pollfds' = Append(pollfds, t),
         num_workers' = num_workers + 1
  PROVE  VInv'
<1>1. \A i \in DOMAIN list : list[i] # t
  BY FindTidFinds, TidsAssumption DEF VInv, NoTid
<1>2. list' \in Seq(Tids) /\ Len(list') = Len(list) + 1
  BY DEF VInv
<1>3. \A i \in DOMAIN list' : list'[i] = IF i = Len(list) + 1 THEN t ELSE list[i]
  BY DEF VInv
<1>4. ASSUME NEW m \in DOMAIN list', NEW n \in DOMAIN list', list'[m] = list'[n]
      PROVE  m = n
  <2>1. DOMAIN list' = 1 .. Len(list) + 1 /\ DOMAIN list = 1 .. Len(list) /\ Len(list) \in Nat
    BY <1>2 DEF VInv
  <2>2. CASE m = Len(list) + 1
    BY <1>1, <1>3, <1>4, <2>1, <2>2
  <2>3. CASE n = Len(list) + 1
    BY <1>1, <1>3, <1>4, <2>1, <2>3
  <2>4. CASE m # Len(list) + 1 /\ n # Len(list) + 1
    BY <1>3, <1>4, <2>1, <2>4 DEF VInv, VectorsAligned
  <2> QED
    BY <2>2, <2>3, <2>4
<1>5. pollfds' = list' /\ num_workers' = Len(list')
  BY <1>2 DEF VInv, VectorsAligned
<1> QED
  BY <1>2, <1>4, <1>5 DEF VInv, VectorsAligned

\* An exit deletes the entry of one index from both.
LEMMA DeleteKeepsVInv ==
  ASSUME VInv, NEW index \in DOMAIN list,
         list' = vector_delete(list, index), pollfds' = vpollfd_delete(pollfds, index),
         num_workers' = num_workers - 1
  PROVE  VInv'
<1>1. /\ list' \in Seq(Tids) /\ Len(list') = Len(list) - 1
      /\ \A i \in 1 .. Len(list) - 1 : list'[i] = IF i < index THEN list[i] ELSE list[i + 1]
  BY DeleteKeeps DEF VInv
<1>2. Len(list) \in Nat \ {0} /\ DOMAIN list = 1 .. Len(list) /\ DOMAIN list' = 1 .. Len(list) - 1
  BY <1>1 DEF VInv
<1>3. ASSUME NEW m \in DOMAIN list', NEW n \in DOMAIN list', list'[m] = list'[n]
      PROVE  m = n
  <2> DEFINE at(i) == IF i < index THEN i ELSE i + 1
  <2>1. at(m) \in DOMAIN list /\ at(n) \in DOMAIN list
    BY <1>2
  <2>2. list'[m] = list[at(m)] /\ list'[n] = list[at(n)]
    BY <1>1, <1>2
  <2>3. at(m) = at(n)
    BY <1>3, <2>1, <2>2 DEF VInv, VectorsAligned
  <2> QED
    BY <1>2, <2>3
<1>4. pollfds' = list'
  BY DEF VInv, VectorsAligned, vector_delete, vpollfd_delete
<1>5. num_workers' = Len(list')
  BY <1>1 DEF VInv, VectorsAligned
<1> QED
  BY <1>1, <1>3, <1>4, <1>5 DEF VInv, VectorsAligned

LEMMA VInvStep == VInv /\ [Next]_vars => VInv'
<1> SUFFICES ASSUME VInv, [Next]_vars PROVE VInv'
  OBVIOUS
<1>1. CASE UNCHANGED pool
  BY <1>1 DEF VInv, VectorsAligned, pool
<1>2. ASSUME NEW t \in Tids, ExitReported(t) PROVE VInv'
  <2>1. FindTid(list, t) \in DOMAIN list
    BY <1>2, FindTidFinds, TidsAssumption DEF ExitReported, VInv, NoTid
  <2> QED
    BY <1>2, <2>1, DeleteKeepsVInv DEF ExitReported
<1>3. ASSUME NEW t \in Tids, SyscallStop(t) PROVE VInv'
  <2>1. CASE FindTid(list, t) = 0
    BY <1>3, <2>1, AppendKeepsVInv DEF SyscallStop
  <2>2. CASE FindTid(list, t) # 0
    BY <1>1, <1>3, <2>2 DEF SyscallStop, pool
  <2> QED
    BY <2>1, <2>2
<1>4. ASSUME NEW t \in Tids, WaitStep(t) PROVE VInv'
  <2>1. CASE ExitWithoutWorker(t) \/ Appears(t) \/ Attached(t) \/ ForkEvent(t) \/ SignalForwarded(t)
    BY <1>1, <2>1 DEF ExitWithoutWorker, Appears, Attached, ForkEvent, SignalForwarded
  <2>2. CASE ExecEvent(t)
    BY <1>1, <2>2 DEF ExecEvent
  <2> QED
    BY <1>2, <1>3, <1>4, <2>1, <2>2 DEF WaitStep
<1>5. CASE MainStep
  BY <1>1, <1>4, <1>5 DEF MainStep, WaitNothing, WaitFails, Poll, Serve, Commit, Rollback
<1>6. ASSUME NEW t \in Tids, WorkerStep(t) PROVE VInv'
  BY <1>1, <1>6 DEF WorkerStep, StopHandled, StopPeeks, BadPointer, PeekAgain, PathRead,
                    InsertFails, Answered
<1>7. CASE Interrupt
  BY <1>1, <1>7 DEF Interrupt
<1>8. ASSUME NEW t \in Tids, TraceeStep(t) PROVE VInv'
  BY <1>1, <1>8 DEF TraceeStep, tracerVars, pool
<1>9. CASE Stops \/ UNCHANGED vars
  BY <1>1, <1>9 DEF Stops, vars, tracerVars, pool
<1> QED
  BY <1>5, <1>6, <1>7, <1>8, <1>9 DEF Next

\* The vectors that trace() indexes with one index always belong together:
\* pollfds[i] is the pipe of the worker of tid_worker_pipe_list[i].
THEOREM VectorsStayAligned == Spec => []VectorsAligned
<1>1. VInv => VectorsAligned
  BY DEF VInv
<1> QED
  BY <1>1, VInvInit, VInvStep, PTL DEF Spec

------------------------------------------------------------------------------
(* The tracees.                                                              *)

\* Types of the kernel's variables; a tracee that was born is in a group, one
\* that exited has a reason for it, one that forked has a child.
KernelInv ==
    /\ tracee \in [Tids -> Tracee]
    /\ cwd \in [Tids -> Nat] /\ did \in [Tids -> Seq(Row)] /\ left \in Nat
    /\ \A t \in Tids : tracee[t].st # "unborn" => tracee[t].grp \in Tids
    /\ \A t \in Tids : tracee[t].ev = "exit" => tracee[t].ret \in {"exited", "killed"}
    /\ \A t \in Tids : tracee[t].ev = "spawn" => tracee[t].child \in Tids

\* One tracee's part of it.
GoodTracee(s) == /\ s \in Tracee
                 /\ s.st # "unborn" => s.grp \in Tids
                 /\ s.ev = "exit" => s.ret \in {"exited", "killed"}
                 /\ s.ev = "spawn" => s.child \in Tids

LEMMA KernelInvIsGood ==
  KernelInv <=> /\ cwd \in [Tids -> Nat] /\ did \in [Tids -> Seq(Row)] /\ left \in Nat
                /\ tracee \in [Tids -> Tracee]
                /\ \A t \in Tids : GoodTracee(tracee[t])
BY DEF KernelInv, GoodTracee

LEMMA BornIsGood == \A g \in Tids : GoodTracee(Born(g))
BY DEF GoodTracee, Born, NotBorn, Tracee, States, Events, Status, CallKinds, NoTid

LEMMA NotBornIsGood == GoodTracee(NotBorn)
BY DEF GoodTracee, NotBorn, Tracee, States, Events, Status, CallKinds, NoTid

\* What wait3() and PTRACE_SYSCALL leave of a tracee.
LEMMA ReapedIsGood ==
  ASSUME NEW s, GoodTracee(s) PROVE GoodTracee(Reaped(s))
<1>1. Reaped(s) \in Tracee
  BY DEF GoodTracee, Reaped, Tracee, States, Events
<1> QED
  BY <1>1 DEF GoodTracee, Reaped, Tracee

LEMMA ResumedIsGood ==
  ASSUME NEW s, GoodTracee(s) PROVE GoodTracee(Resumed(s))
<1>1. Resumed(s) \in Tracee
  BY DEF GoodTracee, Resumed, Tracee, States, Events
<1> QED
  BY <1>1 DEF GoodTracee, Resumed, Tracee

\* A stop, with whatever the tracee stopped at.
LEMMA StoppedIsGood ==
  ASSUME NEW s, GoodTracee(s), s.st # "unborn", NEW e \in Events \ {"exit", "spawn"},
         NEW at \in {"user", "call", "return", "sig"}
  PROVE  GoodTracee([Stopped(s, e) EXCEPT !.at = at])
<1>1. [Stopped(s, e) EXCEPT !.at = at] \in Tracee
  BY DEF GoodTracee, Stopped, Tracee, States, Events
<1> QED
  BY <1>1 DEF GoodTracee, Stopped, Tracee

LEMMA DeadIsGood ==
  ASSUME NEW s, GoodTracee(s), s.st # "unborn", NEW why \in {"exited", "killed"}
  PROVE  GoodTracee(Dead(s, why))
<1>1. Dead(s, why) \in Tracee
  BY DEF GoodTracee, Dead, Tracee, States, Events, Status
<1> QED
  BY <1>1 DEF GoodTracee, Dead, Tracee

LEMMA KillAllIsGood ==
  ASSUME KernelInv, NEW ts, NEW why \in {"exited", "killed"}
  PROVE  /\ KillAll(ts, why) \in [Tids -> Tracee]
         /\ \A t \in Tids : GoodTracee(KillAll(ts, why)[t])
<1>1. \A t \in Tids : GoodTracee(tracee[t])
  BY KernelInvIsGood
<1>2. \A t \in Tids : Alive(t) => GoodTracee(Dead(tracee[t], why))
  BY <1>1, DeadIsGood DEF Alive
<1>3. \A t \in Tids : GoodTracee(KillAll(ts, why)[t])
  BY <1>1, <1>2 DEF KillAll
<1> QED
  BY <1>3 DEF KillAll, GoodTracee

LEMMA KernelInvInit == KernelInit => KernelInv
<1> SUFFICES ASSUME KernelInit PROVE KernelInv
  OBVIOUS
<1>1. cwd \in [Tids -> Nat] /\ left \in Nat
  BY BoundAssumption DEF KernelInit
<1>2. StartRow \in Row
  BY DEF StartRow, Row, NoTid
<1>3. did \in [Tids -> Seq(Row)]
  BY <1>2 DEF KernelInit
<1>4. \A t \in Tids : GoodTracee(tracee[t])
  BY FirstAssumption, BornIsGood, NotBornIsGood DEF KernelInit
<1>5. tracee \in [Tids -> Tracee]
  BY <1>4 DEF KernelInit, GoodTracee
<1> QED
  BY <1>1, <1>3, <1>4, <1>5, KernelInvIsGood

LEMMA KernelInvStep ==
  ASSUME KernelInv, NEW t \in Tids, KernelStep(t)
  PROVE  KernelInv'
<1> USE DEF NoTid
<1>0. \A u \in Tids : GoodTracee(tracee[u])
  BY KernelInvIsGood
<1>1. \A at \in {"user", "call"} : Running(t, at) =>
         tracee[t].st # "unborn" /\ tracee[t].grp \in Tids /\ Here(t) \in Nat
  BY DEF Running, KernelInv, Here
<1>2. ASSUME NEW s \in [Tids -> Tracee], tracee' = s, \A u \in Tids : GoodTracee(s[u]),
             cwd' \in [Tids -> Nat], did' \in [Tids -> Seq(Row)], left' \in Nat
      PROVE  KernelInv'
  BY <1>2 DEF KernelInv, GoodTracee
<1>3. ASSUME NEW u \in Tids, NEW k \in {"wd", "open", "exec"}, NEW d \in Nat,
             NEW b \in Tids \cup {NoTid}, Did(u, k, d, b)
      PROVE  did' \in [Tids -> Seq(Row)]
  <2>1. [kind |-> k, dir |-> d, by |-> b] \in Row
    BY DEF Row
  <2>2. Append(did[u], [kind |-> k, dir |-> d, by |-> b]) \in Seq(Row)
    BY <2>1 DEF KernelInv
  <2> QED
    BY <1>3, <2>2 DEF Did, KernelInv
<1>4. CASE EnterCall(t)
  <2>1. PICK c \in Calls \cup {"exit_group"} :
           /\ c \in {"exit", "exit_group"} \/ left > 0
           /\ tracee' = [tracee EXCEPT ![t] = [Stopped(@, "sysin") EXCEPT !.at = "call", !.call = c]]
           /\ left' = IF c \in {"exit", "exit_group"} THEN left ELSE left - 1
    BY <1>4 DEF EnterCall
  <2>2. GoodTracee([Stopped(tracee[t], "sysin") EXCEPT !.at = "call", !.call = c])
    <3> DEFINE s == [Stopped(tracee[t], "sysin") EXCEPT !.at = "call"]
    <3>1. GoodTracee(s)
      BY <1>0, <1>1, <1>4, StoppedIsGood DEF EnterCall, Events
    <3>2. c \in CallKinds \cup {"none", "exit_group"}
      BY CallsAssumption
    <3>3. GoodTracee([s EXCEPT !.call = c])
      <4> HIDE DEF s
      <4>1. [s EXCEPT !.call = c] \in Tracee
        BY <3>1, <3>2 DEF GoodTracee, Tracee
      <4> QED
        BY <3>1, <4>1 DEF GoodTracee, Tracee
    <3> QED
      BY <3>3, Zenon
  <2>3. left' \in Nat
    BY <2>1 DEF KernelInv
  <2>4. \A u \in Tids : GoodTracee(tracee'[u])
    BY <1>0, <2>1, <2>2 DEF KernelInv
  <2>5. tracee' \in [Tids -> Tracee]
    BY <2>1, <2>2 DEF KernelInv, GoodTracee
  <2> QED
    BY <1>2, <1>4, <2>3, <2>4, <2>5 DEF EnterCall, KernelInv
<1>5. ASSUME NEW r \in {"ok", "error", "efault"}, ReturnWith(t, r), tracee[t].st # "unborn"
      PROVE  tracee' \in [Tids -> Tracee] /\ \A u \in Tids : GoodTracee(tracee'[u])
  <2>1. GoodTracee([Stopped(tracee[t], "sysout") EXCEPT !.at = "user", !.ret = r])
    <3> DEFINE s == [Stopped(tracee[t], "sysout") EXCEPT !.at = "user"]
    <3>1. GoodTracee(tracee[t]) /\ s.ev = "sysout"
      BY <1>0 DEF Stopped, GoodTracee, Tracee
    <3>2. GoodTracee(s)
      BY <1>5, <3>1, StoppedIsGood DEF Events
    <3>3. GoodTracee([s EXCEPT !.ret = r])
      <4> HIDE DEF s
      <4>1. [s EXCEPT !.ret = r] \in Tracee
        BY <3>2 DEF GoodTracee, Tracee, Status
      <4> QED
        BY <3>1, <3>2, <4>1 DEF GoodTracee, Tracee
    <3> QED
      BY <3>3, Zenon
  <2> QED
    BY <1>0, <1>5, <2>1 DEF ReturnWith, KernelInv, GoodTracee
<1>6. CASE PathCallSucceeds(t)
  <2>1. did' \in [Tids -> Seq(Row)] /\ cwd' \in [Tids -> Nat]
    <3>1. CASE Did(t, "open", Here(t), t) /\ UNCHANGED cwd
      BY <1>1, <1>3, <1>6, <3>1 DEF PathCallSucceeds, KernelInv
    <3>2. CASE Did(t, "wd", Here(t) + 1, t) /\ cwd' = [cwd EXCEPT ![tracee[t].grp] = @ + 1]
      <4>1. Here(t) + 1 \in Nat
        BY <1>1, <1>6 DEF PathCallSucceeds
      <4>2. did' \in [Tids -> Seq(Row)]
        BY <1>3, <3>2, <4>1
      <4>3. cwd' \in [Tids -> Nat]
        BY <3>2, <4>1 DEF KernelInv, Here
      <4> QED
        BY <4>2, <4>3
    <3> QED
      BY <1>6, <3>1, <3>2 DEF PathCallSucceeds
  <2>2. tracee' \in [Tids -> Tracee] /\ \A u \in Tids : GoodTracee(tracee'[u])
    BY <1>1, <1>5, <1>6 DEF PathCallSucceeds
  <2> QED
    BY <1>2, <1>6, <2>1, <2>2 DEF PathCallSucceeds, KernelInv
<1>7. CASE CallFails(t)
  <2>1. tracee' \in [Tids -> Tracee] /\ \A u \in Tids : GoodTracee(tracee'[u])
    BY <1>1, <1>5, <1>7 DEF CallFails
  <2> QED
    BY <1>2, <1>7, <2>1 DEF CallFails, KernelInv
<1>8. CASE Spawn(t)
  <2> DEFINE g(c) == IF tracee[t].call = "fork" THEN c ELSE tracee[t].grp
  <2>1. PICK c \in Unborn :
           /\ tracee' = [tracee EXCEPT
                 ![t] = [Stopped(@, "spawn") EXCEPT !.at = "return", !.child = c],
                 ![c] = Born(g(c))]
           /\ cwd' = IF tracee[t].call = "fork" THEN [cwd EXCEPT ![c] = Here(t)] ELSE cwd
           /\ Did(c, "wd", Here(t), t)
    BY <1>8 DEF Spawn
  <2>2. Running(t, "call") /\ c \in Tids /\ c # t
    BY <1>1, <1>8, <2>1 DEF Spawn, Unborn
  <2>3. GoodTracee([Stopped(tracee[t], "spawn") EXCEPT !.at = "return", !.child = c])
    BY <1>0, <1>1, <2>2 DEF GoodTracee, Stopped, Tracee, States, Events
  <2>4. GoodTracee(Born(g(c)))
    BY <1>1, <2>2, BornIsGood
  <2>5. \A u \in Tids : GoodTracee(tracee'[u])
    BY <1>0, <2>1, <2>2, <2>3, <2>4 DEF KernelInv
  <2>6. tracee' \in [Tids -> Tracee]
    BY <2>1, <2>2, <2>3, <2>4 DEF KernelInv, GoodTracee
  <2>7. did' \in [Tids -> Seq(Row)] /\ cwd' \in [Tids -> Nat]
    BY <1>1, <1>3, <2>1, <2>2 DEF KernelInv
  <2> QED
    BY <1>2, <1>8, <2>5, <2>6, <2>7 DEF Spawn, KernelInv
<1>9. CASE ExecKills(t)
  <2> DEFINE k == KillAll(Others(t), "exited")
  <2>1. k \in [Tids -> Tracee] /\ \A u \in Tids : GoodTracee(k[u])
    BY KillAllIsGood
  <2>2. GoodTracee([k[t] EXCEPT !.st = "execwait"])
    <3>1. k[t] = tracee[t]
      BY DEF KillAll, Others
    <3> QED
      BY <1>1, <1>9, <2>1, <3>1 DEF ExecKills, GoodTracee, Tracee, States
  <2>3. tracee' = [k EXCEPT ![t].st = "execwait"]
    BY <1>9 DEF ExecKills
  <2>4. tracee' \in [Tids -> Tracee] /\ \A u \in Tids : GoodTracee(tracee'[u])
    BY <2>1, <2>2, <2>3 DEF GoodTracee
  <2> QED
    BY <1>2, <1>9, <2>4 DEF ExecKills, KernelInv
<1>10. CASE Exec(t)
  <2>1. tracee[t].st # "unborn" /\ tracee[t].grp \in Tids /\ Here(t) \in Nat
    BY <1>10 DEF Exec, KernelInv, Here
  <2>2. GoodTracee([Stopped(tracee[t], "exec") EXCEPT !.at = "return"])
    BY <1>0, <2>1 DEF GoodTracee, Stopped, Tracee, States, Events
  <2>3. GoodTracee([tracee[t] EXCEPT !.st = "gone"])
    BY <1>0, <2>1 DEF GoodTracee, Tracee, States
  <2>4. tracee' \in [Tids -> Tracee] /\ \A u \in Tids : GoodTracee(tracee'[u])
    BY <1>0, <1>10, <2>2, <2>3 DEF Exec, GoodTracee
  <2>5. did' \in [Tids -> Seq(Row)]
    BY <1>3, <1>10, <2>1 DEF Exec
  <2> QED
    BY <1>2, <1>10, <2>4, <2>5 DEF Exec, KernelInv
<1>11. CASE FinishCall(t)
  <2>1. tracee' \in [Tids -> Tracee] /\ \A u \in Tids : GoodTracee(tracee'[u])
    BY <1>5, <1>11 DEF FinishCall, Running
  <2> QED
    BY <1>2, <1>11, <2>1 DEF FinishCall, KernelInv
<1>12. ASSUME NEW ts, NEW why \in {"exited", "killed"}, tracee' = KillAll(ts, why),
              UNCHANGED <<cwd, did>>, left' \in Nat
       PROVE  KernelInv'
  BY <1>2, <1>12, KillAllIsGood DEF KernelInv
<1>13. CASE Exit(t)
  BY <1>12, <1>13 DEF Exit, KernelInv
<1>14. CASE Kill(t)
  BY <1>12, <1>14 DEF Kill, KernelInv
<1>15. CASE SignalStop(t)
  <2>1. GoodTracee([Stopped(tracee[t], "signal") EXCEPT !.at = "sig"])
    <3>1. GoodTracee(tracee[t]) /\ tracee[t].st # "unborn"
      BY <1>0, <1>1, <1>15 DEF SignalStop
    <3> QED
      BY <3>1, StoppedIsGood DEF Events
  <2>2. tracee' \in [Tids -> Tracee] /\ \A u \in Tids : GoodTracee(tracee'[u])
    BY <1>0, <1>15, <2>1 DEF SignalStop, KernelInv, GoodTracee
  <2> QED
    <3>1. left' \in Nat
      BY <1>15 DEF SignalStop, KernelInv
    <3> QED
      BY <1>2, <1>15, <2>2, <3>1 DEF SignalStop, KernelInv
<1>16. CASE SignalDelivered(t)
  <2>1. CASE tracee' = [tracee EXCEPT ![t].at = "user"]
    <3>1. GoodTracee([tracee[t] EXCEPT !.at = "user"])
      BY <1>0 DEF GoodTracee, Tracee
    <3>2. tracee' \in [Tids -> Tracee] /\ \A u \in Tids : GoodTracee(tracee'[u])
      BY <1>0, <2>1, <3>1 DEF KernelInv, GoodTracee
    <3> QED
      BY <1>2, <1>16, <3>2 DEF SignalDelivered, KernelInv
  <2> QED
    BY <1>12, <1>16, <2>1 DEF SignalDelivered, KernelInv
<1> QED
  BY <1>4, <1>6, <1>7, <1>8, <1>9, <1>10, <1>11, <1>13, <1>14, <1>15, <1>16 DEF KernelStep

------------------------------------------------------------------------------
(* The tracer's own state.                                                   *)

Groups == [refs: Int, wd: Nat]

WellTyped ==
    /\ procs \in Seq(Slot(Tids)) /\ procs # <<>>
    /\ groups \in [Tids -> Groups]
    /\ mpc \in Live \cup Finished
    /\ todo \in SUBSET Nat
    /\ exit_status \in {"none", "exited", "killed"}
    /\ workers \in [Tids -> Worker]
    /\ toWorker \in [Tids -> Seq(Word)] /\ toTracer \in [Tids -> Seq(Request)]
    /\ dbProcs \in Seq(ProcRow) /\ dbRows \in Seq(Seq(Row))

\* Every struct Process* that is sent or in use points into the table.
InTable(i) == i \in DOMAIN procs
PointersInv ==
    /\ \A t \in Tids : workers[t].pc = "peek" => InTable(workers[t].slot)
    /\ \A t \in Tids : \A n \in DOMAIN toWorker[t] :
          toWorker[t][n].word = "ptr" => InTable(toWorker[t][n].arg)

\* What poll() found ready is still there to be read.
ServeInv ==
    mpc = "serve" => /\ todo # {}
                     /\ \A n \in todo : n \in DOMAIN pollfds /\ toTracer[pollfds[n]] # <<>>

TInv == KernelInv /\ WellTyped /\ PointersInv /\ ServeInv

LEMMA FreeSlotIsSlot == FreeSlot \in Slot(Tids)
BY DEF FreeSlot, Slot, SlotStatus, NoGroup, NoInfo, CallNumbers, ReturnValues

\* A slot that is written to stays a slot.
LEMMA SlotEdits ==
  ASSUME NEW s \in Slot(Tids)
  PROVE  /\ \A k \in Tracee : WithRegisters(s, k) \in Slot(Tids)
         /\ Handled(s) \in Slot(Tids)
         /\ ExecdIgnored(s) \in Slot(Tids)
         /\ Toggled(s) \in Slot(Tids)
         /\ \A b \in Tids \cup {NoTid} : [s EXCEPT !.execve_info = b] \in Slot(Tids)
<1> USE DEF Slot, NoInfo, NoTid
<1>1. ASSUME NEW k \in Tracee PROVE WithRegisters(s, k) \in Slot(Tids)
  BY DEF WithRegisters, Tracee, Status, CallKinds, CallNumbers, ReturnValues
<1>2. Handled(s) \in Slot(Tids)
  <2>1. /\ [s EXCEPT !.flags = @ \cup {"FORKING"}] \in Slot(Tids)
        /\ [s EXCEPT !.flags = @ \ {"FORKING"}] \in Slot(Tids)
        /\ [s EXCEPT !.execve_info = 0] \in Slot(Tids)
    OBVIOUS
  <2> QED
    BY <2>1, Zenon DEF Handled
<1>3. ExecdIgnored(s) \in Slot(Tids)
  BY DEF ExecdIgnored
<1>4. Toggled(s) \in Slot(Tids)
  BY DEF Toggled, GivesUp, CallNumbers
<1>5. ASSUME NEW b \in Tids \cup {NoTid} PROVE [s EXCEPT !.execve_info = b] \in Slot(Tids)
  OBVIOUS
<1> QED
  BY <1>1, <1>2, <1>3, <1>4, <1>5

LEMMA FunctionIsSeq ==
  ASSUME NEW S, NEW n \in Nat, NEW f \in [1 .. n -> S]
  PROVE  f \in Seq(S) /\ Len(f) = n
OBVIOUS

LEMMA AppendTyped ==
  ASSUME NEW S, NEW q \in Seq(S), NEW e \in S
  PROVE  Append(q, e) \in Seq(S)
OBVIOUS

LEMMA EditTable ==
  ASSUME NEW ps \in Seq(Slot(Tids)), NEW i, NEW s, i \in DOMAIN ps => s \in Slot(Tids)
  PROVE  [ps EXCEPT ![i] = s] \in Seq(Slot(Tids)) /\ DOMAIN [ps EXCEPT ![i] = s] = DOMAIN ps
<1> DEFINE qs == [ps EXCEPT ![i] = s]
<1>1. ps \in [1 .. Len(ps) -> Slot(Tids)] /\ Len(ps) \in Nat
  OBVIOUS
<1>2. \A j \in 1 .. Len(ps) : qs[j] \in Slot(Tids)
  BY <1>1
<1>3. qs \in [1 .. Len(ps) -> Slot(Tids)]
  BY <1>1, <1>2
<1> QED
  BY <1>1, <1>3

LEMMA FreeProcessTyped ==
  ASSUME NEW ps \in Seq(Slot(Tids)), NEW i \in DOMAIN ps
  PROVE  /\ FreeProcess(ps, i) \in Seq(Slot(Tids))
         /\ DOMAIN FreeProcess(ps, i) = DOMAIN ps
         /\ FreeProcess(ps, i)[i] \in Slot(Tids)
         /\ FreeProcess(ps, i)[i].tg = NoGroup
<1> DEFINE s == [ps[i] EXCEPT !.status = "FREE", !.tg = NoGroup, !.execve_info = NoInfo]
<1>1. s \in Slot(Tids) /\ s.tg = NoGroup
  <2>1. ps[i] \in Slot(Tids)
    OBVIOUS
  <2>2. \A r \in Slot(Tids) :
           /\ [r EXCEPT !.status = "FREE"] \in Slot(Tids)
           /\ [r EXCEPT !.tg = NoGroup] \in Slot(Tids)
           /\ [r EXCEPT !.execve_info = NoInfo] \in Slot(Tids)
    BY DEF Slot, SlotStatus, NoGroup, NoInfo
  <2>3. s = [[[ps[i] EXCEPT !.status = "FREE"] EXCEPT !.tg = NoGroup] EXCEPT !.execve_info = NoInfo]
    OBVIOUS
  <2>4. s \in Slot(Tids)
    BY <2>1, <2>2, <2>3
  <2>5. s.tg = NoGroup
    BY <2>1 DEF Slot
  <2> QED
    BY <2>4, <2>5
<1>2. FreeProcess(ps, i) = [ps EXCEPT ![i] = s]
  BY DEF FreeProcess
<1> QED
  BY <1>1, <1>2, EditTable

LEMMA DropThreadGroupTyped ==
  ASSUME NEW gs \in [Tids -> Groups], NEW g
  PROVE  DropThreadGroup(gs, g) \in [Tids -> Groups]
<1>1. CASE g \in Tids /\ g # NoGroup
  <2> DEFINE w == IF gs[g].refs = 1 THEN 0 ELSE gs[g].wd
             r == [[gs[g] EXCEPT !.refs = gs[g].refs - 1] EXCEPT !.wd = w]
  <2>1. DropThreadGroup(gs, g) = [gs EXCEPT ![g] = r]
    BY <1>1 DEF DropThreadGroup
  <2>2. gs[g] \in Groups /\ gs[g].refs - 1 \in Int /\ w \in Nat
    BY <1>1 DEF Groups
  <2>3. r \in Groups
    BY <2>2 DEF Groups
  <2> QED
    BY <2>1, <2>3
<1>2. CASE g \notin Tids \/ g = NoGroup
  BY <1>2 DEF DropThreadGroup
<1> QED
  BY <1>1, <1>2

LEMMA AddRowTyped ==
  ASSUME dbRows \in Seq(Seq(Row)), NEW id, NEW row \in Row, AddRow(id, row)
  PROVE  dbRows' \in Seq(Seq(Row))
<1>1. CASE id \in DOMAIN dbRows
  <2>1. Append(dbRows[id], row) \in Seq(Row)
    BY <1>1
  <2> QED
    BY <1>1, <2>1 DEF AddRow
<1>2. CASE id \notin DOMAIN dbRows
  BY <1>2 DEF AddRow
<1> QED
  BY <1>1, <1>2

LEMMA AddExitTyped ==
  ASSUME dbProcs \in Seq(ProcRow), NEW id, NEW why \in {"exited", "killed", "execed"},
         AddExit(id, why)
  PROVE  dbProcs' \in Seq(ProcRow)
<1>1. CASE id \in DOMAIN dbProcs
  <2>0. dbProcs[id] \in ProcRow
    BY <1>1
  <2>1. [dbProcs[id] EXCEPT !.exit = why] \in ProcRow
    BY <2>0 DEF ProcRow
  <2> QED
    BY <1>1, <2>1 DEF AddExit
<1>2. CASE id \notin DOMAIN dbProcs
  BY <1>2 DEF AddExit
<1> QED
  BY <1>1, <1>2

LEMMA TInvInit == Init => TInv
<1> SUFFICES ASSUME Init PROVE TInv
  OBVIOUS
<1> USE DEF Init
<1>1. KernelInv
  BY KernelInvInit
<1>2. procs \in Seq(Slot(Tids)) /\ procs # <<>>
  <2> DEFINE s == [FreeSlot EXCEPT !.status = "ALLOCATED", !.tid = First, !.tg = First,
                                   !.identifier = 1]
  <2>1. s \in Slot(Tids)
    BY FirstAssumption DEF FreeSlot, Slot, SlotStatus, NoGroup, NoInfo, CallNumbers, ReturnValues
  <2>2. procs \in [1 .. InitSlots -> Slot(Tids)]
    BY <2>1, FreeSlotIsSlot
  <2>3. procs \in Seq(Slot(Tids))
    BY <2>2, SlotsAssumption, FunctionIsSeq
  <2>4. 1 \in DOMAIN procs
    BY <2>2, SlotsAssumption
  <2> QED
    BY <2>3, <2>4
<1>3. groups \in [Tids -> Groups]
  BY DEF Groups
<1>4. workers \in [Tids -> Worker]
  BY DEF NoWorker, Worker, Handlers, NoTid
<1>5. toWorker \in [Tids -> Seq(Word)] /\ toTracer \in [Tids -> Seq(Request)]
  OBVIOUS
<1>6. dbProcs \in Seq(ProcRow)
  BY FirstAssumption DEF ProcRow
<1>7. dbRows \in Seq(Seq(Row))
  <2>1. DbRow("wd", 0, NoTid) \in Row
    BY DEF DbRow, Row
  <2> QED
    BY <2>1
<1>8. PointersInv
  BY DEF PointersInv, NoWorker
<1> QED
  BY <1>1, <1>2, <1>3, <1>4, <1>5, <1>6, <1>7, <1>8
     DEF TInv, WellTyped, ServeInv, Live, Looping, Finished

------------------------------------------------------------------------------
(* Steps of the main thread.                                                 *)

LEMMA FoundInTable ==
  ASSUME WellTyped, NEW t, Found(procs, t) # {}
  PROVE  /\ Find(procs, t) \in DOMAIN procs
         /\ procs[Find(procs, t)] \in Slot(Tids)
         /\ procs[Find(procs, t)].tid = t
<1>1. procs \in Seq(Slot(Tids))
  BY DEF WellTyped
<1>2. Find(procs, t) \in DOMAIN procs /\ procs[Find(procs, t)].tid = t
  BY <1>1, FindFinds
<1> QED
  BY <1>1, <1>2

\* Only the state of one tracee changes.
LEMMA OneTracee ==
  ASSUME KernelInv, NEW t, NEW s, t \in Tids => GoodTracee(s),
         tracee' = [tracee EXCEPT ![t] = s], UNCHANGED <<cwd, did, left>>
  PROVE  KernelInv'
<1>1. \A u \in Tids : GoodTracee(tracee'[u])
  BY KernelInvIsGood DEF KernelInv
<1>2. tracee' \in [Tids -> Tracee]
  BY <1>1 DEF KernelInv, GoodTracee
<1> QED
  BY <1>1, <1>2 DEF KernelInv, GoodTracee

LEMMA ReapTracee ==
  ASSUME KernelInv, NEW t \in Tids, UNCHANGED <<cwd, did, left>>,
         \/ tracee' = [tracee EXCEPT ![t] = Reaped(@)]
         \/ tracee' = [tracee EXCEPT ![t] = Resumed(Reaped(@))]
         \/ UNCHANGED tracee
  PROVE  KernelInv'
<1>1. GoodTracee(tracee[t])
  BY KernelInvIsGood
<1>2. GoodTracee(Reaped(tracee[t])) /\ GoodTracee(Resumed(Reaped(tracee[t])))
  BY <1>1, ReapedIsGood, ResumedIsGood
<1>3. CASE UNCHANGED tracee
  BY <1>3 DEF KernelInv
<1> QED
  BY <1>2, <1>3, OneTracee

LEMMA PointersKept ==
  ASSUME PointersInv, DOMAIN procs \subseteq DOMAIN procs', UNCHANGED <<workers, toWorker>>
  PROVE  PointersInv'
BY DEF PointersInv, InTable

LEMMA AfterExitTyped == \A ps : AfterExit(ps) \in {"returned", "failed", "wait"}
BY DEF AfterExit

LEMMA ExitStep ==
  ASSUME TInv, NEW t \in Tids, ExitReported(t)
  PROVE  TInv'
<1> DEFINE i == Find(procs, t)
<1> USE DEF TInv
<1>1. KernelInv'
  BY ReapTracee DEF ExitReported
<1>2. exit_status' \in {"none", "exited", "killed"}
  BY DEF ExitReported, WellTyped, KernelInv, Waited, Event
<1>3. CASE UNCHANGED <<procs, groups, dbProcs>> /\ mpc' \in {"returned", "failed", "wait", "segv"}
  <2>1. PointersInv'
    BY <1>3, PointersKept DEF ExitReported, pipes
  <2>2. WellTyped'
    BY <1>2, <1>3 DEF ExitReported, WellTyped, Live, Looping, Finished, pipes
  <2> QED
    BY <1>1, <1>3, <2>1, <2>2 DEF ServeInv
<1>4. CASE /\ Found(procs, t) # {}
           /\ procs' = FreeProcess(procs, i)
           /\ groups' = DropThreadGroup(groups, procs[i].tg)
           /\ AddExit(procs[i].identifier, tracee[t].ret)
           /\ mpc' = AfterExit(procs')
  <2>1. i \in DOMAIN procs
    BY <1>4, FoundInTable
  <2>2. procs' \in Seq(Slot(Tids)) /\ DOMAIN procs' = DOMAIN procs
    BY <1>4, <2>1, FreeProcessTyped DEF WellTyped
  <2>3. groups' \in [Tids -> Groups]
    BY <1>4, DropThreadGroupTyped DEF WellTyped
  <2>4. tracee[t].ret \in {"exited", "killed"}
    BY DEF ExitReported, KernelInv, Waited, Event
  <2>5. dbProcs' \in Seq(ProcRow)
    BY <1>4, <2>4, AddExitTyped DEF WellTyped
  <2>6. mpc' \in {"returned", "failed", "wait"}
    BY <1>4, AfterExitTyped
  <2>7. PointersInv'
    BY <2>2, PointersKept DEF ExitReported, pipes
  <2>8. procs' # <<>>
    BY <2>1, <2>2
  <2>9. WellTyped'
    BY <1>2, <2>2, <2>3, <2>5, <2>6, <2>8 DEF ExitReported, WellTyped, Live, Looping, Finished, pipes
  <2> QED
    BY <1>1, <2>6, <2>7, <2>9 DEF ServeInv
<1> QED
  BY <1>3, <1>4, AfterExitTyped DEF ExitReported, InsertionFails, tables

LEMMA AppearsStep ==
  ASSUME TInv, NEW t \in Tids, Appears(t)
  PROVE  TInv'
<1> DEFINE ps == WithRoom(procs)
           j == EmptySlot(procs)
           s == [ps[j] EXCEPT !.status = "UNKNOWN", !.flags = {}, !.tid = t, !.tg = NoGroup,
                              !.in_syscall = FALSE]
<1> USE DEF TInv
<1>1. /\ ps \in Seq(Slot(Tids)) /\ DOMAIN procs \subseteq DOMAIN ps
      /\ j \in DOMAIN ps
  BY EmptySlotIsFree DEF WellTyped
<1>2. s \in Slot(Tids)
  <2>1. ps[j] \in Slot(Tids)
    BY <1>1
  <2> QED
    BY <2>1 DEF Slot, SlotStatus, NoGroup
<1>3. procs' = [ps EXCEPT ![j] = s]
  BY DEF Appears
<1>4. procs' \in Seq(Slot(Tids)) /\ DOMAIN procs' = DOMAIN ps
  BY <1>1, <1>2, <1>3, EditTable
<1>5. KernelInv'
  BY ReapTracee DEF Appears
<1>6. PointersInv'
  BY <1>1, <1>4, PointersKept DEF Appears, pipes
<1>7. procs' # <<>>
  BY <1>1, <1>4
<1>8. WellTyped'
  BY <1>4, <1>7 DEF Appears, WellTyped, pool, pipes, db
<1> QED
  BY <1>5, <1>6, <1>8 DEF Appears, ServeInv, Waited

LEMMA AttachedStep ==
  ASSUME TInv, NEW t \in Tids, Attached(t)
  PROVE  TInv'
<1> DEFINE i == Find(procs, t)
           s == [procs[i] EXCEPT !.status = "ATTACHED"]
<1> USE DEF TInv
<1>1. procs[i] \in Slot(Tids) /\ i \in DOMAIN procs
  BY FoundInTable DEF Attached
<1>2. s \in Slot(Tids)
  BY <1>1 DEF Slot, SlotStatus
<1>3. procs' = [procs EXCEPT ![i] = s]
  BY DEF Attached
<1>4. procs' \in Seq(Slot(Tids)) /\ DOMAIN procs' = DOMAIN procs
  BY <1>2, <1>3, EditTable DEF WellTyped
<1>5. KernelInv'
  BY ReapTracee DEF Attached
<1>6. PointersInv'
  BY <1>4, PointersKept DEF Attached, pipes
<1>7. procs' # <<>>
  BY <1>1, <1>4
<1>8. WellTyped'
  BY <1>4, <1>7 DEF Attached, WellTyped, pool, pipes, db
<1> QED
  BY <1>5, <1>6, <1>8 DEF Attached, ServeInv, Waited

LEMMA SyscallStopStep ==
  ASSUME TInv, NEW t \in Tids, SyscallStop(t)
  PROVE  TInv'
<1> DEFINE i == Find(procs, t)
           s == WithRegisters(procs[i], tracee[t])
<1> USE DEF TInv
<1>1. procs[i] \in Slot(Tids) /\ i \in DOMAIN procs
  BY FoundInTable DEF SyscallStop, Stop
<1>2. s \in Slot(Tids)
  BY <1>1, SlotEdits DEF KernelInv
<1>3. procs' = [procs EXCEPT ![i] = s]
  BY DEF SyscallStop
<1>4. procs' \in Seq(Slot(Tids)) /\ DOMAIN procs' = DOMAIN procs
  BY <1>2, <1>3, EditTable DEF WellTyped
<1>5. KernelInv'
  BY ReapTracee DEF SyscallStop
<1>6. workers' \in [Tids -> Worker] /\ \A u \in Tids : workers'[u].pc = "peek" => workers'[u] = workers[u]
  <2>1. [NoWorker EXCEPT !.pc = "idle"] \in Worker
    BY DEF NoWorker, Worker, Handlers, NoTid
  <2>2. [NoWorker EXCEPT !.pc = "idle"].pc = "idle"
    BY DEF NoWorker
  <2> QED
    BY <2>1, <2>2 DEF SyscallStop, WellTyped
<1>7. /\ toWorker' \in [Tids -> Seq(Word)]
      /\ \A u \in Tids : \A n \in DOMAIN toWorker'[u] : toWorker'[u][n].word = "ptr" =>
            toWorker'[u][n].arg \in DOMAIN procs
  <2>1. Pointer(i) \in Word /\ Pointer(i).arg = i
    BY <1>1 DEF Pointer, Word, WellTyped
  <2>2. toWorker' = [toWorker EXCEPT ![t] = Append(@, Pointer(i))]
    BY DEF SyscallStop
  <2>3. Append(toWorker[t], Pointer(i)) \in Seq(Word)
    BY <2>1 DEF WellTyped
  <2>4. \A n \in DOMAIN Append(toWorker[t], Pointer(i)) :
           \/ n \in DOMAIN toWorker[t] /\ Append(toWorker[t], Pointer(i))[n] = toWorker[t][n]
           \/ Append(toWorker[t], Pointer(i))[n] = Pointer(i)
    BY DEF WellTyped
  <2> QED
    BY <1>1, <2>1, <2>2, <2>3, <2>4 DEF WellTyped, PointersInv, InTable
<1>8. PointersInv'
  BY <1>4, <1>6, <1>7 DEF PointersInv, InTable
<1>9. procs' # <<>>
  BY <1>1, <1>4
<1>10. WellTyped'
  BY <1>4, <1>6, <1>7, <1>9 DEF SyscallStop, WellTyped, db, Live, Looping
<1> QED
  BY <1>5, <1>8, <1>10 DEF SyscallStop, ServeInv

LEMMA ExecStep ==
  ASSUME TInv, NEW t \in Tids, ExecEvent(t)
  PROVE  TInv'
<1> DEFINE i == Find(procs, t)
           own == procs[i].execve_info # NoInfo
           j == IF own \/ ExecCallers(i) = {} THEN i ELSE Minimum(ExecCallers(i))
           binary == procs[j].execve_info
           freed == IF own THEN [procs EXCEPT ![i].execve_info = NoInfo]
                           ELSE FreeProcess(procs, j)
<1> USE DEF TInv
<1>1. procs[i] \in Slot(Tids) /\ i \in DOMAIN procs
  BY FoundInTable DEF ExecEvent, Stop
<1>2. j \in DOMAIN procs
  <2>1. ExecCallers(i) \subseteq DOMAIN procs /\ ExecCallers(i) \subseteq Nat
    BY DEF ExecCallers, WellTyped
  <2>2. ExecCallers(i) # {} => Minimum(ExecCallers(i)) \in ExecCallers(i)
    BY <2>1, MinimumExists
  <2> QED
    BY <1>1, <2>1, <2>2
<1>3. procs[j] \in Slot(Tids) /\ binary \in Tids \cup {NoTid}
  <2>1. procs[j] \in Slot(Tids)
    BY <1>2 DEF WellTyped
  <2> HIDE DEF j
  <2> QED
    BY <2>1 DEF Slot, NoInfo, NoTid
<1>4. /\ freed \in Seq(Slot(Tids)) /\ DOMAIN freed = DOMAIN procs
      /\ freed[i].tg # NoGroup => procs[i].tg # NoGroup
  <2>1. CASE own
    <3> DEFINE s == [procs[i] EXCEPT !.execve_info = NoInfo]
    <3>1. s \in Slot(Tids) /\ s.tg = procs[i].tg
      BY <1>1 DEF Slot
    <3>2. freed = [procs EXCEPT ![i] = s]
      BY <2>1
    <3> HIDE DEF s
    <3>3. procs \in Seq(Slot(Tids)) /\ s \in Slot(Tids)
      BY <3>1 DEF WellTyped
    <3> HIDE DEF i, freed
    <3>4. freed \in Seq(Slot(Tids)) /\ DOMAIN freed = DOMAIN procs
      BY <3>1, <3>2, <3>3, EditTable
    <3>5. freed[i] = s
      BY <1>1, <3>2
    <3> QED
      BY <3>1, <3>4, <3>5
  <2>2. CASE ~own
    <3>1. /\ freed \in Seq(Slot(Tids)) /\ DOMAIN freed = DOMAIN procs
          /\ freed[j].tg = NoGroup
      BY <1>2, <2>2, FreeProcessTyped DEF WellTyped
    <3>2. i # j => freed[i] = procs[i]
      BY <1>1, <2>2 DEF FreeProcess
    <3> QED
      BY <3>1, <3>2
  <2> QED
    BY <2>1, <2>2
<1>5. KernelInv'
  BY ReapTracee DEF ExecEvent
<1>6. ASSUME procs' = [freed EXCEPT ![i].flags = {"EXECD"}]
      PROVE  /\ procs' \in Seq(Slot(Tids)) /\ DOMAIN procs' = DOMAIN procs
             /\ procs'[i].tg # NoGroup => procs[i].tg \in Tids
  <2> DEFINE s == [freed[i] EXCEPT !.flags = {"EXECD"}]
  <2>1. freed[i] \in Slot(Tids)
    BY <1>1, <1>4
  <2>2. s \in Slot(Tids) /\ s.tg = freed[i].tg
    BY <2>1 DEF Slot
  <2>3. procs' = [freed EXCEPT ![i] = s]
    BY <1>6
  <2> HIDE DEF s, freed
  <2>4. procs' \in Seq(Slot(Tids)) /\ DOMAIN procs' = DOMAIN procs
    BY <1>4, <2>2, <2>3, EditTable
  <2>5. procs'[i].tg = freed[i].tg
    BY <1>1, <1>4, <2>2, <2>3
  <2>6. procs'[i].tg # NoGroup => procs[i].tg \in Tids
    BY <1>1, <1>4, <2>5 DEF Slot
  <2> QED
    BY <2>4, <2>6
<1>6a. procs' = [freed EXCEPT ![i].flags = {"EXECD"}] \/ UNCHANGED procs
  BY DEF ExecEvent, tables
<1>7. /\ procs' \in Seq(Slot(Tids)) /\ DOMAIN procs' = DOMAIN procs
      /\ procs' # <<>>
      /\ procs' = [freed EXCEPT ![i].flags = {"EXECD"}] /\ procs'[i].tg # NoGroup
            => procs[i].tg \in Tids
  <2> HIDE DEF freed
  <2>1. CASE procs' = [freed EXCEPT ![i].flags = {"EXECD"}]
    BY <1>1, <1>6, <2>1
  <2>2. CASE procs' # [freed EXCEPT ![i].flags = {"EXECD"}]
    BY <1>6a, <2>2 DEF WellTyped
  <2> QED
    BY <2>1, <2>2
<1>8. groups' \in [Tids -> Groups]
  <2>1. groups' = groups \/ groups' = DropThreadGroup(groups, procs[j].tg)
    BY DEF ExecEvent, tables
  <2> QED
    BY <2>1, DropThreadGroupTyped DEF WellTyped
<1>9. dbProcs' \in Seq(ProcRow)
  <2>1. AddExit(procs[j].identifier, "execed") => dbProcs' \in Seq(ProcRow)
    BY AddExitTyped DEF WellTyped
  <2> QED
    BY <2>1 DEF ExecEvent, db, WellTyped
<1>10. dbRows' \in Seq(Seq(Row))
  <2> DEFINE row == DbRow("exec", groups[procs[i].tg].wd, binary)
  <2>1. procs[i].tg \in Tids => row \in Row
    BY <1>3 DEF DbRow, Row, WellTyped, Groups
  <2>2. procs[i].tg \in Tids /\ AddRow(procs[i].identifier, row) => dbRows' \in Seq(Seq(Row))
    BY <2>1, AddRowTyped DEF WellTyped
  <2>3. \/ UNCHANGED dbRows
        \/ /\ procs' = [freed EXCEPT ![i].flags = {"EXECD"}] /\ procs'[i].tg # NoGroup
           /\ AddRow(procs[i].identifier, row)
    BY DEF ExecEvent, db
  <2> QED
    BY <1>7, <2>2, <2>3 DEF WellTyped
<1>11. mpc' \in {"segv", "poll", "failed"}
  BY DEF ExecEvent, InsertionFails
<1>12. PointersInv'
  BY <1>7, PointersKept DEF ExecEvent, pipes
<1>13. WellTyped'
  BY <1>7, <1>8, <1>9, <1>10, <1>11
     DEF ExecEvent, WellTyped, Live, Looping, Finished, pipes, pool
<1> QED
  BY <1>5, <1>11, <1>12, <1>13 DEF ServeInv

LEMMA ForkStep ==
  ASSUME TInv, NEW t \in Tids, ForkEvent(t)
  PROVE  TInv'
<1> DEFINE i == Find(procs, t)
           c == tracee[t].child
           g == procs[i].tg
           seen == Found(procs, c) # {}
           j == IF seen THEN Find(procs, c) ELSE EmptySlot(procs)
           is_thread == procs[i].call = "clone"
           table == IF seen THEN procs ELSE WithRoom(procs)
           id == Len(dbProcs) + 1
<1> USE DEF TInv
<1>1. procs[i] \in Slot(Tids) /\ i \in DOMAIN procs
  BY FoundInTable DEF ForkEvent, Stop
<1>2. c \in Tids
  BY DEF ForkEvent, Stop, Waited, Event, KernelInv
<1>3. /\ table \in Seq(Slot(Tids)) /\ DOMAIN procs \subseteq DOMAIN table
      /\ j \in DOMAIN table /\ i \in DOMAIN table
  <2>1. CASE seen
    BY <1>1, <2>1, FoundInTable DEF WellTyped
  <2>2. CASE ~seen
    BY <1>1, <2>2, EmptySlotIsFree DEF WellTyped
  <2> QED
    BY <2>1, <2>2
<1>4. CASE UNCHANGED <<tracee, tables, db>> /\ mpc' \in {"failed", "segv"}
  <2>1. KernelInv'
    BY <1>4, ReapTracee DEF ForkEvent
  <2>2. PointersInv'
    BY <1>4, PointersKept DEF ForkEvent, pipes, tables
  <2>3. WellTyped'
    BY <1>4 DEF ForkEvent, WellTyped, Live, Looping, Finished, pipes, pool, tables, db
  <2> QED
    BY <1>4, <2>1, <2>2, <2>3 DEF ServeInv
<1>5. CASE /\ g # NoGroup
           /\ procs' = [table EXCEPT
                  ![i].flags = @ \ {"FORKING"},
                  ![j] = [@ EXCEPT !.status = IF seen THEN "ATTACHED" ELSE "ALLOCATED",
                                   !.flags = {}, !.tid = c, !.in_syscall = FALSE,
                                   !.tg = IF is_thread THEN g ELSE c,
                                   !.identifier = id]]
           /\ groups' = IF is_thread THEN ShareThreadGroup(groups, g)
                         ELSE NewThreadGroup(groups, c, groups[g].wd)
           /\ \/ /\ dbProcs' = Append(dbProcs, [tid |-> c, exit |-> "none",
                                                 parent |-> procs[i].identifier])
                 /\ dbRows' = Append(dbRows, <<DbRow("wd", groups[g].wd, t)>>)
                 /\ tracee' = [tracee EXCEPT ![t] = Resumed(Reaped(@)),
                                              ![c] = IF seen THEN Resumed(@) ELSE @]
                 /\ mpc' = "poll"
              \/ /\ InsertionFails
                 /\ tracee' = [tracee EXCEPT ![t] = Reaped(@),
                                              ![c] = IF seen THEN Resumed(@) ELSE @]
                 /\ UNCHANGED db
  <2>1. g \in Tids /\ groups[g] \in Groups
    BY <1>1, <1>5 DEF Slot, WellTyped
  <2>2. procs' \in Seq(Slot(Tids)) /\ DOMAIN procs' = DOMAIN table
    <3> DEFINE si == [table[i] EXCEPT !.flags = @ \ {"FORKING"}]
               mid == [table EXCEPT ![i] = si]
               st == IF seen THEN "ATTACHED" ELSE "ALLOCATED"
               tg == IF is_thread THEN g ELSE c
               sj == [mid[j] EXCEPT !.status = st, !.flags = {}, !.tid = c,
                                    !.in_syscall = FALSE, !.tg = tg, !.identifier = id]
    <3>1. si \in Slot(Tids)
      <4>1. table[i] \in Slot(Tids)
        BY <1>3
      <4>2. \A r \in Slot(Tids) : [r EXCEPT !.flags = @ \ {"FORKING"}] \in Slot(Tids)
        BY DEF Slot
      <4> HIDE DEF table, i
      <4> QED
        BY <4>1, <4>2
    <3>2. mid \in Seq(Slot(Tids)) /\ DOMAIN mid = DOMAIN table
      BY <1>3, <3>1, EditTable
    <3>3. mid[j] \in Slot(Tids) /\ st \in SlotStatus /\ tg \in Tids /\ id \in Nat
      BY <1>2, <1>3, <2>1, <3>2 DEF SlotStatus, WellTyped
    <3>4. sj \in Slot(Tids)
      <4> HIDE DEF st, tg, id, mid
      <4> QED
        BY <1>2, <3>3 DEF Slot
    <3>5. procs' = [mid EXCEPT ![j] = sj]
      BY <1>5
    <3> HIDE DEF mid, sj
    <3> QED
      BY <3>2, <3>4, <3>5, EditTable
  <2>3. groups' \in [Tids -> Groups]
    <3>1. ShareThreadGroup(groups, g) \in [Tids -> Groups]
      <4>1. [groups[g] EXCEPT !.refs = @ + 1] \in Groups
        BY <2>1 DEF Groups
      <4>2. ShareThreadGroup(groups, g) = [groups EXCEPT ![g] = [groups[g] EXCEPT !.refs = @ + 1]]
        BY DEF ShareThreadGroup
      <4> QED
        BY <4>1, <4>2 DEF WellTyped
    <3>2. NewThreadGroup(groups, c, groups[g].wd) \in [Tids -> Groups]
      <4>1. [refs |-> 1, wd |-> groups[g].wd] \in Groups
        BY <2>1 DEF Groups
      <4> QED
        BY <4>1 DEF NewThreadGroup, WellTyped
    <3> QED
      BY <1>5, <3>1, <3>2
  <2>4. dbProcs' \in Seq(ProcRow)
    <3>1. [tid |-> c, exit |-> "none", parent |-> procs[i].identifier] \in ProcRow
      BY <1>1, <1>2 DEF ProcRow, Slot
    <3>2. \/ dbProcs' = Append(dbProcs, [tid |-> c, exit |-> "none",
                                          parent |-> procs[i].identifier])
          \/ dbProcs' = dbProcs
      BY <1>5 DEF db
    <3> QED
      BY <3>1, <3>2, AppendTyped, Zenon DEF WellTyped
  <2>5. dbRows' \in Seq(Seq(Row))
    <3>1. <<DbRow("wd", groups[g].wd, t)>> \in Seq(Row)
      BY <2>1 DEF DbRow, Row, Groups
    <3>2. \/ dbRows' = Append(dbRows, <<DbRow("wd", groups[g].wd, t)>>)
          \/ dbRows' = dbRows
      BY <1>5 DEF db
    <3> QED
      BY <3>1, <3>2, AppendTyped, Zenon DEF WellTyped
  <2>6. KernelInv'
    <3>1. \A u \in Tids : GoodTracee(tracee[u])
      BY KernelInvIsGood
    <3>2. /\ \A u \in Tids : GoodTracee(Reaped(tracee[u]))
          /\ \A u \in Tids : GoodTracee(Resumed(tracee[u]))
          /\ \A u \in Tids : GoodTracee(Resumed(Reaped(tracee[u])))
      BY <3>1, ReapedIsGood, ResumedIsGood
    <3>3. PICK r \in {Resumed(Reaped(tracee[t])), Reaped(tracee[t])} :
             tracee' = [tracee EXCEPT ![t] = r, ![c] = IF seen THEN Resumed(@) ELSE @]
      BY <1>5
    <3>4. GoodTracee(r)
      BY <3>2
    <3>5. GoodTracee(Resumed(r))
      BY <3>4, ResumedIsGood
    <3>6. \A u \in Tids : GoodTracee(tracee'[u])
      BY <1>2, <3>1, <3>2, <3>3, <3>4, <3>5 DEF KernelInv
    <3>7. tracee' \in [Tids -> Tracee]
      BY <3>3, <3>6 DEF KernelInv, GoodTracee
    <3> QED
      BY <3>6, <3>7 DEF ForkEvent, KernelInv, GoodTracee
  <2>7. PointersInv'
    BY <1>3, <2>2, PointersKept DEF ForkEvent, pipes
  <2>8. procs' # <<>>
    BY <1>3, <2>2
  <2>9. mpc' \in {"poll", "failed"}
    BY <1>5 DEF InsertionFails
  <2>10. WellTyped'
    BY <2>2, <2>3, <2>4, <2>5, <2>8, <2>9
       DEF ForkEvent, WellTyped, Live, Looping, Finished, pipes, pool
  <2> QED
    BY <2>6, <2>7, <2>9, <2>10 DEF ServeInv
<1> QED
  BY <1>4, <1>5 DEF ForkEvent

\* A signal is forwarded, or a tracee without a worker has died.
LEMMA SignalStep ==
  ASSUME TInv, NEW t \in Tids, SignalForwarded(t) \/ ExitWithoutWorker(t)
  PROVE  TInv'
<1> USE DEF TInv
<1>1. KernelInv'
  BY ReapTracee DEF SignalForwarded, ExitWithoutWorker
<1>2. mpc' \in {"poll", "exit"}
  BY DEF SignalForwarded, ExitWithoutWorker
<1>3. PointersInv'
  BY PointersKept DEF SignalForwarded, ExitWithoutWorker, pipes, tables
<1>4. WellTyped'
  BY <1>2 DEF SignalForwarded, ExitWithoutWorker, WellTyped, Live, Looping, Finished, pipes, pool,
              tables, db
<1> QED
  BY <1>1, <1>2, <1>3, <1>4 DEF ServeInv

\* Only mpc changes, and it is not to serve.
LEMMA PlaceStep ==
  ASSUME TInv, WaitNothing \/ WaitFails \/ Commit
  PROVE  TInv'
<1> USE DEF TInv
<1>1. UNCHANGED <<kernelVars, tables, pool, todo, exit_status, workers, pipes, db>>
  BY DEF WaitNothing, WaitFails, Commit
<1>2. mpc' \in {"poll", "failed", "committed"}
  BY DEF WaitNothing, WaitFails, Commit
<1>3. KernelInv'
  BY <1>1 DEF KernelInv, kernelVars
<1>4. PointersInv'
  BY <1>1, PointersKept DEF pipes, tables
<1>5. WellTyped'
  BY <1>1, <1>2 DEF WellTyped, Live, Looping, Finished, pipes, pool, tables, db
<1> QED
  BY <1>2, <1>3, <1>4, <1>5 DEF ServeInv

LEMMA PollStep ==
  ASSUME TInv, VInv, Poll
  PROVE  TInv'
<1> USE DEF TInv
<1>1. UNCHANGED <<kernelVars, tables, pool, exit_status, workers, pipes, db>>
  BY DEF Poll
<1>2. mpc' \in {"wait", "serve"} /\ todo' = Ready /\ (mpc' = "serve" => Ready # {})
  BY DEF Poll
<1>3. num_workers \in Nat /\ pollfds \in Seq(Tids)
  BY DEF VInv, VectorsAligned
<1>4. Ready \subseteq Nat /\ \A n \in Ready : n \in DOMAIN pollfds /\ toTracer[pollfds[n]] # <<>>
  BY <1>3 DEF Ready
<1>5. ServeInv'
  BY <1>1, <1>2, <1>4 DEF ServeInv, pool, pipes
<1>6. KernelInv'
  BY <1>1 DEF KernelInv, kernelVars
<1>7. PointersInv'
  BY <1>1, PointersKept DEF pipes, tables
<1>8. WellTyped'
  BY <1>1, <1>2, <1>4 DEF WellTyped, Live, Looping, Finished, pipes, pool, tables, db
<1> QED
  BY <1>5, <1>6, <1>7, <1>8

\* A word that is not a pointer points nowhere.
LEMMA ResultKeepsPointers ==
  ASSUME WellTyped, PointersInv, NEW u, NEW ok \in BOOLEAN, UNCHANGED <<workers, procs>>,
         toWorker' = [toWorker EXCEPT ![u] = Append(@, Result(ok))]
  PROVE  toWorker' \in [Tids -> Seq(Word)] /\ PointersInv'
<1>1. Result(ok) \in Word /\ Result(ok).word = "res"
  BY DEF Result, Word
<1>2. ASSUME u \in Tids PROVE toWorker[u] \in Seq(Word) /\ Append(toWorker[u], Result(ok)) \in Seq(Word)
  BY <1>1, <1>2 DEF WellTyped
<1>3. ASSUME u \in Tids, NEW n \in DOMAIN Append(toWorker[u], Result(ok)),
             Append(toWorker[u], Result(ok))[n].word = "ptr"
      PROVE  n \in DOMAIN toWorker[u] /\ Append(toWorker[u], Result(ok))[n] = toWorker[u][n]
  BY <1>1, <1>2, <1>3
<1>4. toWorker' \in [Tids -> Seq(Word)]
  BY <1>2 DEF WellTyped
<1>5. PointersInv'
  BY <1>3 DEF PointersInv, InTable, WellTyped
<1> QED
  BY <1>4, <1>5

LEMMA ServeStep ==
  ASSUME TInv, VInv, Serve
  PROVE  TInv'
<1> DEFINE n == Minimum(todo)
           w == pollfds[n]
           r == Head(toTracer[w])
<1> USE DEF TInv
<1>1. mpc = "serve" /\ todo \subseteq Nat /\ todo # {}
  BY DEF Serve, ServeInv, WellTyped
<1>2. n \in todo
  BY <1>1, MinimumExists
<1>3. n \in DOMAIN pollfds /\ toTracer[w] # <<>>
  BY <1>1, <1>2 DEF ServeInv
<1>4. w \in Tids /\ toTracer[w] \in Seq(Request)
  BY <1>3 DEF VInv, VectorsAligned, WellTyped
<1>5. r \in Request
  BY <1>3, <1>4
<1> HIDE DEF n, w, r
<1>6. /\ toTracer' = [toTracer EXCEPT ![w] = Tail(@)]
      /\ tracee' = IF r.req = "syscall" /\ Granted(r)
                   THEN [tracee EXCEPT ![r.tid] = Resumed(@)] ELSE tracee
      /\ toWorker' = IF FindTid(list, r.tid) = 0 THEN toWorker
                     ELSE [toWorker EXCEPT ![r.tid] = Append(@, Result(Granted(r)))]
      /\ todo' = todo \ {n}
      /\ mpc' = IF todo = {n} THEN "wait" ELSE "serve"
      /\ UNCHANGED <<cwd, did, left, tables, pool, exit_status, workers, db>>
  BY DEF Serve, n, w, r
<1>7. toTracer' \in [Tids -> Seq(Request)]
  <2>1. Tail(toTracer[w]) \in Seq(Request)
    BY <1>3, <1>4
  <2> QED
    BY <1>6, <2>1 DEF WellTyped
<1>8. KernelInv'
  <2>1. CASE tracee' = [tracee EXCEPT ![r.tid] = Resumed(@)]
    <3>1. r.tid \in Tids => GoodTracee(Resumed(tracee[r.tid]))
      BY KernelInvIsGood, ResumedIsGood
    <3> QED
      BY <1>6, <2>1, <3>1, OneTracee
  <2>2. CASE UNCHANGED tracee
    BY <1>6, <2>2 DEF KernelInv
  <2> QED
    BY <1>6, <2>1, <2>2
<1>9. toWorker' \in [Tids -> Seq(Word)] /\ PointersInv'
  <2>1. CASE UNCHANGED toWorker
    BY <1>6, <2>1, PointersKept DEF WellTyped, tables
  <2>2. CASE toWorker' = [toWorker EXCEPT ![r.tid] = Append(@, Result(Granted(r)))]
    <3>1. Granted(r) \in BOOLEAN
      BY <1>5 DEF Granted, Request
    <3> QED
      BY <1>6, <2>2, <3>1, ResultKeepsPointers DEF tables
  <2> QED
    BY <1>6, <2>1, <2>2
<1>10. ServeInv'
  <2> SUFFICES ASSUME mpc' = "serve"
               PROVE  /\ todo' # {}
                      /\ \A m \in todo' : m \in DOMAIN pollfds' /\ toTracer'[pollfds'[m]] # <<>>
    BY DEF ServeInv
  <2>1. todo' # {}
    BY <1>2, <1>6
  <2>2. ASSUME NEW m \in todo' PROVE m \in DOMAIN pollfds' /\ toTracer'[pollfds'[m]] # <<>>
    <3>1. m \in todo /\ m # n
      BY <1>6
    <3>2. m \in DOMAIN pollfds /\ toTracer[pollfds[m]] # <<>>
      BY <1>1, <3>1 DEF ServeInv
    <3>3. pollfds[m] # w
      BY <1>3, <3>1, <3>2 DEF VInv, VectorsAligned, w
    <3>4. toTracer'[pollfds[m]] = toTracer[pollfds[m]]
      BY <1>6, <3>3 DEF WellTyped
    <3> QED
      BY <1>6, <3>2, <3>4 DEF pool
  <2> QED
    BY <2>1, <2>2
<1>11. mpc' \in {"wait", "serve"} /\ todo' \subseteq Nat
  BY <1>1, <1>6
<1>12. WellTyped'
  BY <1>6, <1>7, <1>9, <1>11 DEF WellTyped, Live, Looping, Finished, pool, tables, db
<1> QED
  BY <1>8, <1>9, <1>10, <1>12

\* cleanup() empties the table, on a rollback and on ^C.
LEMMA CleanupStep ==
  ASSUME TInv, Rollback \/ Interrupt
  PROVE  TInv'
<1> USE DEF TInv
<1>1. Cleanup /\ mpc' \in {"rolledback", "exit"}
  BY DEF Rollback, Interrupt
<1>2. UNCHANGED <<cwd, did, left, pool, todo, exit_status, workers, pipes>>
  BY DEF Rollback, Interrupt
<1>3. KernelInv'
  BY <1>1, <1>2, KillAllIsGood DEF Cleanup, KernelInv, GoodTracee
<1>4. procs \in [1 .. Len(procs) -> Slot(Tids)] /\ Len(procs) \in Nat /\ DOMAIN procs = 1 .. Len(procs)
  BY DEF WellTyped
<1>5. procs' \in [1 .. Len(procs) -> Slot(Tids)]
  <2>1. \A i \in DOMAIN procs : FreeProcess(procs, i)[i] \in Slot(Tids)
    BY FreeProcessTyped DEF WellTyped
  <2>2. \A i \in 1 .. Len(procs) :
           (IF i \in InUse(procs) THEN FreeProcess(procs, i)[i] ELSE procs[i]) \in Slot(Tids)
    BY <1>4, <2>1
  <2> QED
    BY <1>1, <1>4, <2>2, Zenon DEF Cleanup
<1>6. procs' \in Seq(Slot(Tids)) /\ DOMAIN procs' = DOMAIN procs
  BY <1>4, <1>5, FunctionIsSeq
<1>7. groups' \in [Tids -> Groups]
  BY <1>1 DEF Cleanup, Groups
<1>8. dbProcs' \in Seq(ProcRow) /\ dbRows' \in Seq(Seq(Row))
  <2>1. (dbProcs' = <<>> /\ dbRows' = <<>>) \/ UNCHANGED <<dbProcs, dbRows>>
    BY DEF Rollback, Interrupt, db
  <2>2. CASE dbProcs' = <<>> /\ dbRows' = <<>>
    BY <2>2
  <2>3. CASE UNCHANGED <<dbProcs, dbRows>>
    BY <2>3 DEF WellTyped
  <2> QED
    BY <2>1, <2>2, <2>3
<1>9. PointersInv'
  BY <1>2, <1>6, PointersKept DEF pipes
<1>10. procs' # <<>>
  BY <1>4, <1>6 DEF WellTyped
<1>11. WellTyped'
  BY <1>1, <1>2, <1>6, <1>7, <1>8, <1>10 DEF WellTyped, Live, Looping, Finished, pool, pipes
<1> QED
  BY <1>1, <1>3, <1>9, <1>11 DEF ServeInv

------------------------------------------------------------------------------
(* Steps of the workers.                                                     *)

\* What a step of worker t leaves in the pipes it reads and writes.
PipesKept ==
    /\ toWorker' \in [Tids -> Seq(Word)] /\ toTracer' \in [Tids -> Seq(Request)]
    /\ \A u \in Tids : \A n \in DOMAIN toWorker'[u] :
          toWorker'[u][n].word = "ptr" => InTable(toWorker'[u][n].arg)
    /\ \A u : toTracer[u] # <<>> => toTracer'[u] # <<>>

LEMMA TailKeepsPipes ==
  ASSUME WellTyped, PointersInv, NEW t \in Tids, toWorker[t] # <<>>,
         toWorker' = [toWorker EXCEPT ![t] = Tail(@)], UNCHANGED toTracer
  PROVE  PipesKept
<1>1. toWorker[t] \in Seq(Word)
  BY DEF WellTyped
<1>2. Tail(toWorker[t]) \in Seq(Word)
  BY <1>1
<1>3. \A n \in DOMAIN Tail(toWorker[t]) :
         n + 1 \in DOMAIN toWorker[t] /\ Tail(toWorker[t])[n] = toWorker[t][n + 1]
  BY <1>1
<1> QED
  BY <1>2, <1>3 DEF PipesKept, WellTyped, PointersInv, InTable

LEMMA AskKeepsPipes ==
  ASSUME WellTyped, PointersInv, NEW t \in Tids, toWorker[t] # <<>>,
         NEW req \in {"peek", "syscall"}, NEW tid \in Tids \cup {NoTid}, NEW valid \in BOOLEAN,
         Ask(t, req, tid, valid)
  PROVE  PipesKept
<1>1. toWorker[t] \in Seq(Word) /\ toTracer[t] \in Seq(Request)
  BY DEF WellTyped
<1>2. Tail(toWorker[t]) \in Seq(Word)
  BY <1>1
<1>3. \A n \in DOMAIN Tail(toWorker[t]) :
         n + 1 \in DOMAIN toWorker[t] /\ Tail(toWorker[t])[n] = toWorker[t][n + 1]
  BY <1>1
<1> DEFINE r == [req |-> req, tid |-> tid, valid |-> valid]
<1>4. r \in Request
  BY DEF Request
<1> HIDE DEF r
<1>5. Append(toTracer[t], r) \in Seq(Request) /\ Append(toTracer[t], r) # <<>>
  BY <1>1, <1>4
<1>6. /\ toWorker' = [toWorker EXCEPT ![t] = Tail(@)]
      /\ toTracer' = [toTracer EXCEPT ![t] = Append(@, r)]
  BY DEF Ask, r
<1>7. toTracer' \in [Tids -> Seq(Request)] /\ \A u : toTracer[u] # <<>> => toTracer'[u] # <<>>
  BY <1>5, <1>6 DEF WellTyped
<1>8. toWorker' \in [Tids -> Seq(Word)]
  BY <1>2, <1>6 DEF WellTyped
<1>9. \A u \in Tids : \A n \in DOMAIN toWorker'[u] :
         toWorker'[u][n].word = "ptr" => InTable(toWorker'[u][n].arg)
  BY <1>3, <1>6 DEF WellTyped, PointersInv
<1> QED
  BY <1>7, <1>8, <1>9 DEF PipesKept

\* The next word of an idle worker, or of one that waits.
LEMMA HeadTyped ==
  ASSUME WellTyped, PointersInv, NEW t \in Tids, toWorker[t] # <<>>
  PROVE  /\ Head(toWorker[t]) \in Word
         /\ Head(toWorker[t]).word = "ptr" =>
               /\ Head(toWorker[t]).arg \in DOMAIN procs
               /\ procs[Head(toWorker[t]).arg] \in Slot(Tids)
<1>1. toWorker[t] \in Seq(Word) /\ 1 \in DOMAIN toWorker[t] /\ Head(toWorker[t]) = toWorker[t][1]
  BY DEF WellTyped
<1>2. \A i \in DOMAIN procs : procs[i] \in Slot(Tids)
  BY DEF WellTyped
<1> QED
  BY <1>1, <1>2 DEF PointersInv, InTable

\* The shape that all steps of workers have in common.
LEMMA WorkerKeeps ==
  ASSUME TInv, VInv, PipesKept,
         workers' \in [Tids -> Worker],
         \A u \in Tids : workers'[u].pc = "peek" => InTable(workers'[u].slot),
         procs' \in Seq(Slot(Tids)), DOMAIN procs' = DOMAIN procs,
         groups' \in [Tids -> Groups], dbRows' \in Seq(Seq(Row)),
         UNCHANGED <<kernelVars, pool, mpc, todo, exit_status, dbProcs>>
  PROVE  TInv'
<1> USE DEF TInv
<1>1. KernelInv'
  BY DEF KernelInv, kernelVars
<1>2. PointersInv'
  BY DEF PointersInv, PipesKept, InTable
<1>3. ServeInv'
  BY DEF ServeInv, PipesKept, pool
<1>4. procs' # <<>>
  BY DEF WellTyped
<1>5. WellTyped'
  BY <1>4 DEF WellTyped, PipesKept
<1> QED
  BY <1>1, <1>2, <1>3, <1>5

LEMMA EndOfStopKeeps ==
  ASSUME TInv, VInv, NEW t \in Tids, toWorker[t] # <<>>, NEW i \in DOMAIN procs,
         NEW s \in Slot(Tids), NEW tid \in Tids \cup {NoTid}, EndOfStop(t, i, s, tid),
         groups' \in [Tids -> Groups], dbRows' \in Seq(Seq(Row)),
         UNCHANGED <<kernelVars, pool, mpc, todo, exit_status, dbProcs>>
  PROVE  TInv'
<1> USE DEF TInv
<1>1. procs' \in Seq(Slot(Tids)) /\ DOMAIN procs' = DOMAIN procs
  <2>1. Toggled(s) \in Slot(Tids)
    BY SlotEdits
  <2> QED
    BY <2>1, EditTable DEF EndOfStop, WellTyped
<1>2. PipesKept
  <2>1. CASE GivesUp(s)
    BY <2>1, TailKeepsPipes DEF EndOfStop
  <2>2. CASE ~GivesUp(s)
    BY <2>2, AskKeepsPipes DEF EndOfStop
  <2> QED
    BY <2>1, <2>2
<1>3. /\ workers' \in [Tids -> Worker]
      /\ \A u \in Tids : workers'[u].pc = "peek" => InTable(workers'[u].slot)
  <2> DEFINE exited == [workers[t] EXCEPT !.pc = "exited", !.fun = "none"]
             resume == [pc |-> "resume", slot |-> i, tid |-> tid, fun |-> "none"]
  <2>1. exited \in Worker /\ exited.pc = "exited"
    BY DEF WellTyped, Worker, Handlers
  <2>2. resume \in Worker /\ resume.pc = "resume"
    BY DEF WellTyped, Worker, Handlers
  <2>3. workers' = [workers EXCEPT ![t] = exited] \/ workers' = [workers EXCEPT ![t] = resume]
    BY DEF EndOfStop
  <2> HIDE DEF exited, resume
  <2> QED
    BY <2>1, <2>2, <2>3 DEF WellTyped, PointersInv
<1> QED
  BY <1>1, <1>2, <1>3, WorkerKeeps

LEMMA StopHandledStep ==
  ASSUME TInv, VInv, NEW t \in Tids, StopHandled(t)
  PROVE  TInv'
<1> DEFINE i == Head(toWorker[t]).arg
           s == procs[i]
<1> USE DEF TInv
<1>1. toWorker[t] # <<>> /\ i \in DOMAIN procs /\ s \in Slot(Tids)
  BY HeadTyped DEF StopHandled, Receives
<1>2. s.tid \in Tids \cup {NoTid}
  BY <1>1 DEF Slot, NoTid
<1>3. ExecdIgnored(s) \in Slot(Tids) /\ Handled(s) \in Slot(Tids)
  BY <1>1, SlotEdits
<1>4. EndOfStop(t, i, ExecdIgnored(s), s.tid) \/ EndOfStop(t, i, Handled(s), s.tid)
  BY DEF StopHandled
<1>5. /\ groups' \in [Tids -> Groups] /\ dbRows' \in Seq(Seq(Row))
      /\ UNCHANGED <<kernelVars, pool, mpc, todo, exit_status, dbProcs>>
  BY DEF StopHandled, WellTyped, db
<1> QED
  BY <1>1, <1>2, <1>3, <1>4, <1>5, EndOfStopKeeps

LEMMA PeekStep ==
  ASSUME TInv, VInv, NEW t \in Tids, StopPeeks(t) \/ PeekAgain(t)
  PROVE  TInv'
<1> USE DEF TInv
<1>1. CASE StopPeeks(t)
  <2> DEFINE i == Head(toWorker[t]).arg
             s == procs[i]
             w == [pc |-> "peek", slot |-> i, tid |-> s.tid, fun |-> PeekingHandler(s)]
             valid == PeekingHandler(s) = "open" => s.ret # "efault"
  <2>1. toWorker[t] # <<>> /\ i \in DOMAIN procs /\ s \in Slot(Tids)
    BY <1>1, HeadTyped DEF StopPeeks, Receives
  <2>2. s.tid \in Tids \cup {NoTid} /\ i \in Nat
    <3>1. DOMAIN procs \subseteq Nat
      BY DEF WellTyped
    <3> HIDE DEF i
    <3>2. s.tid \in Tids \cup {NoTid}
      <4> HIDE DEF s
      <4> QED
        BY <2>1 DEF Slot, NoTid
    <3> QED
      BY <2>1, <3>1, <3>2
  <2>3. w \in Worker /\ w.pc = "peek" /\ w.slot = i
    BY <2>2 DEF PeekingHandler, Worker, Handlers
  <2>4. workers' = [workers EXCEPT ![t] = w] /\ Ask(t, "peek", s.tid, valid)
    BY <1>1 DEF StopPeeks
  <2>5. valid \in BOOLEAN
    OBVIOUS
  <2> HIDE DEF i, w, valid
  <2>6. PipesKept
    BY <2>1, <2>2, <2>4, <2>5, AskKeepsPipes
  <2>7. /\ workers' \in [Tids -> Worker]
        /\ \A u \in Tids : workers'[u].pc = "peek" => InTable(workers'[u].slot)
    BY <2>1, <2>3, <2>4 DEF WellTyped, PointersInv, InTable
  <2>8. /\ UNCHANGED <<kernelVars, pool, mpc, todo, exit_status, dbProcs>>
        /\ UNCHANGED <<procs, groups, dbRows>>
    BY <1>1 DEF StopPeeks, tables, db
  <2> QED
    BY <2>6, <2>7, <2>8, WorkerKeeps DEF WellTyped
<1>2. CASE PeekAgain(t)
  <2> DEFINE valid == workers[t].fun = "open" => procs[workers[t].slot].ret # "efault"
  <2>1. toWorker[t] # <<>> /\ workers[t].tid \in Tids \cup {NoTid}
    BY <1>2 DEF PeekAgain, Receives, WellTyped, Worker
  <2>2. Ask(t, "peek", workers[t].tid, valid) /\ valid \in BOOLEAN
    BY <1>2 DEF PeekAgain
  <2> HIDE DEF valid
  <2>3. PipesKept
    BY <2>1, <2>2, AskKeepsPipes
  <2>4. /\ UNCHANGED <<kernelVars, pool, mpc, todo, exit_status, dbProcs>>
        /\ UNCHANGED <<procs, groups, dbRows, workers>>
    BY <1>2 DEF PeekAgain, tables, db
  <2> QED
    BY <2>3, <2>4, WorkerKeeps DEF WellTyped, PointersInv
<1> QED
  BY <1>1, <1>2

LEMMA PathReadStep ==
  ASSUME TInv, VInv, NEW t \in Tids, PathRead(t)
  PROVE  TInv'
<1> DEFINE w == workers[t]
           s == procs[w.slot]
           by == IF Head(toWorker[t]).word = "res" THEN w.tid ELSE NoTid
           new == groups[s.tg].wd + 1
           f == [s EXCEPT !.execve_info = by]
<1> USE DEF TInv
<1>1. toWorker[t] # <<>> /\ w.slot \in DOMAIN procs
  BY DEF PathRead, Receives, PointersInv, InTable
<1>2. s \in Slot(Tids)
  BY <1>1 DEF WellTyped
<1>3. w.tid \in Tids \cup {NoTid} /\ by \in Tids \cup {NoTid}
  BY DEF WellTyped, Worker
<1>4. UNCHANGED <<kernelVars, pool, todo, exit_status, dbProcs>>
  BY DEF PathRead
<1>5. CASE mpc' = "segv" /\ UNCHANGED <<tables, workers, pipes, dbRows>>
  <2>1. KernelInv'
    BY <1>4 DEF KernelInv, kernelVars
  <2>2. PointersInv'
    BY <1>5, PointersKept DEF pipes, tables
  <2>3. WellTyped'
    BY <1>4, <1>5 DEF WellTyped, Live, Looping, Finished, pipes, pool, tables
  <2> QED
    BY <1>5, <2>1, <2>2, <2>3 DEF ServeInv
<1>6. CASE s.tg # NoGroup /\ UNCHANGED mpc
  <2>1. s.tg \in Tids
    BY <1>2, <1>6 DEF Slot
  <2>2. groups[s.tg] \in Groups
    BY <2>1 DEF WellTyped
  <2>3. new \in Nat /\ groups[s.tg].wd \in Nat
    BY <2>2 DEF Groups
  <2>4. /\ DbRow("open", groups[s.tg].wd, by) \in Row
        /\ DbRow("wd", new, by) \in Row
    <3> HIDE DEF by, new, s
    <3> QED
      BY <1>3, <2>3 DEF DbRow, Row, NoTid
  <2>5. f \in Slot(Tids)
    BY <1>2, <1>3, SlotEdits
  <2> HIDE DEF by, new, f, s
  <2>6. groups' \in [Tids -> Groups]
    <3>1. [groups[s.tg] EXCEPT !.wd = new] \in Groups
      BY <2>2, <2>3 DEF Groups
    <3>2. groups' = groups \/ groups' = [groups EXCEPT ![s.tg] = [groups[s.tg] EXCEPT !.wd = new]]
      BY <1>6 DEF PathRead, syscall_fileopening, syscall_chdir, syscall_execve_in, tables, s, new
    <3> QED
      BY <3>1, <3>2 DEF WellTyped
  <2>7. dbRows' \in Seq(Seq(Row))
    <3>1. \/ AddRow(s.identifier, DbRow("open", groups[s.tg].wd, by))
          \/ AddRow(s.identifier, DbRow("wd", new, by))
          \/ UNCHANGED dbRows
      BY <1>6 DEF PathRead, syscall_fileopening, syscall_chdir, syscall_execve_in, s, by, new
    <3> QED
      BY <2>4, <3>1, AddRowTyped DEF WellTyped
  <2>8. EndOfStop(t, w.slot, s, w.tid) \/ EndOfStop(t, w.slot, f, w.tid)
    BY <1>6 DEF PathRead, syscall_fileopening, syscall_chdir, syscall_execve_in, s, f, by
  <2> QED
    BY <1>1, <1>2, <1>3, <1>4, <1>6, <2>5, <2>6, <2>7, <2>8, EndOfStopKeeps
<1> QED
  BY <1>5, <1>6 DEF PathRead

\* A failed insertion, an answer, and a word that is not a pointer.
LEMMA LastWorkerSteps ==
  ASSUME TInv, VInv, NEW t \in Tids, InsertFails(t) \/ Answered(t) \/ BadPointer(t)
  PROVE  TInv'
<1> USE DEF TInv
<1> DEFINE exited == [workers[t] EXCEPT !.pc = "exited", !.fun = "none"]
           idle == [NoWorker EXCEPT !.pc = "idle"]
<1>1. exited \in Worker /\ exited.pc = "exited"
  <2>1. workers[t] \in Worker
    BY DEF WellTyped
  <2> QED
    BY <2>1 DEF Worker, Handlers
<1>2. idle \in Worker /\ idle.pc = "idle"
  BY DEF NoWorker, Worker, Handlers, NoTid
<1> HIDE DEF exited, idle
<1>3. CASE InsertFails(t) \/ Answered(t)
  <2>1. /\ toWorker[t] # <<>> /\ toWorker' = [toWorker EXCEPT ![t] = Tail(@)]
        /\ workers' = [workers EXCEPT ![t] = exited] \/ workers' = [workers EXCEPT ![t] = idle]
        /\ UNCHANGED <<kernelVars, pool, mpc, todo, exit_status, dbProcs>>
        /\ UNCHANGED <<procs, toTracer, dbRows>>
    BY <1>3 DEF InsertFails, Answered, Receives, exited, idle, tables, db
  <2>2. PipesKept
    BY <2>1, TailKeepsPipes
  <2>3. /\ workers' \in [Tids -> Worker]
        /\ \A u \in Tids : workers'[u].pc = "peek" => InTable(workers'[u].slot)
    BY <1>1, <1>2, <2>1 DEF WellTyped, PointersInv
  <2>4. groups' \in [Tids -> Groups]
    <3>1. CASE Answered(t)
      BY <3>1 DEF Answered, tables, WellTyped
    <3>2. CASE InsertFails(t)
      <4> DEFINE g == procs[workers[t].slot].tg
      <4>1. groups' = groups \/ groups' = [groups EXCEPT ![g].wd = @ + 1]
        BY <3>2 DEF InsertFails
      <4> HIDE DEF g
      <4>2. g \in Tids => [groups[g] EXCEPT !.wd = @ + 1] \in Groups
        <5>1. g \in Tids => groups[g] \in Groups
          BY DEF WellTyped
        <5> QED
          BY <5>1 DEF Groups
      <4> QED
        BY <4>1, <4>2 DEF WellTyped
    <3> QED
      BY <1>3, <3>1, <3>2
  <2> QED
    BY <2>1, <2>2, <2>3, <2>4, WorkerKeeps DEF WellTyped
<1>4. CASE BadPointer(t)
  <2>1. /\ mpc' = "segv"
        /\ UNCHANGED <<kernelVars, tables, pool, todo, exit_status, workers, pipes, db>>
    BY <1>4 DEF BadPointer
  <2>2. KernelInv'
    BY <2>1 DEF KernelInv, kernelVars
  <2>3. PointersInv'
    BY <2>1, PointersKept DEF pipes, tables
  <2>4. WellTyped'
    BY <2>1 DEF WellTyped, Live, Looping, Finished, pipes, pool, tables, db
  <2> QED
    BY <2>1, <2>2, <2>3, <2>4 DEF ServeInv
<1> QED
  BY <1>3, <1>4

------------------------------------------------------------------------------

\* The tracer's variables do not change.
LEMMA TracerStands ==
  ASSUME TInv, UNCHANGED tracerVars, KernelInv'
  PROVE  TInv'
<1>1. PointersInv'
  BY PointersKept DEF TInv, tracerVars
<1> QED
  BY <1>1 DEF TInv, tracerVars, WellTyped, ServeInv

LEMMA TInvStep == TInv /\ VInv /\ [Next]_vars => TInv'
<1> SUFFICES ASSUME TInv, VInv, [Next]_vars PROVE TInv'
  OBVIOUS
<1>1. ASSUME NEW t \in Tids, WaitStep(t) PROVE TInv'
  BY <1>1, ExitStep, AppearsStep, AttachedStep, SyscallStopStep, ExecStep, ForkStep, SignalStep
     DEF WaitStep
<1>2. CASE MainStep
  BY <1>1, <1>2, PlaceStep, PollStep, ServeStep, CleanupStep DEF MainStep
<1>3. ASSUME NEW t \in Tids, WorkerStep(t) PROVE TInv'
  BY <1>3, StopHandledStep, PeekStep, PathReadStep, LastWorkerSteps DEF WorkerStep
<1>4. ASSUME NEW t \in Tids, TraceeStep(t) PROVE TInv'
  <2>1. KernelInv'
    BY <1>4, KernelInvStep DEF TraceeStep, TInv
  <2> QED
    BY <1>4, <2>1, TracerStands DEF TraceeStep
<1>5. CASE UNCHANGED vars
  <2>1. KernelInv' /\ UNCHANGED tracerVars
    BY <1>5 DEF vars, kernelVars, TInv, KernelInv
  <2> QED
    BY <2>1, TracerStands
<1> QED
  BY <1>2, <1>3, <1>4, <1>5, CleanupStep DEF Next, Stops

\* Every pointer a worker gets or uses is in the process table, every entry that
\* poll() reported still has its request, and all variables have their types.
THEOREM StateIsWellFormed == Spec => []TInv
<1>1. Init => TInv /\ VInv
  BY TInvInit, VInvInit
<1>2. TInv /\ VInv /\ [Next]_vars => TInv' /\ VInv'
  BY TInvStep, VInvStep
<1> QED
  BY <1>1, <1>2, PTL DEF Spec

------------------------------------------------------------------------------
(* The process table and the thread groups.                                  *)

\* A slot without a process, or with one whose creator is not known yet, points
\* to no thread group.
NullGroups ==
    \A i \in DOMAIN procs : procs[i].status \in {"FREE", "UNKNOWN"} => procs[i].tg = NoGroup

\* A thread group is made once, when the fork is reported: until then no slot
\* points to it.
Spawning(t) == tracee[t].ev = "spawn"
NewGroups ==
    /\ \A c \in Unborn : Users(c) = {}
    /\ \A t \in Tids : Spawning(t) => tracee[t].child \notin Unborn /\ Users(tracee[t].child) = {}
    /\ \A t, u \in Tids : Spawning(t) /\ Spawning(u) /\ tracee[t].child = tracee[u].child => t = u

TablesInv == UniqueTids /\ GroupRefs /\ NullGroups /\ NewGroups

------------------------------------------------------------------------------
(* Changes to the tracees.                                                   *)

\* No tracee is unborn again, and none reports a fork that it did not.
Quiet == \A u \in Tids : /\ tracee'[u].st = "unborn" => tracee[u].st = "unborn"
                         /\ tracee'[u].ev = "spawn" => /\ tracee[u].ev = "spawn"
                                                       /\ tracee'[u].child = tracee[u].child

LEMMA QuietKeepsNewGroups ==
  ASSUME TInv, NewGroups, Quiet, \A g \in Tids : Users(g)' \subseteq Users(g)
  PROVE  NewGroups'
<1>1. Unborn' \subseteq Unborn
  BY DEF Quiet, Unborn
<1>2. \A t \in Tids : Spawning(t)' => Spawning(t) /\ tracee'[t].child = tracee[t].child
  BY DEF Quiet, Spawning
<1>3. \A t \in Tids : Spawning(t) => tracee[t].child \in Tids
  BY DEF TInv, KernelInv, Spawning
<1>4. \A c \in Unborn : c \in Tids
  BY DEF Unborn
<1> QED
  BY <1>1, <1>2, <1>3, <1>4 DEF NewGroups

\* What the tracer does to a tracee is quiet.
LEMMA QuietChanges ==
  ASSUME NEW s \in Tracee
  PROVE  /\ Reaped(s).st = "unborn" => s.st = "unborn"
         /\ Reaped(s).ev # "spawn"
         /\ Resumed(s).st = "unborn" => s.st = "unborn"
         /\ Resumed(s).ev = "spawn" => s.ev = "spawn" /\ Resumed(s).child = s.child
         /\ Resumed(Reaped(s)).st = "unborn" => s.st = "unborn"
         /\ Resumed(Reaped(s)).ev # "spawn"
<1> USE DEF Reaped, Resumed, Tracee, States, Events
<1>1. Reaped(s).st = "unborn" => s.st = "unborn"
  OBVIOUS
<1>2. Reaped(s).ev = "none"
  OBVIOUS
<1>3. /\ Resumed(s).st = "unborn" => s.st = "unborn"
      /\ Resumed(s).ev = "spawn" => s.ev = "spawn" /\ Resumed(s).child = s.child
  OBVIOUS
<1>4. Resumed(Reaped(s)).st = "unborn" => Reaped(s).st = "unborn"
  OBVIOUS
<1>5. Resumed(Reaped(s)).ev = "none"
  OBVIOUS
<1> QED
  BY <1>1, <1>2, <1>3, <1>4, <1>5

LEMMA ReapIsQuiet ==
  ASSUME KernelInv, NEW t \in Tids,
         \/ tracee' = [tracee EXCEPT ![t] = Reaped(@)]
         \/ tracee' = [tracee EXCEPT ![t] = Resumed(Reaped(@))]
         \/ UNCHANGED tracee
  PROVE  Quiet
<1>1. tracee[t] \in Tracee
  BY DEF KernelInv
<1> QED
  BY <1>1, QuietChanges DEF Quiet, KernelInv

LEMMA KillIsQuiet ==
  ASSUME KernelInv, NEW ts, NEW why, tracee' = KillAll(ts, why)
  PROVE  Quiet
<1>1. \A u \in Tids : Dead(tracee[u], why).st = "dead" /\ Dead(tracee[u], why).ev = "exit"
  BY DEF Dead, KernelInv, Tracee
<1> QED
  BY <1>1 DEF KillAll, Quiet

------------------------------------------------------------------------------
(* Changes to the table.                                                     *)

\* Of the two slots, one may take the place of the other.
Alike(p, q) == /\ p.tid = q.tid /\ p.tg = q.tg
               /\ p.status = "FREE" <=> q.status = "FREE"
               /\ p.status = "UNKNOWN" => q.status = "UNKNOWN"

LEMMA AlikeKeepsTables ==
  ASSUME TInv, TablesInv, Quiet, DOMAIN procs' = DOMAIN procs,
         \A i \in DOMAIN procs : Alike(procs'[i], procs[i]),
         \A g \in Tids : groups'[g].refs = groups[g].refs
  PROVE  TablesInv'
<1>1. \A g \in Tids : Users(g)' = Users(g)
  BY DEF Users, Alike
<1>2. UniqueTids'
  BY DEF TablesInv, UniqueTids, InUse, Alike
<1>3. GroupRefs'
  BY <1>1 DEF TablesInv, GroupRefs
<1>4. NullGroups'
  BY DEF TablesInv, NullGroups, Alike
<1>5. NewGroups'
  BY <1>1, QuietKeepsNewGroups DEF TablesInv
<1> QED
  BY <1>2, <1>3, <1>4, <1>5 DEF TablesInv

LEMMA SameKeepsTables ==
  ASSUME TInv, TablesInv, Quiet, UNCHANGED <<procs, groups>>
  PROVE  TablesInv'
<1>1. \A i \in DOMAIN procs : Alike(procs'[i], procs[i])
  BY DEF Alike
<1> QED
  BY <1>1, AlikeKeepsTables

\* One slot is written to.
LEMMA EditKeepsTables ==
  ASSUME TInv, TablesInv, Quiet, NEW i \in DOMAIN procs, NEW s, Alike(s, procs[i]),
         procs' = [procs EXCEPT ![i] = s],
         \A g \in Tids : groups'[g].refs = groups[g].refs
  PROVE  TablesInv'
<1>1. DOMAIN procs' = DOMAIN procs
  BY DEF TInv, WellTyped
<1>2. \A k \in DOMAIN procs : Alike(procs'[k], procs[k])
  BY DEF Alike
<1> QED
  BY <1>1, <1>2, AlikeKeepsTables

LEMMA UsersFinite ==
  ASSUME WellTyped, NEW g
  PROVE  IsFiniteSet(Users(g)) /\ Cardinality(Users(g)) \in Nat
<1>1. IsFiniteSet(1 .. Len(procs))
  BY FS_Interval DEF WellTyped
<1>2. Users(g) \subseteq 1 .. Len(procs)
  BY DEF Users, WellTyped
<1>3. IsFiniteSet(Users(g))
  BY <1>1, <1>2, FS_Subset
<1> QED
  BY <1>3, FS_CardinalityType

\* A slot is freed, with its reference.
LEMMA FreeKeepsTables ==
  ASSUME TInv, TablesInv, Quiet, NEW j \in DOMAIN procs,
         DOMAIN procs' = DOMAIN procs,
         procs'[j].status = "FREE", procs'[j].tg = NoGroup,
         \A i \in DOMAIN procs : i # j => Alike(procs'[i], procs[i]),
         groups' = DropThreadGroup(groups, procs[j].tg)
  PROVE  TablesInv'
<1> USE DEF TInv
<1>1. \A g \in Tids : Users(g)' = Users(g) \ {j}
  BY TidsAssumption DEF Users, Alike, NoGroup, NoTid
<1>2. UniqueTids'
  BY DEF TablesInv, UniqueTids, InUse, Alike
<1>3. NullGroups'
  BY DEF TablesInv, NullGroups, Alike
<1>4. NewGroups'
  BY <1>1, QuietKeepsNewGroups DEF TablesInv
<1>5. ASSUME NEW g \in Tids PROVE groups'[g].refs = Cardinality(Users(g)')
  <2>1. groups[g].refs = Cardinality(Users(g)) /\ groups[g] \in Groups
    BY DEF TablesInv, GroupRefs, WellTyped
  <2>2. Cardinality(Users(g) \ {j}) =
           IF j \in Users(g) THEN Cardinality(Users(g)) - 1 ELSE Cardinality(Users(g))
    BY UsersFinite, FS_RemoveElement
  <2>3. j \in Users(g) <=> procs[j].tg = g
    BY DEF Users
  <2>4. groups'[g].refs = IF procs[j].tg = g THEN groups[g].refs - 1 ELSE groups[g].refs
    BY <2>1, TidsAssumption DEF DropThreadGroup, NoGroup, NoTid, WellTyped, Groups
  <2> QED
    BY <1>1, <2>1, <2>2, <2>3, <2>4
<1> QED
  BY <1>2, <1>3, <1>4, <1>5 DEF TablesInv, GroupRefs

LEMMA FreeProcessFrees ==
  ASSUME NEW ps \in Seq(Slot(Tids)), NEW i \in DOMAIN ps
  PROVE  /\ FreeProcess(ps, i) \in Seq(Slot(Tids)) /\ DOMAIN FreeProcess(ps, i) = DOMAIN ps
         /\ FreeProcess(ps, i)[i].status = "FREE" /\ FreeProcess(ps, i)[i].tg = NoGroup
         /\ \A k \in DOMAIN ps : k # i => FreeProcess(ps, i)[k] = ps[k]
<1> DEFINE s == [ps[i] EXCEPT !.status = "FREE", !.tg = NoGroup, !.execve_info = NoInfo]
<1>1. FreeProcess(ps, i) = [ps EXCEPT ![i] = s]
  BY DEF FreeProcess
<1>2. s.status = "FREE"
  <2>1. \A r \in Slot(Tids) :
           [r EXCEPT !.status = "FREE", !.tg = NoGroup, !.execve_info = NoInfo].status = "FREE"
    BY DEF Slot
  <2> QED
    BY <2>1
<1> HIDE DEF s
<1>3. FreeProcess(ps, i)[i] = s /\ \A k \in DOMAIN ps : k # i => FreeProcess(ps, i)[k] = ps[k]
  BY <1>1
<1> QED
  BY <1>2, <1>3, FreeProcessTyped

LEMMA RoomInTable ==
  ASSUME WellTyped
  PROVE  /\ WithRoom(procs) \in Seq(Slot(Tids)) /\ DOMAIN procs \subseteq DOMAIN WithRoom(procs)
         /\ EmptySlot(procs) \in DOMAIN WithRoom(procs)
         /\ WithRoom(procs)[EmptySlot(procs)].status = "FREE"
         /\ \A i \in DOMAIN procs : WithRoom(procs)[i] = procs[i]
         /\ \A i \in DOMAIN WithRoom(procs) :
               i \notin DOMAIN procs => WithRoom(procs)[i] = FreeSlot
<1> DEFINE ps == WithRoom(procs)
           j == EmptySlot(procs)
<1>1. procs \in Seq(Slot(Tids)) /\ procs # <<>>
  BY DEF WellTyped
<1>2. /\ ps \in Seq(Slot(Tids)) /\ Len(procs) <= Len(ps)
      /\ j \in 1 .. Len(ps) /\ ps[j].status = "FREE"
      /\ \A i \in 1 .. Len(procs) : ps[i] = procs[i]
      /\ \A i \in 1 .. Len(ps) : i > Len(procs) => ps[i] = FreeSlot
  BY <1>1, EmptySlotIsFree
<1> HIDE DEF ps, j
<1>3. DOMAIN procs = 1 .. Len(procs) /\ DOMAIN ps = 1 .. Len(ps)
  BY <1>1, <1>2
<1>4. Len(procs) \in Nat /\ Len(ps) \in Nat
  BY <1>1, <1>2
<1>5. /\ ps \in Seq(Slot(Tids)) /\ DOMAIN procs \subseteq DOMAIN ps
      /\ j \in DOMAIN ps /\ ps[j].status = "FREE"
      /\ \A i \in DOMAIN procs : ps[i] = procs[i]
      /\ \A i \in DOMAIN ps : i \notin DOMAIN procs => ps[i] = FreeSlot
  BY <1>2, <1>3, <1>4
<1> QED
  BY <1>5 DEF ps, j

------------------------------------------------------------------------------
(* Steps of the main thread.                                                 *)

LEMMA ExitTables ==
  ASSUME TInv, TablesInv, NEW t \in Tids, ExitReported(t)
  PROVE  TablesInv'
<1> DEFINE i == Find(procs, t)
<1>1. Quiet
  BY ReapIsQuiet DEF ExitReported, TInv
<1>2. CASE UNCHANGED tables
  BY <1>1, <1>2, SameKeepsTables DEF tables
<1>3. CASE /\ Found(procs, t) # {}
           /\ procs' = FreeProcess(procs, i)
           /\ groups' = DropThreadGroup(groups, procs[i].tg)
  <2>1. i \in DOMAIN procs
    BY <1>3, FoundInTable DEF TInv
  <2>2. /\ DOMAIN procs' = DOMAIN procs
        /\ procs'[i].status = "FREE" /\ procs'[i].tg = NoGroup
        /\ \A k \in DOMAIN procs : k # i => procs'[k] = procs[k]
    BY <1>3, <2>1, FreeProcessFrees DEF TInv, WellTyped
  <2>3. \A k \in DOMAIN procs : k # i => Alike(procs'[k], procs[k])
    BY <2>2 DEF Alike
  <2> HIDE DEF i
  <2> QED
    BY <1>1, <1>3, <2>1, <2>2, <2>3, FreeKeepsTables
<1> QED
  BY <1>2, <1>3 DEF ExitReported, tables

LEMMA AppearsTables ==
  ASSUME TInv, TablesInv, NEW t \in Tids, Appears(t)
  PROVE  TablesInv'
<1> DEFINE ps == WithRoom(procs)
           j == EmptySlot(procs)
           s == [ps[j] EXCEPT !.status = "UNKNOWN", !.flags = {}, !.tid = t, !.tg = NoGroup,
                              !.in_syscall = FALSE]
<1> USE DEF TInv
<1>1. Quiet
  BY ReapIsQuiet DEF Appears
<1>2. /\ ps \in Seq(Slot(Tids)) /\ DOMAIN procs \subseteq DOMAIN ps
      /\ j \in DOMAIN ps /\ ps[j].status = "FREE"
      /\ \A i \in DOMAIN procs : ps[i] = procs[i]
      /\ \A i \in DOMAIN ps : i \notin DOMAIN procs => ps[i] = FreeSlot
  BY RoomInTable
<1>3. s.status = "UNKNOWN" /\ s.tid = t /\ s.tg = NoGroup
  <2>1. ps[j] \in Slot(Tids)
    BY <1>2
  <2> HIDE DEF ps, j
  <2> QED
    BY <2>1 DEF Slot
<1>4. procs' = [ps EXCEPT ![j] = s] /\ Found(procs, t) = {} /\ UNCHANGED groups
  BY DEF Appears
<1> HIDE DEF ps, s, j
<1>5. DOMAIN procs' = DOMAIN ps /\ procs'[j] = s /\ \A i \in DOMAIN ps : i # j => procs'[i] = ps[i]
  BY <1>2, <1>4
<1>6. \A i \in DOMAIN ps : i # j /\ ps[i].status # "FREE" => i \in DOMAIN procs
  BY <1>2 DEF FreeSlot
<1>7. \A i \in DOMAIN ps : ps[i].tg # NoGroup => i \in DOMAIN procs
  BY <1>2 DEF FreeSlot
<1>8. \A g \in Tids : Users(g)' = Users(g)
  <2>0. NoGroup \notin Tids
    BY TidsAssumption DEF NoGroup, NoTid
  <2>1. j \in DOMAIN procs => procs[j].tg = NoGroup
    BY <1>2 DEF TablesInv, NullGroups
  <2> QED
    BY <1>2, <1>3, <1>5, <1>7, <2>0, <2>1 DEF Users
<1>9. UniqueTids'
  <2>1. \A i \in InUse(procs)' : i # j => i \in InUse(procs) /\ procs'[i] = procs[i]
    BY <1>2, <1>5, <1>6 DEF InUse
  <2>2. \A i \in InUse(procs) : procs[i].tid # t
    BY <1>4 DEF Found
  <2> QED
    BY <1>3, <1>5, <2>1, <2>2 DEF TablesInv, UniqueTids
<1>10. NullGroups'
  BY <1>2, <1>3, <1>5 DEF TablesInv, NullGroups, FreeSlot
<1>11. NewGroups'
  BY <1>1, <1>8, QuietKeepsNewGroups DEF TablesInv
<1>12. GroupRefs'
  BY <1>4, <1>8 DEF TablesInv, GroupRefs
<1> QED
  BY <1>9, <1>10, <1>11, <1>12 DEF TablesInv

LEMMA AttachedTables ==
  ASSUME TInv, TablesInv, NEW t \in Tids, Attached(t)
  PROVE  TablesInv'
<1> DEFINE i == Find(procs, t)
           s == [procs[i] EXCEPT !.status = "ATTACHED"]
<1>1. Quiet
  BY ReapIsQuiet DEF Attached, TInv
<1>2. i \in DOMAIN procs /\ procs[i] \in Slot(Tids)
  BY FoundInTable DEF Attached, TInv
<1>3. procs[i].status = "ALLOCATED" /\ procs' = [procs EXCEPT ![i] = s] /\ UNCHANGED groups
  BY DEF Attached
<1>4. Alike(s, procs[i])
  <2> HIDE DEF i
  <2> QED
    BY <1>2, <1>3 DEF Alike, Slot
<1> HIDE DEF i, s
<1> QED
  BY <1>1, <1>2, <1>3, <1>4, EditKeepsTables

LEMMA SyscallStopTables ==
  ASSUME TInv, TablesInv, NEW t \in Tids, SyscallStop(t)
  PROVE  TablesInv'
<1> DEFINE i == Find(procs, t)
           s == WithRegisters(procs[i], tracee[t])
<1>1. Quiet
  BY ReapIsQuiet DEF SyscallStop, TInv
<1>2. i \in DOMAIN procs /\ procs[i] \in Slot(Tids)
  BY FoundInTable DEF SyscallStop, Stop, TInv
<1>3. procs' = [procs EXCEPT ![i] = s] /\ UNCHANGED groups
  BY DEF SyscallStop
<1>4. Alike(s, procs[i])
  <2> HIDE DEF i
  <2> QED
    BY <1>2, <1>3 DEF Alike, Slot, WithRegisters
<1> HIDE DEF i, s
<1> QED
  BY <1>1, <1>2, <1>3, <1>4, EditKeepsTables

LEMMA ExecTables ==
  ASSUME TInv, TablesInv, NEW t \in Tids, ExecEvent(t)
  PROVE  TablesInv'
<1> DEFINE i == Find(procs, t)
           own == procs[i].execve_info # NoInfo
           j == IF own \/ ExecCallers(i) = {} THEN i ELSE Minimum(ExecCallers(i))
<1> USE DEF TInv
<1>1. Quiet
  BY ReapIsQuiet DEF ExecEvent
<1>2. i \in DOMAIN procs /\ procs[i] \in Slot(Tids)
  BY FoundInTable DEF ExecEvent, Stop
<1>3. j \in DOMAIN procs
  <2>1. ExecCallers(i) \subseteq DOMAIN procs /\ ExecCallers(i) \subseteq Nat
    BY DEF ExecCallers, WellTyped
  <2>2. ExecCallers(i) # {} => Minimum(ExecCallers(i)) \in ExecCallers(i)
    BY <2>1, MinimumExists
  <2> QED
    BY <1>2, <2>1, <2>2
<1>4. CASE UNCHANGED tables
  BY <1>1, <1>4, SameKeepsTables DEF tables
<1>5. CASE /\ own /\ UNCHANGED groups
           /\ procs' = [[procs EXCEPT ![i].execve_info = NoInfo] EXCEPT ![i].flags = {"EXECD"}]
  <2> DEFINE s == [[procs[i] EXCEPT !.execve_info = NoInfo] EXCEPT !.flags = {"EXECD"}]
  <2>1. procs' = [procs EXCEPT ![i] = s]
    BY <1>2, <1>5 DEF WellTyped
  <2>2. Alike(s, procs[i])
    <3> HIDE DEF i
    <3> QED
      BY <1>2 DEF Alike, Slot
  <2> HIDE DEF i, s
  <2> QED
    BY <1>1, <1>2, <1>5, <2>1, <2>2, EditKeepsTables
<1>6. CASE /\ ~own /\ groups' = DropThreadGroup(groups, procs[j].tg)
           /\ procs' = [FreeProcess(procs, j) EXCEPT ![i].flags = {"EXECD"}]
  <2> DEFINE freed == FreeProcess(procs, j)
             s == [freed[i] EXCEPT !.flags = {"EXECD"}]
  <2>1. /\ freed \in Seq(Slot(Tids)) /\ DOMAIN freed = DOMAIN procs
        /\ freed[j].status = "FREE" /\ freed[j].tg = NoGroup
        /\ \A k \in DOMAIN procs : k # j => freed[k] = procs[k]
    BY <1>3, FreeProcessFrees DEF WellTyped
  <2>2. procs' = [freed EXCEPT ![i] = s]
    BY <1>6
  <2>3. s.status = freed[i].status /\ s.tg = freed[i].tg /\ s.tid = freed[i].tid
    <3>1. freed[i] \in Slot(Tids)
      BY <1>2, <2>1
    <3> HIDE DEF freed, i
    <3> QED
      BY <3>1 DEF Slot
  <2> HIDE DEF i, j, s, freed
  <2>4. /\ DOMAIN procs' = DOMAIN procs
        /\ procs'[j].status = "FREE" /\ procs'[j].tg = NoGroup
    BY <1>2, <1>3, <2>1, <2>2, <2>3
  <2>5. \A k \in DOMAIN procs : k # j => Alike(procs'[k], procs[k])
    BY <1>2, <2>1, <2>2, <2>3 DEF Alike
  <2> QED
    BY <1>1, <1>3, <1>6, <2>4, <2>5, FreeKeepsTables
<1> QED
  BY <1>4, <1>5, <1>6 DEF ExecEvent, tables

\* The creator of a tracee reports it: its slot, and its thread group, begin.
LEMMA ForkTables ==
  ASSUME TInv, TablesInv, NEW t \in Tids, ForkEvent(t)
  PROVE  TablesInv'
<1> DEFINE i == Find(procs, t)
           c == tracee[t].child
           g == procs[i].tg
           seen == Found(procs, c) # {}
           j == IF seen THEN Find(procs, c) ELSE EmptySlot(procs)
           is_thread == procs[i].call = "clone"
           table == IF seen THEN procs ELSE WithRoom(procs)
           st == IF seen THEN "ATTACHED" ELSE "ALLOCATED"
           tg == IF is_thread THEN g ELSE c
           si == [table[i] EXCEPT !.flags = @ \ {"FORKING"}]
           mid == [table EXCEPT ![i] = si]
           sj == [mid[j] EXCEPT !.status = st, !.flags = {}, !.tid = c, !.in_syscall = FALSE,
                                !.tg = tg, !.identifier = Len(dbProcs) + 1]
<1> USE DEF TInv
<1>1. procs[i] \in Slot(Tids) /\ i \in DOMAIN procs
  BY FoundInTable DEF ForkEvent, Stop
<1>2. c \in Tids /\ Spawning(t)
  BY DEF ForkEvent, Stop, Waited, Event, KernelInv, Spawning
<1>3. /\ table \in Seq(Slot(Tids)) /\ DOMAIN procs \subseteq DOMAIN table
      /\ j \in DOMAIN table /\ i \in DOMAIN table
      /\ \A k \in DOMAIN procs : table[k] = procs[k]
      /\ \A k \in DOMAIN table : k \notin DOMAIN procs => table[k] = FreeSlot
      /\ ~seen => table[j].status = "FREE"
      /\ seen => table[j].tid = c
  <2>1. CASE seen
    BY <1>1, <2>1, FoundInTable DEF WellTyped
  <2>2. CASE ~seen
    BY <1>1, <2>2, RoomInTable
  <2> QED
    BY <2>1, <2>2
<1>4. CASE UNCHANGED <<tracee, tables>>
  <2>1. Quiet
    BY <1>4, ReapIsQuiet
  <2> QED
    BY <1>4, <2>1, SameKeepsTables DEF tables
<1>5. CASE /\ g # NoGroup
           /\ seen => procs[j].status = "UNKNOWN"
           /\ procs' = [table EXCEPT
                  ![i].flags = @ \ {"FORKING"},
                  ![j] = [@ EXCEPT !.status = IF seen THEN "ATTACHED" ELSE "ALLOCATED",
                                   !.flags = {}, !.tid = c, !.in_syscall = FALSE,
                                   !.tg = IF is_thread THEN g ELSE c,
                                   !.identifier = Len(dbProcs) + 1]]
           /\ groups' = IF is_thread THEN ShareThreadGroup(groups, g)
                         ELSE NewThreadGroup(groups, c, groups[g].wd)
           /\ \/ tracee' = [tracee EXCEPT ![t] = Resumed(Reaped(@)),
                                          ![c] = IF seen THEN Resumed(@) ELSE @]
              \/ tracee' = [tracee EXCEPT ![t] = Reaped(@),
                                          ![c] = IF seen THEN Resumed(@) ELSE @]
  <2>1. g \in Tids /\ table[i] = procs[i] /\ procs[i] \in Slot(Tids)
    BY <1>1, <1>3, <1>5 DEF Slot
  <2>2. table[j].tg = NoGroup
    <3>1. seen => table[j] = procs[j] /\ j \in DOMAIN procs /\ procs[j].status = "UNKNOWN"
      BY <1>3, <1>5
    <3>2. ~seen /\ j \in DOMAIN procs => table[j] = procs[j] /\ procs[j].status = "FREE"
      BY <1>3
    <3>3. j \notin DOMAIN procs => table[j] = FreeSlot
      BY <1>3
    <3> HIDE DEF j, table, seen
    <3> QED
      BY <3>1, <3>2, <3>3 DEF TablesInv, NullGroups, FreeSlot
  <2>3. i # j
    BY <1>5, <2>1, <2>2
  <2>4. si.tid = procs[i].tid /\ si.tg = g /\ si.status = procs[i].status
    <3> HIDE DEF i, table
    <3> QED
      BY <2>1 DEF Slot
  <2>5. st \in {"ATTACHED", "ALLOCATED"} /\ tg \in Tids
    BY <1>2, <2>1
  <2>6. mid[j] = table[j] /\ mid[i] = si /\ DOMAIN mid = DOMAIN table
        /\ \A k \in DOMAIN table : k # i => mid[k] = table[k]
    <3> HIDE DEF si, table, i, j
    <3> QED
      BY <1>3, <2>3
  <2>7. sj.status = st /\ sj.tid = c /\ sj.tg = tg
    <3>1. mid[j] \in Slot(Tids)
      BY <1>3, <2>6
    <3> HIDE DEF mid, j, st, tg, c
    <3> QED
      BY <3>1 DEF Slot
  <2>8. /\ DOMAIN procs' = DOMAIN table /\ procs'[j] = sj
        /\ \A k \in DOMAIN table : k # j => /\ procs'[k].tid = table[k].tid
                                            /\ procs'[k].tg = table[k].tg
                                            /\ procs'[k].status = table[k].status
    <3>1. procs' = [mid EXCEPT ![j] = sj]
      BY <1>5
    <3> HIDE DEF sj, mid, si, table, j, i, c, g, st, tg, seen, is_thread
    <3>2. /\ DOMAIN procs' = DOMAIN mid /\ procs'[j] = sj
          /\ \A k \in DOMAIN mid : k # j => procs'[k] = mid[k]
      BY <1>3, <2>6, <3>1
    <3>3. \A k \in DOMAIN table : k # j => /\ procs'[k].tid = table[k].tid
                                           /\ procs'[k].tg = table[k].tg
                                           /\ procs'[k].status = table[k].status
      BY <1>3, <2>1, <2>4, <2>6, <3>2 DEF g
    <3> QED
      BY <2>6, <3>2, <3>3
  <2> HIDE DEF sj, mid, si, table, st, tg, j, i, c, g, seen, is_thread
  <2>9. \A h \in Tids : Users(h)' = IF h = tg THEN Users(h) \cup {j} ELSE Users(h)
    <3>1. NoGroup \notin Tids
      BY TidsAssumption DEF NoGroup, NoTid
    <3>2. \A k \in DOMAIN table : k \notin DOMAIN procs => table[k].tg = NoGroup
      BY <1>3 DEF FreeSlot
    <3>3. \A h \in Tids : Users(h) = {k \in DOMAIN table : table[k].tg = h}
      BY <1>3, <3>1, <3>2 DEF Users
    <3>4. \A h \in Tids : Users(h)' = {k \in DOMAIN table : procs'[k].tg = h}
      BY <2>8 DEF Users
    <3>5. \A k \in DOMAIN table : procs'[k].tg = IF k = j THEN tg ELSE table[k].tg
      BY <2>7, <2>8
    <3>6. \A h \in Tids : h # table[j].tg
      BY <2>2, <3>1
    <3>7. ASSUME NEW h \in Tids
          PROVE  {k \in DOMAIN table : procs'[k].tg = h} =
                    IF h = tg THEN {k \in DOMAIN table : table[k].tg = h} \cup {j}
                    ELSE {k \in DOMAIN table : table[k].tg = h}
      <4>1. j \in DOMAIN table
        BY <1>3
      <4>2. CASE h = tg
        BY <3>5, <4>1, <4>2
      <4>3. CASE h # tg
        BY <3>5, <3>6, <4>1, <4>3
      <4> QED
        BY <4>2, <4>3
    <3> QED
      BY <3>3, <3>4, <3>7
  <2>10. j \notin Users(tg)
    BY <1>3, <2>2, <2>5, TidsAssumption DEF Users, NoGroup, NoTid
  <2>11. Users(c) = {} /\ c \notin Unborn /\ \A u \in Tids : Spawning(u) /\ tracee[u].child = c => u = t
    BY <1>2 DEF TablesInv, NewGroups, c
  <2>12. i \in Users(g)
    BY <1>1 DEF Users, g, i
  <2>13. c # g
    BY <2>11, <2>12
  <2>14. GroupRefs'
    <3>1. \A h \in Tids : groups[h].refs = Cardinality(Users(h)) /\ groups[h] \in Groups
      BY DEF TablesInv, GroupRefs, WellTyped
    <3>2. \A h \in Tids : Cardinality(Users(h)') =
             IF h = tg THEN Cardinality(Users(h)) + 1 ELSE Cardinality(Users(h))
      <4>1. Cardinality(Users(tg) \cup {j}) = Cardinality(Users(tg)) + 1
        BY <2>10, UsersFinite, FS_AddElement
      <4> QED
        BY <2>9, <4>1
    <3>3. CASE is_thread
      <4>1. tg = g
        BY <3>3 DEF tg
      <4>2. \A h \in Tids : groups'[h].refs = IF h = g THEN groups[h].refs + 1 ELSE groups[h].refs
        BY <1>5, <2>1, <3>1, <3>3 DEF ShareThreadGroup, WellTyped, Groups
      <4> QED
        BY <3>1, <3>2, <4>1, <4>2 DEF GroupRefs
    <3>4. CASE ~is_thread
      <4>1. tg = c
        BY <3>4 DEF tg
      <4>2. \A h \in Tids : groups'[h].refs = IF h = c THEN 1 ELSE groups[h].refs
        BY <1>2, <1>5, <3>4 DEF NewThreadGroup, WellTyped
      <4>3. Cardinality(Users(c)) = 0
        BY <2>11, FS_EmptySet
      <4> QED
        BY <3>1, <3>2, <4>1, <4>2, <4>3 DEF GroupRefs
    <3> QED
      BY <3>3, <3>4
  <2>15. NullGroups'
    BY <1>3, <2>5, <2>7, <2>8 DEF TablesInv, NullGroups, FreeSlot
  <2>16. UniqueTids'
    <3>1. \A k \in InUse(procs)' : k # j => /\ k \in InUse(procs) /\ procs'[k].tid = procs[k].tid
      BY <1>3, <2>8 DEF InUse, FreeSlot
    <3>2. \A k \in InUse(procs) : k # j => procs[k].tid # c
      <4>1. CASE seen
        <5>1. j \in InUse(procs) /\ procs[j].tid = c
          BY <1>3, <1>5, <4>1, FoundInTable DEF InUse, j, c, seen
        <5> QED
          BY <5>1 DEF TablesInv, UniqueTids
      <4>2. CASE ~seen
        BY <4>2 DEF seen, c, Found
      <4> QED
        BY <4>1, <4>2
    <3> QED
      BY <2>7, <2>8, <3>1, <3>2 DEF TablesInv, UniqueTids
  <2>17. NewGroups'
    <3>1. \A u \in Tids : tracee[u] \in Tracee
      BY DEF KernelInv
    <3>2. PICK r \in {Resumed(Reaped(tracee[t])), Reaped(tracee[t])} :
             tracee' = [tracee EXCEPT ![t] = r, ![c] = IF seen THEN Resumed(@) ELSE @]
      BY <1>5
    <3>3. r.ev # "spawn" /\ (r.st = "unborn" => tracee[t].st = "unborn")
      BY <3>1, QuietChanges
    <3>3a. r \in Tracee
      <4>1. Reaped(tracee[t]) \in Tracee /\ Resumed(Reaped(tracee[t])) \in Tracee
        BY KernelInvIsGood, ReapedIsGood, ResumedIsGood DEF GoodTracee
      <4> QED
        BY <4>1
    <3>3b. \A w \in Tids : /\ Resumed(tracee[w]).st = "unborn" => tracee[w].st = "unborn"
                           /\ Resumed(tracee[w]).ev = "spawn" => tracee[w].ev = "spawn"
                           /\ Resumed(tracee[w]).ev = "spawn" =>
                                 Resumed(tracee[w]).child = tracee[w].child
      BY <3>1, QuietChanges
    <3>3c. Resumed(r).ev # "spawn" /\ (Resumed(r).st = "unborn" => tracee[t].st = "unborn")
      BY <3>3, <3>3a, QuietChanges
    <3>3d. /\ \A w \in Tids : w # t /\ w # c => tracee'[w] = tracee[w]
           /\ tracee'[t] \in {r, Resumed(r)}
           /\ c # t => tracee'[c] \in {tracee[c], Resumed(tracee[c])}
      BY <1>2, <3>2 DEF KernelInv
    <3>4. Quiet /\ tracee'[t].ev # "spawn"
      BY <1>2, <3>3, <3>3b, <3>3c, <3>3d DEF Quiet
    <3>5. /\ Unborn' \subseteq Unborn
          /\ \A u \in Tids : Spawning(u)' => /\ Spawning(u) /\ u # t
                                             /\ tracee'[u].child = tracee[u].child
      BY <3>4 DEF Quiet, Unborn, Spawning
    <3>6. \A h \in Unborn : h \in Tids /\ h # tg /\ Users(h) = {}
      BY <2>11, <2>12 DEF Unborn, TablesInv, NewGroups, tg
    <3>7. \A u \in Tids : Spawning(u) /\ u # t =>
             tracee[u].child \in Tids /\ tracee[u].child # tg /\ Users(tracee[u].child) = {}
      BY <2>11, <2>12 DEF TablesInv, NewGroups, tg, KernelInv, Spawning
    <3>8. (\A h \in Unborn : Users(h) = {})'
      BY <2>9, <3>5, <3>6
    <3>9. ASSUME NEW u \in Tids, Spawning(u)'
          PROVE  (tracee[u].child \notin Unborn /\ Users(tracee[u].child) = {})'
      <4> DEFINE d == tracee[u].child
      <4>1. d \in Tids /\ d # tg /\ Users(d) = {} /\ d \notin Unborn /\ tracee'[u].child = d
        BY <3>5, <3>7, <3>9 DEF TablesInv, NewGroups
      <4>2. {k \in DOMAIN procs' : procs'[k].tg = d} = {}
        BY <2>9, <4>1 DEF Users
      <4> QED
        BY <3>5, <4>1, <4>2 DEF Users
    <3>10. (\A u, v \in Tids : Spawning(u) /\ Spawning(v) /\ tracee[u].child = tracee[v].child
              => u = v)'
      BY <3>5 DEF TablesInv, NewGroups
    <3> QED
      BY <3>8, <3>9, <3>10 DEF NewGroups
  <2> QED
    BY <2>14, <2>15, <2>16, <2>17 DEF TablesInv
<1> QED
  BY <1>4, <1>5 DEF ForkEvent, tables

LEMMA ServeTables ==
  ASSUME TInv, VInv, TablesInv, Serve
  PROVE  TablesInv'
<1> DEFINE r == Head(toTracer[pollfds[Minimum(todo)]])
<1> USE DEF TInv
<1>1. UNCHANGED <<procs, groups>>
  BY DEF Serve, tables
<1>2. \/ UNCHANGED tracee
      \/ r.tid \in Tids /\ tracee' = [tracee EXCEPT ![r.tid] = Resumed(@)]
  BY DEF Serve, Granted
<1>3. \A u \in Tids : tracee[u] \in Tracee
  BY DEF KernelInv
<1> HIDE DEF r
<1>3a. \A u \in Tids : /\ Resumed(tracee[u]).st = "unborn" => tracee[u].st = "unborn"
                       /\ Resumed(tracee[u]).ev = "spawn" => tracee[u].ev = "spawn"
                       /\ Resumed(tracee[u]).ev = "spawn" =>
                             Resumed(tracee[u]).child = tracee[u].child
  BY <1>3, QuietChanges
<1>3b. \A u \in Tids : tracee'[u] \in {tracee[u], Resumed(tracee[u])}
  BY <1>2 DEF KernelInv
<1>4. Quiet
  BY <1>3a, <1>3b DEF Quiet
<1> QED
  BY <1>1, <1>4, SameKeepsTables

\* cleanup() empties the table.
LEMMA CleanupTables ==
  ASSUME TInv, TablesInv, Cleanup
  PROVE  TablesInv'
<1> USE DEF TInv
<1>1. Quiet
  BY KillIsQuiet DEF Cleanup
<1>2. DOMAIN procs' = DOMAIN procs
  BY DEF Cleanup
<1>3. \A i \in DOMAIN procs : procs'[i].status = "FREE" /\ procs'[i].tg = NoGroup
  <2>1. \A i \in DOMAIN procs : procs'[i] = IF i \in InUse(procs) THEN FreeProcess(procs, i)[i]
                                                                 ELSE procs[i]
    BY DEF Cleanup
  <2>2. \A i \in DOMAIN procs : /\ FreeProcess(procs, i)[i].status = "FREE"
                                /\ FreeProcess(procs, i)[i].tg = NoGroup
    BY FreeProcessFrees DEF WellTyped
  <2>3. \A i \in DOMAIN procs : i \notin InUse(procs) =>
                                   procs[i].status = "FREE" /\ procs[i].tg = NoGroup
    BY DEF InUse, TablesInv, NullGroups
  <2> QED
    BY <2>1, <2>2, <2>3
<1>4. \A g \in Tids : Users(g)' = {}
  BY <1>2, <1>3, TidsAssumption DEF Users, NoGroup, NoTid
<1>5. UniqueTids' /\ NullGroups'
  BY <1>2, <1>3 DEF UniqueTids, InUse, NullGroups
<1>6. GroupRefs'
  BY <1>4, FS_EmptySet DEF GroupRefs, Cleanup
<1>7. NewGroups'
  BY <1>1, <1>4, QuietKeepsNewGroups DEF TablesInv
<1> QED
  BY <1>5, <1>6, <1>7 DEF TablesInv

------------------------------------------------------------------------------
(* Steps of the workers and of the tracees.                                  *)

\* What a handler writes to its slot does not move it.
LEMMA HandlersAlike ==
  ASSUME NEW s \in Slot(Tids)
  PROVE  /\ Alike(Toggled(s), s)
         /\ Alike(Toggled(ExecdIgnored(s)), s)
         /\ Alike(Toggled(Handled(s)), s)
         /\ \A b : Alike(Toggled([s EXCEPT !.execve_info = b]), s)
<1>1. \A p, q, r : Alike(p, q) /\ Alike(q, r) => Alike(p, r)
  BY DEF Alike
<1>2. ASSUME NEW p, p.tid = s.tid, p.tg = s.tg, p.status = s.status PROVE Alike(p, s)
  BY <1>2 DEF Alike
<1>3. \A q \in Slot(Tids) : Alike(Toggled(q), q)
  BY DEF Alike, Toggled, Slot
<1>4. ExecdIgnored(s) \in Slot(Tids) /\ Handled(s) \in Slot(Tids)
  BY SlotEdits
<1>5. Alike(ExecdIgnored(s), s)
  BY DEF ExecdIgnored, Alike, Slot
<1>6. Alike(Handled(s), s)
  <2>1. /\ \A f : Alike([s EXCEPT !.flags = f], s)
        /\ \A b : Alike([s EXCEPT !.execve_info = b], s)
        /\ Alike(s, s)
    BY DEF Alike, Slot
  <2>2. /\ Alike([s EXCEPT !.flags = @ \cup {"FORKING"}], s)
        /\ Alike([s EXCEPT !.flags = @ \ {"FORKING"}], s)
    BY <2>1
  <2> QED
    BY <2>1, <2>2, Zenon DEF Handled
<1>7. ASSUME NEW b PROVE Alike(Toggled([s EXCEPT !.execve_info = b]), s)
  BY DEF Alike, Toggled, Slot
<1> QED
  BY <1>1, <1>3, <1>4, <1>5, <1>6, <1>7

LEMMA WorkerTables ==
  ASSUME TInv, VInv, TablesInv, NEW t \in Tids, WorkerStep(t)
  PROVE  TablesInv'
<1> USE DEF TInv
<1>1. Quiet
  <2>1. UNCHANGED tracee
    BY DEF WorkerStep, StopHandled, StopPeeks, BadPointer, PeekAgain, PathRead, InsertFails,
           Answered, kernelVars
  <2> QED
    BY <2>1 DEF Quiet
<1>2. \A g \in Tids : groups'[g].refs = groups[g].refs
  <2>1. ASSUME NEW h, NEW n, groups' = [groups EXCEPT ![h].wd = n]
        PROVE  \A g \in Tids : groups'[g].refs = groups[g].refs
    BY <2>1 DEF WellTyped, Groups
  <2>2. UNCHANGED groups \/ \E h, n : groups' = [groups EXCEPT ![h].wd = n]
    <3>1. CASE PathRead(t)
      BY <3>1 DEF PathRead, syscall_fileopening, syscall_chdir, syscall_execve_in, tables
    <3>2. CASE InsertFails(t)
      BY <3>2 DEF InsertFails
    <3>3. CASE UNCHANGED groups
      BY <3>3
    <3> QED
      BY <3>1, <3>2, <3>3
         DEF WorkerStep, StopHandled, StopPeeks, BadPointer, PeekAgain, Answered, tables
  <2> QED
    BY <2>1, <2>2
<1>3. UNCHANGED procs \/ \E i \in DOMAIN procs : \E s : /\ Alike(s, procs[i])
                                                        /\ procs' = [procs EXCEPT ![i] = s]
  <2>1. CASE StopHandled(t)
    <3> DEFINE i == Head(toWorker[t]).arg
               s == procs[i]
    <3>1. i \in DOMAIN procs /\ s \in Slot(Tids)
      BY <2>1, HeadTyped DEF StopHandled, Receives
    <3>2. \/ procs' = [procs EXCEPT ![i] = Toggled(ExecdIgnored(s))]
          \/ procs' = [procs EXCEPT ![i] = Toggled(Handled(s))]
      BY <2>1 DEF StopHandled, EndOfStop
    <3>3. Alike(Toggled(ExecdIgnored(s)), s) /\ Alike(Toggled(Handled(s)), s)
      BY <3>1, HandlersAlike
    <3> QED
      BY <3>1, <3>2, <3>3
  <2>2. CASE PathRead(t)
    <3> DEFINE i == workers[t].slot
               s == procs[i]
    <3>1. i \in DOMAIN procs /\ s \in Slot(Tids)
      BY <2>2 DEF PathRead, Receives, PointersInv, InTable, WellTyped
    <3>2. \/ UNCHANGED procs
          \/ procs' = [procs EXCEPT ![i] = Toggled(s)]
          \/ \E b : procs' = [procs EXCEPT ![i] = Toggled([s EXCEPT !.execve_info = b])]
      BY <2>2 DEF PathRead, syscall_fileopening, syscall_chdir, syscall_execve_in, EndOfStop, tables
    <3>3. Alike(Toggled(s), s) /\ \A b : Alike(Toggled([s EXCEPT !.execve_info = b]), s)
      BY <3>1, HandlersAlike
    <3> QED
      BY <3>1, <3>2, <3>3
  <2>3. CASE StopPeeks(t) \/ BadPointer(t) \/ PeekAgain(t) \/ InsertFails(t) \/ Answered(t)
    BY <2>3 DEF StopPeeks, BadPointer, PeekAgain, InsertFails, Answered, tables
  <2> QED
    BY <2>1, <2>2, <2>3 DEF WorkerStep
<1>4. CASE UNCHANGED procs
  <2>1. \A i \in DOMAIN procs : Alike(procs'[i], procs[i])
    BY <1>4 DEF Alike
  <2> QED
    BY <1>1, <1>2, <1>4, <2>1, AlikeKeepsTables
<1> QED
  BY <1>1, <1>2, <1>3, <1>4, EditKeepsTables

\* A fork takes a tid that no slot points to; nothing else in the kernel makes
\* a tid one of a process.
LEMMA KernelTables ==
  ASSUME TInv, TablesInv, NEW t \in Tids, KernelStep(t), UNCHANGED <<procs, groups>>
  PROVE  TablesInv'
<1> USE DEF TInv
<1>1. \A u \in Tids : tracee[u] \in Tracee
  BY DEF KernelInv
<1>2. tracee \in [Tids -> Tracee]
  BY DEF KernelInv
<1>3. ASSUME Quiet PROVE TablesInv'
  BY <1>3, SameKeepsTables
<1>4. ASSUME NEW s, tracee' = [tracee EXCEPT ![t] = s], s.st # "unborn", s.ev # "spawn"
      PROVE  TablesInv'
  BY <1>2, <1>3, <1>4 DEF Quiet
<1>5. ASSUME NEW ts, NEW why, tracee' = KillAll(ts, why) PROVE TablesInv'
  BY <1>3, <1>5, KillIsQuiet
<1>6. CASE EnterCall(t)
  <2>1. PICK c : tracee' = [tracee EXCEPT ![t] =
                    [Stopped(@, "sysin") EXCEPT !.at = "call", !.call = c]]
    BY <1>6 DEF EnterCall
  <2>2. [Stopped(tracee[t], "sysin") EXCEPT !.at = "call", !.call = c].st = "stopped"
    BY <1>1 DEF Stopped, Tracee
  <2>3. [Stopped(tracee[t], "sysin") EXCEPT !.at = "call", !.call = c].ev = "sysin"
    BY <1>1 DEF Stopped, Tracee
  <2> QED
    BY <1>4, <2>1, <2>2, <2>3
<1>7. ASSUME NEW r, ReturnWith(t, r) PROVE TablesInv'
  <2> DEFINE s == [Stopped(tracee[t], "sysout") EXCEPT !.at = "user", !.ret = r]
  <2>1. s.st = "stopped" /\ s.ev = "sysout"
    BY <1>1 DEF Stopped, Tracee
  <2>2. tracee' = [tracee EXCEPT ![t] = s]
    BY <1>7 DEF ReturnWith
  <2> QED
    BY <1>4, <2>1, <2>2
<1>8. CASE PathCallSucceeds(t) \/ CallFails(t) \/ FinishCall(t)
  BY <1>7, <1>8 DEF PathCallSucceeds, CallFails, FinishCall
<1>9. CASE Exit(t) \/ Kill(t)
  BY <1>5, <1>9 DEF Exit, Kill
<1>10. CASE SignalStop(t)
  <2> DEFINE s == [Stopped(tracee[t], "signal") EXCEPT !.at = "sig"]
  <2>1. s.st = "stopped" /\ s.ev = "signal"
    BY <1>1 DEF Stopped, Tracee
  <2>2. tracee' = [tracee EXCEPT ![t] = s]
    BY <1>10 DEF SignalStop
  <2> QED
    BY <1>4, <2>1, <2>2
<1>11. CASE SignalDelivered(t)
  <2>1. CASE tracee' = [tracee EXCEPT ![t].at = "user"]
    <3>1. Quiet
      BY <1>2, <2>1 DEF Quiet, Tracee
    <3> QED
      BY <1>3, <3>1
  <2> QED
    BY <1>5, <1>11, <2>1 DEF SignalDelivered
<1>12. CASE ExecKills(t)
  <2> DEFINE k == KillAll(Others(t), "exited")
  <2>1. tracee' = [k EXCEPT ![t].st = "execwait"]
    BY <1>12 DEF ExecKills
  <2>2. k[t] = tracee[t]
    BY DEF KillAll, Others
  <2>3. \A u \in Tids : k[u] = tracee[u] \/ (k[u].st = "dead" /\ k[u].ev = "exit")
    BY <1>1 DEF KillAll, Dead, Tracee
  <2>4. DOMAIN k = Tids
    BY DEF KillAll
  <2> HIDE DEF k
  <2>5. \A u \in Tids : u # t => tracee'[u] = k[u]
    BY <2>1, <2>4
  <2>6. tracee'[t] = [tracee[t] EXCEPT !.st = "execwait"]
    BY <2>1, <2>2, <2>4
  <2>7. Quiet
    BY <1>1, <2>3, <2>5, <2>6 DEF Quiet, Tracee
  <2> QED
    BY <1>3, <2>7
<1>13. CASE Exec(t)
  <2> DEFINE leader == tracee[t].grp
             s == [Stopped(tracee[t], "exec") EXCEPT !.at = "return"]
  <2>1. s.st = "stopped" /\ s.ev = "exec"
    BY <1>1 DEF Stopped, Tracee
  <2>2. \A u \in Tids : tracee'[u] \in {s, tracee[u]}
                        \/ (u = t /\ tracee'[u] = [tracee[t] EXCEPT !.st = "gone"])
    BY <1>13 DEF Exec
  <2> HIDE DEF s
  <2>3. Quiet
    BY <1>1, <2>1, <2>2 DEF Quiet, Tracee
  <2> QED
    BY <1>3, <2>3
<1>14. CASE Spawn(t)
  <2>1. PICK c \in Unborn : \E g :
           tracee' = [tracee EXCEPT ![t] = [Stopped(@, "spawn") EXCEPT !.at = "return", !.child = c],
                                    ![c] = Born(g)]
    BY <1>14 DEF Spawn
  <2>2. PICK g :
           tracee' = [tracee EXCEPT ![t] = [Stopped(@, "spawn") EXCEPT !.at = "return", !.child = c],
                                    ![c] = Born(g)]
    BY <2>1
  <2> DEFINE s == [Stopped(tracee[t], "spawn") EXCEPT !.at = "return", !.child = c]
  <2>3. s.st = "stopped" /\ s.child = c
    BY <1>1 DEF Stopped, Tracee
  <2>4. c \in Tids /\ c # t
    BY <1>14, <2>1 DEF Unborn, Spawn, Running
  <2>5. Born(g).st = "stopped" /\ Born(g).ev = "sigstop"
    BY DEF Born, NotBorn
  <2>6. tracee'[t] = s /\ tracee'[c] = Born(g) /\ \A u \in Tids : u # t /\ u # c => tracee'[u] = tracee[u]
    BY <1>2, <2>2, <2>4
  <2> HIDE DEF s
  <2>7. Unborn' \subseteq Unborn /\ c \notin Unborn'
    BY <2>3, <2>5, <2>6 DEF Unborn
  <2>8. \A u \in Tids : Spawning(u)' =>
           \/ u = t /\ tracee'[u].child = c
           \/ u # t /\ Spawning(u) /\ tracee'[u].child = tracee[u].child
    BY <2>3, <2>5, <2>6 DEF Spawning
  <2>9. \A g1 \in Tids : Users(g1)' = Users(g1)
    BY DEF Users
  <2>10. (\A h \in Unborn : Users(h) = {})'
    BY <2>7, <2>9 DEF TablesInv, NewGroups, Unborn
  <2>11. ASSUME NEW u \in Tids, Spawning(u)'
         PROVE  (tracee[u].child \notin Unborn /\ Users(tracee[u].child) = {})'
    <3> DEFINE d == tracee'[u].child
    <3>1. d \notin Unborn' /\ Users(d) = {}
      BY <2>1, <2>7, <2>8, <2>11 DEF TablesInv, NewGroups
    <3> QED
      BY <3>1 DEF Users
  <2>12. (\A u, v \in Tids : Spawning(u) /\ Spawning(v) /\ tracee[u].child = tracee[v].child
             => u = v)'
    BY <2>1, <2>8 DEF TablesInv, NewGroups
  <2>13. NewGroups'
    BY <2>10, <2>11, <2>12 DEF NewGroups
  <2> QED
    BY <2>9, <2>13 DEF TablesInv, UniqueTids, GroupRefs, NullGroups, InUse
<1> QED
  BY <1>6, <1>8, <1>9, <1>10, <1>11, <1>12, <1>13, <1>14 DEF KernelStep

LEMMA TablesInit == Init => TablesInv
<1> SUFFICES ASSUME Init PROVE TablesInv
  OBVIOUS
<1> DEFINE first == [FreeSlot EXCEPT !.status = "ALLOCATED", !.tid = First, !.tg = First,
                                     !.identifier = 1]
<1>1. /\ DOMAIN procs = 1 .. InitSlots
      /\ \A i \in 1 .. InitSlots : procs[i] = IF i = 1 THEN first ELSE FreeSlot
  BY DEF Init
<1>2. 1 \in 1 .. InitSlots /\ First \in Tids /\ NoGroup \notin Tids
  BY SlotsAssumption, FirstAssumption, TidsAssumption DEF NoGroup, NoTid
<1>3. first.status = "ALLOCATED" /\ first.tg = First
  BY DEF FreeSlot
<1>4. FreeSlot.status = "FREE" /\ FreeSlot.tg = NoGroup
  BY DEF FreeSlot
<1> HIDE DEF first
<1>5. \A g \in Tids : Users(g) = IF g = First THEN {1} ELSE {}
  BY <1>1, <1>2, <1>3, <1>4 DEF Users
<1>6. UniqueTids
  BY <1>1, <1>4 DEF UniqueTids, InUse
<1>7. NullGroups
  BY <1>1, <1>3, <1>4 DEF NullGroups
<1>8. GroupRefs
  BY <1>5, FS_EmptySet, FS_Singleton DEF GroupRefs, Init
<1>9. NewGroups
  <2>1. \A t \in Tids : tracee[t] = IF t = First THEN Born(First) ELSE NotBorn
    BY DEF Init, KernelInit
  <2>2. Born(First).st = "stopped" /\ Born(First).ev = "sigstop" /\ NotBorn.ev = "none"
    BY DEF Born, NotBorn
  <2> QED
    BY <1>5, <2>1, <2>2 DEF NewGroups, Spawning, Unborn
<1> QED
  BY <1>6, <1>7, <1>8, <1>9 DEF TablesInv

------------------------------------------------------------------------------
LEMMA TablesStep == TInv /\ VInv /\ TablesInv /\ [Next]_vars => TablesInv'
<1> SUFFICES ASSUME TInv, VInv, TablesInv, [Next]_vars PROVE TablesInv'
  OBVIOUS
<1>1. ASSUME UNCHANGED <<tracee, procs, groups>> PROVE TablesInv'
  <2>1. Quiet
    BY <1>1 DEF Quiet
  <2> QED
    BY <1>1, <2>1, SameKeepsTables
<1>2. ASSUME NEW t \in Tids, WaitStep(t) PROVE TablesInv'
  <2>1. CASE ExitWithoutWorker(t) \/ SignalForwarded(t)
    <3>1. Quiet
      BY <2>1, ReapIsQuiet DEF ExitWithoutWorker, SignalForwarded, TInv
    <3> QED
      BY <2>1, <3>1, SameKeepsTables DEF ExitWithoutWorker, SignalForwarded, tables
  <2> QED
    BY <1>2, <2>1, ExitTables, AppearsTables, AttachedTables, SyscallStopTables, ExecTables,
       ForkTables DEF WaitStep
<1>3. CASE WaitNothing \/ WaitFails \/ Poll \/ Commit
  BY <1>1, <1>3 DEF WaitNothing, WaitFails, Poll, Commit, kernelVars, tables
<1>4. CASE MainStep
  BY <1>2, <1>3, <1>4, ServeTables, CleanupTables DEF MainStep, Rollback
<1>5. CASE Interrupt
  BY <1>5, CleanupTables DEF Interrupt
<1>6. ASSUME NEW t \in Tids, WorkerStep(t) PROVE TablesInv'
  BY <1>6, WorkerTables
<1>7. ASSUME NEW t \in Tids, TraceeStep(t) PROVE TablesInv'
  BY <1>7, KernelTables DEF TraceeStep, tracerVars
<1>8. CASE UNCHANGED vars
  BY <1>1, <1>8 DEF vars, kernelVars, tracerVars
<1> QED
  BY <1>4, <1>5, <1>6, <1>7, <1>8 DEF Next, Stops

LEMMA TablesAlways == Spec => [](TInv /\ VInv /\ TablesInv)
<1>1. Init => TInv /\ VInv /\ TablesInv
  BY TInvInit, VInvInit, TablesInit
<1>2. TInv /\ VInv /\ TablesInv /\ [Next]_vars => (TInv /\ VInv /\ TablesInv)'
  BY TInvStep, VInvStep, TablesStep
<1> QED
  BY <1>1, <1>2, PTL DEF Spec

\* trace_find_process() has at most one answer: whatever order a child's first
\* stop and its parent's event come in, the child gets one slot.
THEOREM TidsStayUnique == Spec => []UniqueTids
<1>1. TablesInv => UniqueTids
  BY DEF TablesInv
<1> QED
  BY <1>1, TablesAlways, PTL

\* trace_free_process() frees a thread group, with its working directory, with
\* the last slot that points to it and never before: refs counts those slots.
THEOREM RefsCountUsers == Spec => []GroupRefs
<1>1. TablesInv => GroupRefs
  BY DEF TablesInv
<1> QED
  BY <1>1, TablesAlways, PTL

\* Every variable has its type; with the theorem before, the reference count of
\* a thread group is never decremented below zero.
THEOREM TypesHold == Spec => []TypeOK
<1>1. ASSUME TInv, VInv, TablesInv PROVE TypeOK
  <2> USE DEF TInv
  <2>1. ASSUME NEW g \in Tids PROVE groups[g] \in ThreadGroup
    <3>1. groups[g] \in Groups /\ groups[g].refs = Cardinality(Users(g))
      BY <1>1 DEF WellTyped, TablesInv, GroupRefs
    <3>2. groups[g].refs \in Nat
      BY <1>1, <3>1, UsersFinite
    <3> QED
      BY <3>1, <3>2 DEF Groups, ThreadGroup
  <2>2. groups \in [Tids -> ThreadGroup]
    BY <1>1, <2>1 DEF WellTyped
  <2>3. list \in Seq(Tids) /\ pollfds \in Seq(Tids) /\ num_workers \in Nat
    BY <1>1 DEF VInv, VectorsAligned
  <2> QED
    BY <1>1, <2>2, <2>3 DEF TypeOK, WellTyped, KernelInv
<1> QED
  BY <1>1, TablesAlways, PTL
==============================================================================
