----------------------------- MODULE TracerPipes -----------------------------
(***************************************************************************)
(* The protocol between the main thread and the workers: what is in the    *)
(* two pipes of a worker, which slot it works on, and what its tracee does *)
(* meanwhile. Everything here is about programs whose threads do not call  *)
(* execve(): with both, a tid changes hands and the pipes get out of step. *)
(***************************************************************************)
EXTENDS TracerTables, SequenceTheorems

NoExecInThreads == "clone" \notin Calls \/ "execve" \notin Calls

------------------------------------------------------------------------------
(* The invariant.                                                            *)

MadeCalls == Calls \cup {"none", "exit_group"}

\* A tracee that has something to report is stopped, or dead; a thread group
\* is one thread when no thread is made.
Ordered(t, s) ==
    /\ s.ev \notin {"none", "exit"} => s.st = "stopped"
    /\ s.ev = "exit" <=> s.st = "dead"
    /\ s.call \in MadeCalls
    /\ s.ev = "exec" => s.call = "execve"
    /\ "clone" \notin Calls => s.grp \in {NoTid, t}
KernelOrder == \A t \in Tids : Ordered(t, tracee[t])

SlotInOrder(s) ==
    /\ s.call \in MadeCalls
    /\ s.status \in {"ALLOCATED", "ATTACHED"} => s.tg # NoGroup
    /\ "clone" \notin Calls => s.tg \in {NoGroup, s.tid}
SlotsInOrder == \A i \in DOMAIN procs : SlotInOrder(procs[i])

\* A tracee that runs only when the tracer lets it.
Waits(s)  == s.st = "stopped" /\ s.ev = "none"
Parked(t) == Waits(tracee[t]) \/ tracee[t].st = "dead"

\* From its first stop to its exit a tracee has a slot; from its first system
\* call on a worker, which is in the list until the exit is reported.
Listed == {list[n] : n \in DOMAIN list}
Stages ==
    /\ \A t \in Tids : workers[t].pc = "none" <=> t \notin Listed /\ tracee[t].st # "gone"
    /\ \A t \in Listed : /\ tracee[t].st # "gone"
                         /\ \E i \in DOMAIN procs : procs[i].status = "ATTACHED" /\ procs[i].tid = t
    /\ \A i \in InUse(procs) : /\ procs[i].tid \in Tids
                               /\ tracee[procs[i].tid].st \notin {"unborn", "gone"}
                               /\ procs[i].status = "UNKNOWN" => Parked(procs[i].tid)
    /\ \A t \in Tids : Spawning(t) =>
          /\ tracee[tracee[t].child].st \notin {"unborn", "gone"}
          /\ \A i \in InUse(procs) :
                procs[i].tid = tracee[t].child => procs[i].status = "UNKNOWN"

\* What a pipe to a worker may hold.
One(q, w) == Len(q) = 1 /\ q[1].word = w
Two(q)    == Len(q) = 2 /\ q[1].word = "res" /\ q[2].word = "ptr"

\* One request or its answer, and after the answer to a resumption a pointer.
PipesOf(pc, in, out) ==
    CASE pc = "idle"   -> out = <<>> /\ (in = <<>> \/ One(in, "ptr"))
      [] pc = "peek"   -> IF out = <<>> THEN One(in, "res") ELSE Len(out) = 1 /\ in = <<>>
      [] pc = "resume" -> IF out = <<>> THEN One(in, "res") \/ Two(in) ELSE Len(out) = 1 /\ in = <<>>
      [] OTHER         -> out = <<>> /\ in = <<>>

\* The worker has a stop of its tracee in hand, or has given up on one.
Busy(t) == InHand(t) \/ workers[t].pc = "exited"

\* While t is traced its worker works on its slot, and asks for it.
Owns(t) ==
    /\ \A n \in DOMAIN toWorker[t] :
          toWorker[t][n].word = "ptr" => toWorker[t][n].arg \in Found(procs, t)
    /\ workers[t].pc = "peek" => workers[t].slot \in Found(procs, t) /\ workers[t].tid = t
    /\ \A n \in DOMAIN toTracer[t] :
          /\ toTracer[t][n].tid = t
          /\ toTracer[t][n].req = "syscall" <=> workers[t].pc = "resume"

Pipes ==
    \A t \in Tids : /\ PipesOf(workers[t].pc, toWorker[t], toTracer[t])
                    /\ Busy(t) => Parked(t) \/ tracee[t].st = "gone"
                    /\ t \in Listed => Owns(t)

PipesInv == /\ KernelOrder
            /\ mpc \in Live => SlotsInOrder /\ Pipes
            /\ mpc \in Looping => Stages

Base == TInv /\ VInv /\ TablesInv

------------------------------------------------------------------------------
(* The tracees.                                                              *)

LEMMA ReapedOrdered ==
  ASSUME NEW t \in Tids, NEW s \in Tracee, Ordered(t, s)
  PROVE  /\ Reaped(s) \in Tracee /\ Ordered(t, Reaped(s))
         /\ Reaped(s).ev = "none" /\ Reaped(s).st # "dead"
         /\ Reaped(s).st = IF s.ev = "exit" THEN "gone" ELSE s.st
<1>1. /\ Reaped(s) \in Tracee /\ Reaped(s).ev = "none" /\ Reaped(s).st # "dead"
      /\ Reaped(s).call = s.call /\ Reaped(s).grp = s.grp
      /\ Reaped(s).st = IF s.st = "dead" THEN "gone" ELSE s.st
  BY DEF Reaped, Tracee, States, Events
<1> QED
  BY <1>1 DEF Ordered

LEMMA ResumedOrdered ==
  ASSUME NEW t \in Tids, NEW s \in Tracee, Ordered(t, s)
  PROVE  /\ Ordered(t, Resumed(s))
         /\ s.st = "stopped" => Resumed(s).st = "running" /\ Resumed(s).ev = "none"
         /\ s.st # "stopped" => Resumed(s) = s
<1>1. CASE s.st = "stopped"
  <2>1. /\ Resumed(s).st = "running" /\ Resumed(s).ev = "none"
        /\ Resumed(s).call = s.call /\ Resumed(s).grp = s.grp
    BY <1>1 DEF Resumed, Tracee, States, Events
  <2> QED
    BY <1>1, <2>1 DEF Ordered
<1>2. CASE s.st # "stopped"
  BY <1>2 DEF Resumed
<1> QED
  BY <1>1, <1>2

\* Killed, from outside or by the tracer.
LEMMA KilledOrdered ==
  ASSUME KernelInv, KernelOrder, NEW ts, NEW why \in {"exited", "killed"}, NEW u \in Tids
  PROVE  /\ Ordered(u, KillAll(ts, why)[u])
         /\ KillAll(ts, why)[u] = tracee[u] \/ (Alive(u) /\ KillAll(ts, why)[u].st = "dead" /\ KillAll(ts, why)[u].ev = "exit")
<1>1. tracee[u] \in Tracee /\ Ordered(u, tracee[u])
  BY DEF KernelInv, KernelOrder
<1>2. /\ Dead(tracee[u], why).st = "dead" /\ Dead(tracee[u], why).ev = "exit"
      /\ Dead(tracee[u], why).call = tracee[u].call /\ Dead(tracee[u], why).grp = tracee[u].grp
  BY <1>1 DEF Dead, Tracee
<1>3. Ordered(u, Dead(tracee[u], why))
  BY <1>1, <1>2 DEF Ordered
<1> QED
  BY <1>1, <1>2, <1>3 DEF KillAll

\* What the tracees do of themselves: none is gone, none that waits runs, a new
\* fork event is of a tracee that was unborn.
KernelMove ==
    \A u \in Tids :
       /\ tracee'[u].st = "gone" <=> tracee[u].st = "gone"
       /\ Parked(u) => Parked(u)'
       /\ tracee[u].st # "unborn" => tracee'[u].st # "unborn"
       /\ tracee'[u].ev = "spawn" =>
             \/ tracee[u].ev = "spawn" /\ tracee'[u].child = tracee[u].child
             \/ tracee'[u].child \in Unborn /\ tracee'[tracee'[u].child].st \notin {"unborn", "gone"}

\* The usual step: one tracee that ran stops.
LEMMA OneMoves ==
  ASSUME KernelInv, KernelOrder, NEW t \in Tids, NEW s,
         tracee' = [tracee EXCEPT ![t] = s], Ordered(t, s),
         tracee[t].st \in {"running", "execwait"}, s.st \in {"running", "stopped"},
         s.ev # "spawn"
  PROVE  KernelOrder' /\ KernelMove
<1>1. \A u \in Tids : u # t => tracee'[u] = tracee[u]
  BY DEF KernelInv
<1>2. tracee'[t] = s
  BY DEF KernelInv
<1>3. KernelOrder'
  BY <1>1, <1>2 DEF KernelOrder
<1>4. ~ Parked(t)
  BY DEF Parked, Waits
<1>5. KernelMove
  BY <1>1, <1>2, <1>4 DEF KernelMove, Parked
<1> QED
  BY <1>3, <1>5

LEMMA KillMoves ==
  ASSUME KernelInv, KernelOrder, NEW ts, NEW why \in {"exited", "killed"},
         tracee' = KillAll(ts, why)
  PROVE  KernelOrder' /\ KernelMove
<1>1. KernelOrder'
  BY KilledOrdered DEF KernelOrder
<1>2. \A u \in Tids : \/ tracee'[u] = tracee[u]
                      \/ Alive(u) /\ tracee'[u].st = "dead" /\ tracee'[u].ev = "exit"
  BY KilledOrdered
<1>3. KernelMove
  BY <1>2 DEF KernelMove, Parked, Waits, Alive
<1> QED
  BY <1>1, <1>3

LEMMA GroupOfOne ==
  ASSUME KernelInv, KernelOrder, NoExecInThreads, NEW t \in Tids,
         tracee[t].call = "execve", tracee[t].st \in {"running", "execwait"}
  PROVE  tracee[t].grp = t /\ Others(t) = {}
<1>1. "clone" \notin Calls
  BY DEF KernelOrder, Ordered, MadeCalls, NoExecInThreads
<1>2. \A u \in Tids : tracee[u].grp \in {NoTid, u}
  BY <1>1 DEF KernelOrder, Ordered
<1>3. tracee[t].grp \in Tids
  BY DEF KernelInv
<1> QED
  BY <1>2, <1>3, TidsAssumption DEF Others, Group, NoTid

LEMMA SpawnMoves ==
  ASSUME KernelInv, KernelOrder, NEW t \in Tids, Spawn(t)
  PROVE  KernelOrder' /\ KernelMove
<1> DEFINE g(c) == IF tracee[t].call = "fork" THEN c ELSE tracee[t].grp
           s(c) == [Stopped(tracee[t], "spawn") EXCEPT !.at = "return", !.child = c]
<1>1. PICK c \in Unborn : tracee' = [tracee EXCEPT ![t] = s(c), ![c] = Born(g(c))]
  BY DEF Spawn
<1>2. c \in Tids /\ c # t /\ tracee[c].st = "unborn" /\ tracee[t].st = "running"
  BY DEF Unborn, Spawn, Running
<1>3. tracee[t] \in Tracee /\ Ordered(t, tracee[t])
  BY DEF KernelInv, KernelOrder
<1>4. /\ s(c).st = "stopped" /\ s(c).ev = "spawn" /\ s(c).child = c
      /\ s(c).call = tracee[t].call /\ s(c).grp = tracee[t].grp
  BY <1>3 DEF Stopped, Tracee
<1>5. /\ Born(g(c)).st = "stopped" /\ Born(g(c)).ev = "sigstop"
      /\ Born(g(c)).call = "none" /\ Born(g(c)).grp = g(c)
  BY DEF Born, NotBorn
<1>6. Ordered(t, s(c))
  BY <1>3, <1>4 DEF Ordered
<1>7. Ordered(c, Born(g(c)))
  <2>1. "clone" \notin Calls => g(c) = c
    BY <1>3 DEF Ordered, MadeCalls, Spawn
  <2> QED
    BY <1>5, <2>1 DEF Ordered, MadeCalls
<1> HIDE DEF s, g
<1>8. tracee'[t] = s(c) /\ tracee'[c] = Born(g(c)) /\ \A u \in Tids : u # t /\ u # c => tracee'[u] = tracee[u]
  BY <1>1, <1>2 DEF KernelInv
<1>9. KernelOrder'
  BY <1>6, <1>7, <1>8 DEF KernelOrder
<1>10. ~ Parked(t) /\ ~ Parked(c)
  BY <1>2 DEF Parked, Waits
<1>11. KernelMove
  BY <1>2, <1>4, <1>5, <1>8, <1>10 DEF KernelMove, Parked
<1> QED
  BY <1>9, <1>11

LEMMA KernelMoves ==
  ASSUME KernelInv, KernelOrder, NoExecInThreads, NEW t \in Tids, KernelStep(t)
  PROVE  KernelOrder' /\ KernelMove
<1>1. tracee[t] \in Tracee /\ Ordered(t, tracee[t])
  BY DEF KernelInv, KernelOrder
<1>2. CASE EnterCall(t)
  <2>1. PICK c \in Calls \cup {"exit_group"} : tracee' = [tracee EXCEPT ![t] =
                    [Stopped(@, "sysin") EXCEPT !.at = "call", !.call = c]]
    BY <1>2 DEF EnterCall
  <2> DEFINE s == [Stopped(tracee[t], "sysin") EXCEPT !.at = "call", !.call = c]
  <2>2. s.st = "stopped" /\ s.ev = "sysin" /\ s.call = c /\ s.grp = tracee[t].grp
    BY <1>1 DEF Stopped, Tracee
  <2>3. Ordered(t, s)
    BY <1>1, <2>2 DEF Ordered, MadeCalls
  <2>4. tracee' = [tracee EXCEPT ![t] = s] /\ tracee[t].st = "running"
    BY <1>2, <2>1 DEF EnterCall, Running
  <2> HIDE DEF s
  <2> QED
    BY <2>2, <2>3, <2>4, OneMoves
<1>3. ASSUME NEW r, ReturnWith(t, r), tracee[t].st = "running" PROVE KernelOrder' /\ KernelMove
  <2> DEFINE s == [Stopped(tracee[t], "sysout") EXCEPT !.at = "user", !.ret = r]
  <2>1. s.st = "stopped" /\ s.ev = "sysout" /\ s.call = tracee[t].call /\ s.grp = tracee[t].grp
    BY <1>1 DEF Stopped, Tracee
  <2>2. Ordered(t, s)
    BY <1>1, <2>1 DEF Ordered
  <2>3. tracee' = [tracee EXCEPT ![t] = s]
    BY <1>3 DEF ReturnWith
  <2> HIDE DEF s
  <2> QED
    BY <1>3, <2>1, <2>2, <2>3, OneMoves
<1>4. CASE PathCallSucceeds(t) \/ CallFails(t) \/ FinishCall(t)
  BY <1>3, <1>4 DEF PathCallSucceeds, CallFails, FinishCall, Running
<1>5. CASE ExecKills(t)
  BY <1>5, GroupOfOne DEF ExecKills, Running
<1>6. CASE Exec(t)
  <2> DEFINE s == [Stopped(tracee[t], "exec") EXCEPT !.at = "return"]
  <2>1. tracee[t].st \in {"running", "execwait"} /\ tracee[t].call = "execve"
    BY <1>6 DEF Exec
  <2>2. tracee[t].grp = t
    BY <2>1, GroupOfOne
  <2>3. tracee' = [tracee EXCEPT ![t] = s]
    BY <1>6, <2>2 DEF Exec, KernelInv
  <2>4. s.st = "stopped" /\ s.ev = "exec" /\ s.call = tracee[t].call /\ s.grp = tracee[t].grp
    BY <1>1 DEF Stopped, Tracee
  <2>5. Ordered(t, s)
    BY <1>1, <2>1, <2>4 DEF Ordered
  <2> HIDE DEF s
  <2> QED
    BY <2>1, <2>3, <2>4, <2>5, OneMoves
<1>7. CASE Exit(t) \/ Kill(t)
  BY <1>7, KillMoves DEF Exit, Kill
<1>8. CASE SignalStop(t)
  <2> DEFINE s == [Stopped(tracee[t], "signal") EXCEPT !.at = "sig"]
  <2>1. s.st = "stopped" /\ s.ev = "signal" /\ s.call = tracee[t].call /\ s.grp = tracee[t].grp
    BY <1>1 DEF Stopped, Tracee
  <2>2. Ordered(t, s)
    BY <1>1, <2>1 DEF Ordered
  <2>3. tracee' = [tracee EXCEPT ![t] = s] /\ tracee[t].st = "running"
    BY <1>8 DEF SignalStop, Running
  <2> HIDE DEF s
  <2> QED
    BY <2>1, <2>2, <2>3, OneMoves
<1>9. CASE SignalDelivered(t)
  <2>1. CASE tracee' = [tracee EXCEPT ![t].at = "user"]
    <3> DEFINE s == [tracee[t] EXCEPT !.at = "user"]
    <3>1. s.st = tracee[t].st /\ s.ev = tracee[t].ev /\ s.call = tracee[t].call /\ s.grp = tracee[t].grp
      BY <1>1 DEF Tracee
    <3>2. Ordered(t, s)
      BY <1>1, <3>1 DEF Ordered
    <3>3. tracee' = [tracee EXCEPT ![t] = s] /\ tracee[t].st = "running"
      BY <1>9, <2>1 DEF SignalDelivered, Running
    <3>4. s.ev # "spawn"
      BY <1>1, <3>1, <3>3 DEF Ordered
    <3> HIDE DEF s
    <3> QED
      BY <3>1, <3>2, <3>3, <3>4, OneMoves
  <2> QED
    BY <1>9, <2>1, KillMoves DEF SignalDelivered
<1> QED
  BY <1>2, <1>4, <1>5, <1>6, <1>7, <1>8, <1>9, SpawnMoves DEF KernelStep

------------------------------------------------------------------------------
(* What is in the pipes.                                                     *)

LEMMA OneElement ==
  ASSUME NEW S, NEW q \in Seq(S), Len(q) = 1
  PROVE  /\ q # <<>> /\ Head(q) = q[1] /\ Tail(q) = <<>>
         /\ \A e \in S : Len(Append(q, e)) = 2 /\ Append(q, e)[1] = q[1] /\ Append(q, e)[2] = e
<1>1. q # <<>>
  BY EmptySeq
<1>2. Tail(q) \in Seq(S) /\ Len(Tail(q)) = 0
  BY <1>1, HeadTailProperties
<1>3. Tail(q) = <<>>
  BY <1>2, EmptySeq
<1>4. ASSUME NEW e \in S
      PROVE  Len(Append(q, e)) = 2 /\ Append(q, e)[1] = q[1] /\ Append(q, e)[2] = e
  <2>1. Len(Append(q, e)) = Len(q) + 1 /\ Append(q, e)[Len(q) + 1] = e
    BY AppendProperties
  <2>2. Append(q, e)[1] = q[1]
    OBVIOUS
  <2>3. Len(q) + 1 = 2
    OBVIOUS
  <2> QED
    BY <2>1, <2>2, <2>3
<1> QED
  BY <1>1, <1>3, <1>4

LEMMA PipeContents ==
  ASSUME NEW q \in Seq(Word)
  PROVE  /\ \A w : One(q, w) => q # <<>> /\ Head(q).word = w /\ Tail(q) = <<>>
         /\ Two(q) => q # <<>> /\ Head(q).word = "res" /\ One(Tail(q), "ptr") /\ Tail(q)[1] = q[2]
<1>1. ASSUME NEW w, One(q, w) PROVE q # <<>> /\ Head(q).word = w /\ Tail(q) = <<>>
  BY <1>1, OneElement DEF One
<1>2. ASSUME Two(q) PROVE q # <<>> /\ Head(q).word = "res" /\ One(Tail(q), "ptr") /\ Tail(q)[1] = q[2]
  <2>1. Len(Tail(q)) = 1 /\ Tail(q)[1] = q[2]
    BY <1>2 DEF Two
  <2> QED
    BY <1>2, <2>1 DEF Two, One
<1> QED
  BY <1>1, <1>2

\* A word goes into a pipe.
LEMMA PipeAppends ==
  ASSUME NEW q \in Seq(Word), NEW w \in Word
  PROVE  /\ q = <<>> => One(Append(q, w), w.word) /\ Append(q, w)[1] = w
         /\ One(q, "res") /\ w.word = "ptr" => Two(Append(q, w)) /\ Append(q, w)[2] = w
<1>1. ASSUME q = <<>> PROVE One(Append(q, w), w.word) /\ Append(q, w)[1] = w
  BY <1>1 DEF One
<1>2. ASSUME One(q, "res"), w.word = "ptr" PROVE Two(Append(q, w)) /\ Append(q, w)[2] = w
  <2>1. Len(Append(q, w)) = 2 /\ Append(q, w)[1] = q[1] /\ Append(q, w)[2] = w
    BY <1>2, OneElement DEF One
  <2> QED
    BY <1>2, <2>1 DEF One, Two
<1> QED
  BY <1>1, <1>2

\* A worker that has a pointer, a peek to wait for, or a resumption not asked for.
LEMMA BusyMeans ==
  ASSUME WellTyped, NEW t \in Tids, PipesOf(workers[t].pc, toWorker[t], toTracer[t])
  PROVE  Busy(t) <=> \/ workers[t].pc \in {"peek", "exited"}
                     \/ One(toWorker[t], "ptr") \/ Two(toWorker[t])
                     \/ workers[t].pc = "resume" /\ toTracer[t] # <<>>
<1>1. toWorker[t] \in Seq(Word) /\ workers[t].pc \in {"none", "idle", "peek", "resume", "exited"}
  BY DEF WellTyped, Worker
<1>2. CASE toWorker[t] = <<>>
  BY <1>2 DEF Busy, InHand, Pointed, One, Two
<1>3. CASE One(toWorker[t], "ptr")
  BY <1>1, <1>3 DEF Busy, InHand, Pointed, One
<1>4. CASE Two(toWorker[t])
  BY <1>1, <1>4 DEF Busy, InHand, Pointed, Two
<1>5. CASE One(toWorker[t], "res")
  <2>1. DOMAIN toWorker[t] = {1} /\ toWorker[t][1].word = "res"
    BY <1>1, <1>5 DEF One
  <2>2. ~ Pointed(t)
    BY <2>1 DEF Pointed
  <2>3. ~ One(toWorker[t], "ptr") /\ ~ Two(toWorker[t])
    BY <1>5 DEF One, Two
  <2> QED
    BY <2>2, <2>3 DEF Busy, InHand
<1> QED
  BY <1>1, <1>2, <1>3, <1>4, <1>5 DEF PipesOf

------------------------------------------------------------------------------
(* Steps of the workers.                                                     *)

\* A handler leaves its slot to the same process.
SameSlot(p, q) == /\ p.tid = q.tid /\ p.tg = q.tg /\ p.status = q.status
                  /\ p.call \in {q.call, "none"}
                  /\ p.identifier = q.identifier
SameSlots == /\ DOMAIN procs' = DOMAIN procs
             /\ \A i \in DOMAIN procs : SameSlot(procs'[i], procs[i])

LEMMA HandlersKeepSlot ==
  ASSUME NEW s \in Slot(Tids)
  PROVE  /\ SameSlot(Toggled(s), s)
         /\ SameSlot(Toggled(ExecdIgnored(s)), s)
         /\ SameSlot(Toggled(Handled(s)), s)
         /\ \A b \in Tids \cup {NoTid} : SameSlot(Toggled([s EXCEPT !.execve_info = b]), s)
<1>1. \A p, q, r : SameSlot(p, q) /\ SameSlot(q, r) => SameSlot(p, r)
  BY DEF SameSlot
<1>2. \A q \in Slot(Tids) : SameSlot(Toggled(q), q)
  BY DEF SameSlot, Toggled, Slot
<1>3. ExecdIgnored(s) \in Slot(Tids) /\ Handled(s) \in Slot(Tids)
  BY SlotEdits
<1>4. SameSlot(ExecdIgnored(s), s)
  BY DEF ExecdIgnored, SameSlot, Slot
<1>5. SameSlot(Handled(s), s)
  <2>1. /\ \A f : SameSlot([s EXCEPT !.flags = f], s)
        /\ \A b : SameSlot([s EXCEPT !.execve_info = b], s)
        /\ SameSlot(s, s)
    BY DEF SameSlot, Slot
  <2>2. /\ SameSlot([s EXCEPT !.flags = @ \cup {"FORKING"}], s)
        /\ SameSlot([s EXCEPT !.flags = @ \ {"FORKING"}], s)
    BY <2>1
  <2> QED
    BY <2>1, <2>2, Zenon DEF Handled
<1>6. ASSUME NEW b \in Tids \cup {NoTid} PROVE SameSlot(Toggled([s EXCEPT !.execve_info = b]), s)
  <2>1. [s EXCEPT !.execve_info = b] \in Slot(Tids)
    BY SlotEdits
  <2>2. SameSlot([s EXCEPT !.execve_info = b], s)
    BY DEF SameSlot, Slot
  <2> QED
    BY <1>1, <1>2, <2>1, <2>2
<1> QED
  BY <1>1, <1>2, <1>3, <1>4, <1>5, <1>6

LEMMA OneSlotWritten ==
  ASSUME WellTyped, NEW i \in DOMAIN procs, NEW s, SameSlot(s, procs[i]),
         procs' = [procs EXCEPT ![i] = s]
  PROVE  SameSlots
<1>1. DOMAIN procs' = DOMAIN procs
  BY DEF WellTyped
<1>2. \A k \in DOMAIN procs : SameSlot(procs[k], procs[k])
  BY DEF SameSlot
<1> QED
  BY <1>1, <1>2 DEF SameSlots

LEMMA SameSlotsKeep ==
  ASSUME SameSlots
  PROVE  /\ SlotsInOrder => SlotsInOrder'
         /\ \A t : Found(procs, t)' = Found(procs, t)
         /\ InUse(procs)' = InUse(procs)
<1>1. InUse(procs)' = InUse(procs)
  BY DEF SameSlots, SameSlot, InUse
<1>2. \A t : Found(procs, t)' = Found(procs, t)
  BY <1>1 DEF SameSlots, SameSlot, Found, InUse
<1>3. ASSUME SlotsInOrder PROVE SlotsInOrder'
  BY <1>3 DEF SlotsInOrder, SlotInOrder, SameSlots, SameSlot, MadeCalls
<1> QED
  BY <1>1, <1>2, <1>3

\* What the steps of worker t have in common.
LEMMA WorkerKeepsPipes ==
  ASSUME TInv, PipesInv, mpc \in Live, NEW t \in Tids,
         UNCHANGED <<kernelVars, pool, mpc>>, SameSlots,
         \A u \in Tids : u # t => /\ workers'[u] = workers[u]
                                  /\ toWorker'[u] = toWorker[u] /\ toTracer'[u] = toTracer[u],
         workers[t].pc # "none", workers'[t].pc # "none",
         PipesOf(workers'[t].pc, toWorker'[t], toTracer'[t]),
         Busy(t)' => Busy(t),
         t \in Listed => Owns(t)'
  PROVE  PipesInv'
<1>1. UNCHANGED <<tracee, list>>
  BY DEF kernelVars, pool
<1>2. /\ SlotsInOrder => SlotsInOrder'
      /\ \A u : Found(procs, u)' = Found(procs, u)
      /\ InUse(procs)' = InUse(procs)
  BY SameSlotsKeep
<1>3. KernelOrder'
  BY <1>1 DEF PipesInv, KernelOrder
<1>4. Listed' = Listed /\ \A u : Parked(u)' <=> Parked(u)
  BY <1>1 DEF Listed, Parked
<1>5. ASSUME NEW u \in Tids, u # t, Pipes
      PROVE  /\ PipesOf(workers[u].pc, toWorker[u], toTracer[u])'
             /\ Busy(u)' => Parked(u)' \/ tracee'[u].st = "gone"
             /\ u \in Listed' => Owns(u)'
  <2>1. workers'[u] = workers[u] /\ toWorker'[u] = toWorker[u] /\ toTracer'[u] = toTracer[u]
    BY <1>5
  <2>2. Busy(u)' = Busy(u)
    BY <2>1 DEF Busy, InHand, Pointed
  <2>3. Owns(u) => Owns(u)'
    BY <1>2, <2>1 DEF Owns
  <2> QED
    BY <1>1, <1>4, <1>5, <2>1, <2>2, <2>3 DEF Pipes
<1>6. Pipes => Pipes'
  BY <1>1, <1>4, <1>5 DEF Pipes
<1>7. ASSUME Stages PROVE Stages'
  <2>1. \A u \in Tids : workers'[u].pc = "none" <=> workers[u].pc = "none"
    BY Zenon
  <2>2. (\A u \in Tids : workers[u].pc = "none" <=> u \notin Listed /\ tracee[u].st # "gone")'
    BY <1>1, <1>4, <1>7, <2>1 DEF Stages
  <2>3. /\ DOMAIN procs' = DOMAIN procs
        /\ \A i \in DOMAIN procs : /\ procs'[i].tid = procs[i].tid
                                   /\ procs'[i].status = procs[i].status
    BY DEF SameSlots, SameSlot
  <2>4. (\A u \in Listed : /\ tracee[u].st # "gone"
                           /\ \E i \in DOMAIN procs : procs[i].status = "ATTACHED" /\ procs[i].tid = u)'
    BY <1>1, <1>4, <1>7, <2>3 DEF Stages
  <2>5. (\A i \in InUse(procs) : /\ procs[i].tid \in Tids
                                 /\ tracee[procs[i].tid].st \notin {"unborn", "gone"}
                                 /\ procs[i].status = "UNKNOWN" => Parked(procs[i].tid))'
    BY <1>1, <1>2, <1>4, <1>7, <2>3 DEF Stages, InUse
  <2>6. (\A u \in Tids : Spawning(u) =>
          /\ tracee[tracee[u].child].st \notin {"unborn", "gone"}
          /\ \A i \in InUse(procs) :
                procs[i].tid = tracee[u].child => procs[i].status = "UNKNOWN")'
    BY <1>1, <1>2, <1>7, <2>3 DEF Stages, Spawning, InUse
  <2> QED
    BY <2>2, <2>4, <2>5, <2>6 DEF Stages
<1> QED
  BY <1>2, <1>3, <1>6, <1>7 DEF PipesInv

\* A worker that reads a pointer, or the answer to its peek, has it alone in its
\* pipe, and the stop of its tracee in hand.
LEMMA StopReceived ==
  ASSUME TInv, PipesInv, NEW t \in Tids,
         \/ Receives(t, "idle")
         \/ Receives(t, "peek")
  PROVE  /\ toTracer[t] = <<>> /\ Len(toWorker[t]) = 1 /\ toWorker[t] # <<>> /\ Busy(t)
         /\ Head(toWorker[t]).word = IF workers[t].pc = "idle" THEN "ptr" ELSE "res"
         /\ LET i == IF workers[t].pc = "idle" THEN Head(toWorker[t]).arg ELSE workers[t].slot
            IN  /\ i \in DOMAIN procs /\ procs[i] \in Slot(Tids)
                /\ t \in Listed => i \in Found(procs, t)
         /\ t \in Listed /\ workers[t].pc = "peek" => workers[t].tid = t
<1>1. /\ mpc \in Live /\ toWorker[t] # <<>> /\ workers[t].pc \in {"idle", "peek"}
      /\ toWorker[t] \in Seq(Word)
  BY DEF Receives, TInv, WellTyped
<1>2. /\ PipesOf(workers[t].pc, toWorker[t], toTracer[t])
      /\ t \in Listed => Owns(t)
  BY <1>1 DEF PipesInv, Pipes
<1>3. /\ toTracer[t] = <<>>
      /\ One(toWorker[t], IF workers[t].pc = "idle" THEN "ptr" ELSE "res")
  BY <1>1, <1>2 DEF PipesOf
<1>4. Len(toWorker[t]) = 1 /\ Head(toWorker[t]) = toWorker[t][1] /\ 1 \in DOMAIN toWorker[t]
  BY <1>1, <1>3, OneElement DEF One
<1>5. Head(toWorker[t]).word = IF workers[t].pc = "idle" THEN "ptr" ELSE "res"
  BY <1>3, <1>4 DEF One
<1>6. Busy(t)
  BY <1>1, <1>4, <1>5 DEF Busy, InHand, Pointed
<1>7. CASE workers[t].pc = "idle"
  <2>1. Head(toWorker[t]).arg \in DOMAIN procs /\ procs[Head(toWorker[t]).arg] \in Slot(Tids)
    BY <1>1, <1>5, <1>7, HeadTyped DEF TInv
  <2>2. t \in Listed => Head(toWorker[t]).arg \in Found(procs, t)
    BY <1>2, <1>4, <1>5, <1>7 DEF Owns
  <2> QED
    BY <1>1, <1>3, <1>4, <1>5, <1>6, <1>7, <2>1, <2>2
<1>8. CASE workers[t].pc = "peek"
  <2>1. workers[t].slot \in DOMAIN procs
    BY <1>8 DEF TInv, PointersInv, InTable
  <2>2. procs[workers[t].slot] \in Slot(Tids)
    BY <2>1 DEF TInv, WellTyped
  <2>3. t \in Listed => workers[t].slot \in Found(procs, t) /\ workers[t].tid = t
    BY <1>2, <1>8 DEF Owns
  <2> QED
    BY <1>1, <1>3, <1>4, <1>5, <1>6, <1>8, <2>1, <2>2, <2>3
<1> QED
  BY <1>1, <1>7, <1>8

\* The one word a worker read is replaced by its one request.
LEMMA AskedOnce ==
  ASSUME TInv, NEW t \in Tids, toTracer[t] = <<>>, Len(toWorker[t]) = 1,
         NEW req \in {"peek", "syscall"}, NEW tid \in Tids \cup {NoTid}, NEW valid \in BOOLEAN,
         Ask(t, req, tid, valid)
  PROVE  /\ toWorker'[t] = <<>> /\ Len(toTracer'[t]) = 1
         /\ DOMAIN toTracer'[t] = {1}
         /\ toTracer'[t][1].tid = tid /\ toTracer'[t][1].req = req
         /\ \A u \in Tids : u # t => toWorker'[u] = toWorker[u] /\ toTracer'[u] = toTracer[u]
<1> DEFINE r == [req |-> req, tid |-> tid, valid |-> valid]
<1>1. toWorker \in [Tids -> Seq(Word)] /\ toTracer \in [Tids -> Seq(Request)]
  BY DEF TInv, WellTyped
<1>2. r \in Request /\ r.tid = tid /\ r.req = req
  BY DEF Request
<1>3. toWorker' = [toWorker EXCEPT ![t] = Tail(@)] /\ toTracer' = [toTracer EXCEPT ![t] = Append(@, r)]
  BY DEF Ask
<1>4. toWorker'[t] = <<>>
  BY <1>1, <1>3, OneElement
<1> HIDE DEF r
<1>5. toTracer'[t] = Append(<<>>, r)
  BY <1>1, <1>3
<1>6. Append(<<>>, r) = <<r>>
  OBVIOUS
<1> QED
  BY <1>1, <1>2, <1>3, <1>4, <1>5, <1>6

\* The end of a stop: one request to resume, or a worker that has given up.
LEMMA EndOfStopPipes ==
  ASSUME TInv, PipesInv, mpc \in Live, NEW t \in Tids, Busy(t), workers[t].pc # "none",
         toTracer[t] = <<>>, Len(toWorker[t]) = 1,
         NEW i \in DOMAIN procs, NEW s, SameSlot(Toggled(s), procs[i]),
         NEW tid \in Tids \cup {NoTid}, t \in Listed => tid = t,
         EndOfStop(t, i, s, tid), UNCHANGED <<kernelVars, pool, mpc>>
  PROVE  PipesInv'
<1>0. /\ workers \in [Tids -> Worker] /\ toWorker \in [Tids -> Seq(Word)]
      /\ toTracer \in [Tids -> Seq(Request)]
  BY DEF TInv, WellTyped
<1>1. SameSlots
  BY OneSlotWritten DEF EndOfStop, TInv
<1>2. CASE GivesUp(s)
  <2>1. /\ workers' = [workers EXCEPT ![t] = [@ EXCEPT !.pc = "exited", !.fun = "none"]]
        /\ toWorker' = [toWorker EXCEPT ![t] = Tail(@)]
        /\ toTracer' = toTracer
    BY <1>2 DEF EndOfStop
  <2>2. toWorker'[t] = <<>> /\ toTracer'[t] = <<>>
    BY <1>0, <2>1, OneElement
  <2>3. workers'[t].pc = "exited"
    BY <1>0, <2>1 DEF Worker
  <2>4. \A u \in Tids : u # t => /\ workers'[u] = workers[u]
                                 /\ toWorker'[u] = toWorker[u] /\ toTracer'[u] = toTracer[u]
    BY <1>0, <2>1
  <2>5. PipesOf(workers'[t].pc, toWorker'[t], toTracer'[t]) /\ Owns(t)'
    BY <2>2, <2>3 DEF PipesOf, Owns
  <2> QED
    BY <1>1, <2>3, <2>4, <2>5, WorkerKeepsPipes
<1>3. CASE ~ GivesUp(s)
  <2>1. /\ workers' = [workers EXCEPT ![t] =
                  [pc |-> "resume", slot |-> i, tid |-> tid, fun |-> "none"]]
        /\ Ask(t, "syscall", tid, TRUE)
    BY <1>3 DEF EndOfStop
  <2>2. /\ toWorker'[t] = <<>> /\ Len(toTracer'[t]) = 1
        /\ DOMAIN toTracer'[t] = {1}
        /\ toTracer'[t][1].tid = tid /\ toTracer'[t][1].req = "syscall"
        /\ \A u \in Tids : u # t => toWorker'[u] = toWorker[u] /\ toTracer'[u] = toTracer[u]
    BY <2>1, AskedOnce
  <2>3. workers'[t].pc = "resume" /\ \A u \in Tids : u # t => workers'[u] = workers[u]
    BY <1>0, <2>1
  <2>4. PipesOf(workers'[t].pc, toWorker'[t], toTracer'[t])
    BY <2>2, <2>3 DEF PipesOf
  <2>5. t \in Listed => Owns(t)'
    BY <2>2, <2>3 DEF Owns
  <2> QED
    BY <1>1, <2>2, <2>3, <2>4, <2>5, WorkerKeepsPipes
<1> QED
  BY <1>2, <1>3

LEMMA NothingWritten == UNCHANGED procs => SameSlots
BY DEF SameSlots, SameSlot

LEMMA StopHandledPipes ==
  ASSUME TInv, PipesInv, NEW t \in Tids, StopHandled(t)
  PROVE  PipesInv'
<1> DEFINE i == Head(toWorker[t]).arg
           s == procs[i]
<1>1. /\ Receives(t, "idle") /\ mpc \in Live /\ workers[t].pc = "idle"
      /\ UNCHANGED <<kernelVars, pool, mpc>>
  BY DEF StopHandled, Receives
<1>2. /\ toTracer[t] = <<>> /\ Len(toWorker[t]) = 1 /\ Busy(t)
      /\ i \in DOMAIN procs /\ s \in Slot(Tids)
      /\ t \in Listed => i \in Found(procs, t)
  BY <1>1, StopReceived
<1>3. EndOfStop(t, i, ExecdIgnored(s), s.tid) \/ EndOfStop(t, i, Handled(s), s.tid)
  BY DEF StopHandled
<1> HIDE DEF i
<1>4. s.tid \in Tids \cup {NoTid} /\ (t \in Listed => s.tid = t)
  BY <1>2 DEF Slot, Found, NoTid
<1>5. SameSlot(Toggled(ExecdIgnored(s)), s) /\ SameSlot(Toggled(Handled(s)), s)
  BY <1>2, HandlersKeepSlot
<1> QED
  BY <1>1, <1>2, <1>3, <1>4, <1>5, EndOfStopPipes

LEMMA PeekPipes ==
  ASSUME TInv, PipesInv, NEW t \in Tids, StopPeeks(t) \/ PeekAgain(t)
  PROVE  PipesInv'
<1>0. workers \in [Tids -> Worker]
  BY DEF TInv, WellTyped
<1>1. CASE StopPeeks(t)
  <2> DEFINE i == Head(toWorker[t]).arg
             s == procs[i]
             f == PeekingHandler(s)
             valid == f = "open" => s.ret # "efault"
  <2>1. /\ Receives(t, "idle") /\ mpc \in Live /\ workers[t].pc = "idle"
        /\ UNCHANGED <<kernelVars, pool, mpc>> /\ UNCHANGED procs
        /\ workers' = [workers EXCEPT ![t] = [pc |-> "peek", slot |-> i, tid |-> s.tid, fun |-> f]]
        /\ Ask(t, "peek", s.tid, valid) /\ valid \in BOOLEAN
    BY <1>1 DEF StopPeeks, Receives, tables
  <2>2. /\ toTracer[t] = <<>> /\ Len(toWorker[t]) = 1 /\ Busy(t)
        /\ i \in DOMAIN procs /\ s \in Slot(Tids)
        /\ t \in Listed => i \in Found(procs, t)
    BY <2>1, StopReceived
  <2> HIDE DEF valid, f, i
  <2>3. s.tid \in Tids \cup {NoTid} /\ (t \in Listed => s.tid = t)
    BY <2>2 DEF Slot, Found, NoTid
  <2> HIDE DEF s
  <2>4. /\ toWorker'[t] = <<>> /\ Len(toTracer'[t]) = 1
        /\ DOMAIN toTracer'[t] = {1}
        /\ toTracer'[t][1].tid = s.tid /\ toTracer'[t][1].req = "peek"
        /\ \A u \in Tids : u # t => toWorker'[u] = toWorker[u] /\ toTracer'[u] = toTracer[u]
    BY <2>1, <2>2, <2>3, AskedOnce
  <2>5. /\ workers'[t].pc = "peek" /\ workers'[t].slot = i /\ workers'[t].tid = s.tid
        /\ \A u \in Tids : u # t => workers'[u] = workers[u]
    BY <1>0, <2>1
  <2>6. PipesOf(workers'[t].pc, toWorker'[t], toTracer'[t])
    BY <2>4, <2>5 DEF PipesOf
  <2>7. t \in Listed => Owns(t)'
    BY <2>1, <2>2, <2>3, <2>4, <2>5 DEF Owns
  <2>8. SameSlots
    BY <2>1, NothingWritten
  <2>9. workers[t].pc # "none" /\ workers'[t].pc # "none"
    BY <2>1, <2>5
  <2> QED
    BY <2>1, <2>2, <2>4, <2>5, <2>6, <2>7, <2>8, <2>9, WorkerKeepsPipes
<1>2. CASE PeekAgain(t)
  <2> DEFINE w == workers[t]
             valid == w.fun = "open" => procs[w.slot].ret # "efault"
  <2>1. /\ Receives(t, "peek") /\ mpc \in Live /\ w.pc = "peek"
        /\ UNCHANGED <<kernelVars, pool, mpc>> /\ UNCHANGED <<procs, workers>>
        /\ Ask(t, "peek", w.tid, valid) /\ valid \in BOOLEAN
    BY <1>2 DEF PeekAgain, Receives, tables
  <2>2. /\ toTracer[t] = <<>> /\ Len(toWorker[t]) = 1 /\ Busy(t)
        /\ t \in Listed => w.slot \in Found(procs, t) /\ w.tid = t
    BY <2>1, StopReceived
  <2> HIDE DEF valid
  <2>3. w.tid \in Tids \cup {NoTid}
    BY <1>0 DEF Worker
  <2>4. /\ toWorker'[t] = <<>> /\ Len(toTracer'[t]) = 1
        /\ DOMAIN toTracer'[t] = {1}
        /\ toTracer'[t][1].tid = w.tid /\ toTracer'[t][1].req = "peek"
        /\ \A u \in Tids : u # t => toWorker'[u] = toWorker[u] /\ toTracer'[u] = toTracer[u]
    BY <2>1, <2>2, <2>3, AskedOnce
  <2>6. PipesOf(workers'[t].pc, toWorker'[t], toTracer'[t])
    BY <2>1, <2>4 DEF PipesOf
  <2>7. t \in Listed => Owns(t)'
    BY <2>1, <2>2, <2>4 DEF Owns
  <2>8. SameSlots
    BY <2>1, NothingWritten
  <2> QED
    BY <2>1, <2>2, <2>4, <2>6, <2>7, <2>8, WorkerKeepsPipes
<1> QED
  BY <1>1, <1>2

\* Nothing but the order of the tracees' events matters once the tracer is dead.
LEMMA DeadKeepsPipes ==
  ASSUME PipesInv, UNCHANGED tracee, mpc' \in Finished
  PROVE  PipesInv'
BY DEF PipesInv, KernelOrder, Live, Looping, Finished

LEMMA PathReadPipes ==
  ASSUME TInv, PipesInv, NEW t \in Tids, PathRead(t)
  PROVE  PipesInv'
<1> DEFINE w == workers[t]
           s == procs[w.slot]
           by == IF Head(toWorker[t]).word = "res" THEN w.tid ELSE NoTid
           f == [s EXCEPT !.execve_info = by]
<1>1. /\ Receives(t, "peek") /\ mpc \in Live /\ w.pc = "peek"
      /\ UNCHANGED <<kernelVars, pool>>
  BY DEF PathRead, Receives
<1>2. /\ toTracer[t] = <<>> /\ Len(toWorker[t]) = 1 /\ Busy(t)
      /\ w.slot \in DOMAIN procs /\ s \in Slot(Tids)
      /\ t \in Listed => w.tid = t
  BY <1>1, StopReceived
<1>3. CASE mpc' = "segv"
  BY <1>1, <1>3, DeadKeepsPipes DEF kernelVars, Finished
<1>4. CASE UNCHANGED mpc /\ (EndOfStop(t, w.slot, s, w.tid) \/ EndOfStop(t, w.slot, f, w.tid))
  <2>1. w.tid \in Tids \cup {NoTid} /\ by \in Tids \cup {NoTid}
    BY DEF TInv, WellTyped, Worker
  <2> HIDE DEF by
  <2>2. SameSlot(Toggled(s), s) /\ SameSlot(Toggled(f), s)
    BY <1>2, <2>1, HandlersKeepSlot
  <2> HIDE DEF f
  <2> QED
    BY <1>1, <1>2, <1>4, <2>1, <2>2, EndOfStopPipes
<1>5. \/ mpc' = "segv"
      \/ UNCHANGED mpc /\ (EndOfStop(t, w.slot, s, w.tid) \/ EndOfStop(t, w.slot, f, w.tid))
  BY DEF PathRead, syscall_fileopening, syscall_chdir, syscall_execve_in
<1> QED
  BY <1>3, <1>4, <1>5

LEMMA InsertFailsPipes ==
  ASSUME TInv, PipesInv, NEW t \in Tids, InsertFails(t)
  PROVE  PipesInv'
<1>0. workers \in [Tids -> Worker] /\ toWorker \in [Tids -> Seq(Word)]
  BY DEF TInv, WellTyped
<1>1. /\ Receives(t, "peek") /\ mpc \in Live /\ workers[t].pc = "peek"
      /\ UNCHANGED <<kernelVars, pool, mpc>> /\ UNCHANGED <<procs, toTracer>>
      /\ workers' = [workers EXCEPT ![t] = [@ EXCEPT !.pc = "exited", !.fun = "none"]]
      /\ toWorker' = [toWorker EXCEPT ![t] = Tail(@)]
  BY DEF InsertFails, Receives
<1>2. toTracer[t] = <<>> /\ Len(toWorker[t]) = 1 /\ Busy(t)
  BY <1>1, StopReceived
<1>3. toWorker'[t] = <<>> /\ toTracer'[t] = <<>>
  BY <1>0, <1>1, <1>2, OneElement
<1>4. workers'[t].pc = "exited"
  BY <1>0, <1>1 DEF Worker
<1>5. \A u \in Tids : u # t => /\ workers'[u] = workers[u]
                               /\ toWorker'[u] = toWorker[u] /\ toTracer'[u] = toTracer[u]
  BY <1>0, <1>1
<1>6. PipesOf(workers'[t].pc, toWorker'[t], toTracer'[t]) /\ Owns(t)'
  BY <1>3, <1>4 DEF PipesOf, Owns
<1>7. SameSlots
  BY <1>1, NothingWritten
<1>8. workers[t].pc # "none" /\ workers'[t].pc # "none"
  BY <1>1, <1>4
<1> QED
  BY <1>1, <1>2, <1>5, <1>6, <1>7, <1>8, WorkerKeepsPipes

\* After the answer to its resumption a worker is idle, perhaps with a pointer
\* that came before it read the answer.
LEMMA AnsweredPipes ==
  ASSUME TInv, PipesInv, NEW t \in Tids, Answered(t)
  PROVE  PipesInv'
<1>0. /\ workers \in [Tids -> Worker] /\ toWorker \in [Tids -> Seq(Word)]
      /\ toWorker[t] \in Seq(Word)
  BY DEF TInv, WellTyped
<1>1. /\ mpc \in Live /\ workers[t].pc = "resume" /\ toWorker[t] # <<>>
      /\ UNCHANGED <<kernelVars, pool, mpc>> /\ UNCHANGED <<procs, toTracer>>
      /\ workers' = [workers EXCEPT ![t] = [NoWorker EXCEPT !.pc = "idle"]]
      /\ toWorker' = [toWorker EXCEPT ![t] = Tail(@)]
  BY DEF Answered, Receives, tables
<1>2. /\ PipesOf(workers[t].pc, toWorker[t], toTracer[t])
      /\ t \in Listed => Owns(t)
  BY <1>1 DEF PipesInv, Pipes
<1>3. toTracer[t] = <<>> /\ (One(toWorker[t], "res") \/ Two(toWorker[t]))
  BY <1>1, <1>2 DEF PipesOf
<1>4. workers'[t].pc = "idle"
  BY <1>0, <1>1 DEF NoWorker
<1>5. /\ toWorker'[t] = Tail(toWorker[t]) /\ toTracer'[t] = <<>>
      /\ \A u \in Tids : u # t => /\ workers'[u] = workers[u]
                                  /\ toWorker'[u] = toWorker[u] /\ toTracer'[u] = toTracer[u]
  BY <1>0, <1>1, <1>3
<1>6. SameSlots
  BY <1>1, NothingWritten
<1>7. workers[t].pc # "none" /\ workers'[t].pc # "none"
  BY <1>1, <1>4
<1>8. /\ PipesOf(workers'[t].pc, toWorker'[t], toTracer'[t])
      /\ Busy(t)' => Busy(t)
      /\ t \in Listed => Owns(t)'
  <2>1. CASE One(toWorker[t], "res")
    <3>1. toWorker'[t] = <<>>
      BY <1>0, <1>5, <2>1, OneElement DEF One
    <3>2. ~ Busy(t)'
      BY <1>4, <3>1 DEF Busy, InHand, Pointed
    <3>3. PipesOf(workers'[t].pc, toWorker'[t], toTracer'[t])
      BY <1>4, <1>5, <3>1 DEF PipesOf
    <3>4. toTracer'[t] = <<>>
      BY <1>5
    <3>5. Owns(t)'
      BY <1>4, <3>1, <3>4 DEF Owns
    <3> QED
      BY <3>2, <3>3, <3>5
  <2>2. CASE Two(toWorker[t])
    <3>1. One(toWorker'[t], "ptr") /\ toWorker'[t][1] = toWorker[t][2]
      BY <1>0, <1>5, <2>2, PipeContents
    <3>2. 2 \in DOMAIN toWorker[t] /\ toWorker[t][2].word = "ptr"
      BY <1>0, <2>2 DEF Two
    <3>3. Busy(t)
      BY <3>2 DEF Busy, InHand, Pointed
    <3>4. PipesOf(workers'[t].pc, toWorker'[t], toTracer'[t])
      BY <1>4, <1>5, <3>1 DEF PipesOf
    <3>5. DOMAIN toWorker'[t] = {1}
      <4>1. toWorker'[t] \in Seq(Word)
        BY <1>0, <1>5, <1>1, HeadTailProperties
      <4> QED
        BY <3>1, <4>1 DEF One
    <3>6. t \in Listed => Owns(t)'
      BY <1>1, <1>2, <1>4, <1>5, <3>1, <3>2, <3>5 DEF Owns
    <3> QED
      BY <3>3, <3>4, <3>6
  <2> QED
    BY <1>3, <2>1, <2>2
<1> QED
  BY <1>1, <1>5, <1>6, <1>7, <1>8, WorkerKeepsPipes

LEMMA WorkerPipes ==
  ASSUME TInv, PipesInv, NEW t \in Tids, WorkerStep(t)
  PROVE  PipesInv'
<1>1. ~ BadPointer(t)
  BY StopReceived DEF BadPointer, Receives
<1> QED
  BY <1>1, StopHandledPipes, PeekPipes, PathReadPipes, InsertFailsPipes, AnsweredPipes
     DEF WorkerStep

LEMMA ListedTids == VInv => Listed \subseteq Tids
BY DEF VInv, Listed

------------------------------------------------------------------------------
(* Steps of the tracees.                                                     *)

LEMMA TraceePipes ==
  ASSUME TInv, VInv, PipesInv, mpc \in Live, UNCHANGED tracerVars, KernelInv', KernelOrder', KernelMove
  PROVE  PipesInv'
<1>1. UNCHANGED <<procs, list, mpc, workers, toWorker, toTracer>>
  BY DEF tracerVars
<1>2. SlotsInOrder' <=> SlotsInOrder
  BY <1>1 DEF SlotsInOrder
<1>3. Pipes => Pipes'
  <2>1. ASSUME NEW u \in Tids
        PROVE  /\ Busy(u)' <=> Busy(u)
               /\ Owns(u)' <=> Owns(u)
               /\ u \in Listed' <=> u \in Listed
               /\ Parked(u) \/ tracee[u].st = "gone" => Parked(u)' \/ tracee'[u].st = "gone"
    BY <1>1 DEF Busy, InHand, Pointed, Owns, Listed, KernelMove
  <2> QED
    BY <1>1, <2>1 DEF Pipes
<1>4. ASSUME Stages PROVE Stages'
  <2>0. Listed' = Listed /\ InUse(procs)' = InUse(procs)
    BY <1>1 DEF Listed
  <2>1. (\A u \in Tids : workers[u].pc = "none" <=> u \notin Listed /\ tracee[u].st # "gone")'
    BY <1>1, <1>4, <2>0 DEF Stages, KernelMove
  <2>2. (\A u \in Listed : /\ tracee[u].st # "gone"
                           /\ \E i \in DOMAIN procs : procs[i].status = "ATTACHED" /\ procs[i].tid = u)'
    <3>1. \A u \in Listed : u \in Tids
      BY ListedTids
    <3> QED
      BY <1>1, <1>4, <2>0, <3>1 DEF Stages, KernelMove
  <2>3. (\A i \in InUse(procs) : /\ procs[i].tid \in Tids
                                 /\ tracee[procs[i].tid].st \notin {"unborn", "gone"}
                                 /\ procs[i].status = "UNKNOWN" => Parked(procs[i].tid))'
    BY <1>1, <1>4, <2>0 DEF Stages, KernelMove
  <2>4. ASSUME NEW u \in Tids, Spawning(u)'
        PROVE  (/\ tracee[tracee[u].child].st \notin {"unborn", "gone"}
                /\ \A i \in InUse(procs) :
                      procs[i].tid = tracee[u].child => procs[i].status = "UNKNOWN")'
    <3>1. tracee'[u].child \in Tids
      BY <2>4 DEF KernelInv, Spawning
    <3>2. CASE Spawning(u) /\ tracee'[u].child = tracee[u].child
      BY <1>1, <1>4, <2>0, <3>1, <3>2 DEF Stages, KernelMove
    <3>3. CASE tracee'[u].child \in Unborn /\ tracee'[tracee'[u].child].st \notin {"unborn", "gone"}
      BY <1>1, <1>4, <2>0, <3>1, <3>3 DEF Stages, Unborn
    <3> QED
      BY <2>4, <3>2, <3>3 DEF KernelMove, Spawning
  <2> QED
    BY <2>1, <2>2, <2>3, <2>4 DEF Stages
<1> QED
  BY <1>1, <1>2, <1>3, <1>4 DEF PipesInv

------------------------------------------------------------------------------
(* Steps of the main thread.                                                 *)

\* Nothing that the invariant is about changes, and the loop does not begin again.
LEMMA MainStands ==
  ASSUME PipesInv, UNCHANGED <<tracee, procs, list, workers, toWorker, toTracer>>,
         mpc \in Live, mpc' \in Looping => mpc \in Looping
  PROVE  PipesInv'
<1>1. KernelOrder' <=> KernelOrder
  BY DEF KernelOrder
<1>2. SlotsInOrder' <=> SlotsInOrder
  BY DEF SlotsInOrder
<1>3. Pipes' <=> Pipes
  BY DEF Pipes, Busy, InHand, Pointed, Owns, Listed, Parked
<1>4. Stages' <=> Stages
  BY DEF Stages, Listed, Parked, Spawning
<1> QED
  BY <1>1, <1>2, <1>3, <1>4 DEF PipesInv

LEMMA PlacePipes ==
  ASSUME PipesInv, WaitNothing \/ WaitFails \/ Poll \/ Commit
  PROVE  PipesInv'
<1>1. UNCHANGED <<tracee, procs, list, workers, toWorker, toTracer>>
  BY DEF WaitNothing, WaitFails, Poll, Commit, kernelVars, tables, pool, pipes
<1>2. mpc \in Live /\ (mpc' \in Looping => mpc \in Looping)
  BY DEF WaitNothing, WaitFails, Poll, Commit, Live, Looping
<1> QED
  BY <1>1, <1>2, MainStands

\* One tracee is reaped or resumed.
LEMMA TouchedTracee ==
  ASSUME KernelInv, KernelOrder, NEW t \in Tids,
         NEW s \in {Reaped(tracee[t]), Resumed(tracee[t]), Resumed(Reaped(tracee[t]))},
         tracee' = [tracee EXCEPT ![t] = s]
  PROVE  /\ KernelOrder'
         /\ tracee'[t] = s /\ \A u \in Tids : u # t => tracee'[u] = tracee[u]
<1>1. tracee[t] \in Tracee /\ Ordered(t, tracee[t])
  BY DEF KernelInv, KernelOrder
<1>2. Ordered(t, s)
  BY <1>1, ReapedOrdered, ResumedOrdered
<1>3. tracee'[t] = s /\ \A u \in Tids : u # t => tracee'[u] = tracee[u]
  BY DEF KernelInv
<1> QED
  BY <1>2, <1>3 DEF KernelOrder

\* A stop that wait3() reports is of a tracee that is in no worker's hands.
LEMMA StopTaken ==
  ASSUME TInv, PipesInv, NEW t \in Tids, Waited(t), Event(t) # "exit"
  PROVE  /\ mpc = "wait" /\ SlotsInOrder /\ Pipes /\ Stages
         /\ tracee[t].st = "stopped" /\ tracee[t].ev # "none"
         /\ ~ Busy(t)
         /\ Waits(Reaped(tracee[t]))
         /\ Resumed(Reaped(tracee[t])).st = "running" /\ Resumed(Reaped(tracee[t])).ev = "none"
         /\ \A i \in InUse(procs) : procs[i].tid = t => procs[i].status # "UNKNOWN"
<1>1. mpc = "wait" /\ SlotsInOrder /\ Pipes /\ Stages /\ KernelOrder
  BY DEF Waited, PipesInv, Live, Looping
<1>2. tracee[t] \in Tracee /\ Ordered(t, tracee[t])
  BY <1>1 DEF TInv, KernelInv, KernelOrder
<1>3. tracee[t].st = "stopped" /\ tracee[t].ev # "none"
  BY <1>2 DEF Waited, Event, Reportable, Ordered
<1>4. ~ Parked(t)
  BY <1>3 DEF Parked, Waits
<1>5. ~ Busy(t)
  BY <1>1, <1>3, <1>4 DEF Pipes
<1>6. Waits(Reaped(tracee[t])) /\ Reaped(tracee[t]) \in Tracee /\ Ordered(t, Reaped(tracee[t]))
  BY <1>2, <1>3, ReapedOrdered DEF Waits, Event
<1>7. Resumed(Reaped(tracee[t])).st = "running" /\ Resumed(Reaped(tracee[t])).ev = "none"
  BY <1>6, ResumedOrdered DEF Waits
<1>8. \A i \in InUse(procs) : procs[i].tid = t => procs[i].status # "UNKNOWN"
  BY <1>1, <1>4 DEF Stages
<1> QED
  BY <1>1, <1>3, <1>5, <1>6, <1>7, <1>8

\* The slots stay those of the same processes.
KeptSlots ==
    /\ DOMAIN procs' = DOMAIN procs
    /\ \A i \in DOMAIN procs :
          /\ procs'[i].tid = procs[i].tid
          /\ \/ procs'[i].status = procs[i].status
             \/ procs[i].status = "ALLOCATED" /\ procs'[i].status = "ATTACHED"
          /\ SlotInOrder(procs[i]) => SlotInOrder(procs'[i])

LEMMA KeptSlotsKeep ==
  ASSUME KeptSlots
  PROVE  /\ SlotsInOrder => SlotsInOrder'
         /\ InUse(procs)' = InUse(procs)
         /\ \A u : Found(procs, u)' = Found(procs, u)
<1>1. InUse(procs)' = InUse(procs)
  BY DEF KeptSlots, InUse
<1>2. \A u : Found(procs, u)' = Found(procs, u)
  BY <1>1 DEF KeptSlots, Found, InUse
<1>3. SlotsInOrder => SlotsInOrder'
  BY DEF SlotsInOrder, KeptSlots
<1> QED
  BY <1>1, <1>2, <1>3

LEMMA SameAreKept == SameSlots => KeptSlots
BY DEF SameSlots, SameSlot, KeptSlots, SlotInOrder, MadeCalls

\* What stays of the stages when the tracee of a stop is reaped or resumed.
LEMMA StopKeepsStages ==
  ASSUME TInv, Stages, KeptSlots, NEW t \in Tids,
         tracee[t].st = "stopped", tracee[t].ev # "none",
         tracee'[t].st \in {"stopped", "running"}, tracee'[t].ev = "none",
         \A u \in Tids : u # t => tracee'[u] = tracee[u],
         \A i \in InUse(procs) : procs[i].tid = t => procs[i].status # "UNKNOWN"
  PROVE  /\ \A u \in Tids : tracee'[u].st = "gone" <=> tracee[u].st = "gone"
         /\ \A u \in Tids : \A i \in DOMAIN procs :
               procs[i].status = "ATTACHED" /\ procs[i].tid = u =>
                  procs'[i].status = "ATTACHED" /\ procs'[i].tid = u
         /\ (\A i \in InUse(procs) : /\ procs[i].tid \in Tids
                                     /\ tracee[procs[i].tid].st \notin {"unborn", "gone"}
                                     /\ procs[i].status = "UNKNOWN" => Parked(procs[i].tid))'
         /\ (\A u \in Tids : Spawning(u) =>
              /\ tracee[tracee[u].child].st \notin {"unborn", "gone"}
              /\ \A i \in InUse(procs) :
                    procs[i].tid = tracee[u].child => procs[i].status = "UNKNOWN")'
<1>1. \A u \in Tids : /\ tracee'[u].st = "gone" <=> tracee[u].st = "gone"
                      /\ tracee'[u].st = "unborn" <=> tracee[u].st = "unborn"
                      /\ u # t => (Parked(u)' <=> Parked(u))
  BY DEF Parked
<1>2. InUse(procs)' = InUse(procs)
  BY KeptSlotsKeep
<1>3. \A i \in InUse(procs) : /\ procs'[i].tid = procs[i].tid
                              /\ procs'[i].status = "UNKNOWN" <=> procs[i].status = "UNKNOWN"
  BY DEF KeptSlots, InUse
<1>4. ASSUME NEW u \in Tids, NEW i \in DOMAIN procs, procs[i].status = "ATTACHED", procs[i].tid = u
      PROVE  procs'[i].status = "ATTACHED" /\ procs'[i].tid = u
  BY <1>4 DEF KeptSlots
<1>5. (\A i \in InUse(procs) : /\ procs[i].tid \in Tids
                               /\ tracee[procs[i].tid].st \notin {"unborn", "gone"}
                               /\ procs[i].status = "UNKNOWN" => Parked(procs[i].tid))'
  BY <1>1, <1>2, <1>3 DEF Stages
<1>6. ASSUME NEW u \in Tids, Spawning(u)'
      PROVE  (/\ tracee[tracee[u].child].st \notin {"unborn", "gone"}
              /\ \A i \in InUse(procs) :
                    procs[i].tid = tracee[u].child => procs[i].status = "UNKNOWN")'
  <2>1. u # t /\ tracee'[u] = tracee[u] /\ Spawning(u)
    BY <1>6 DEF Spawning
  <2>2. tracee[u].child \in Tids
    BY <2>1 DEF TInv, KernelInv, Spawning
  <2> QED
    BY <1>1, <1>2, <1>3, <2>1, <2>2 DEF Stages
<1> QED
  BY <1>1, <1>4, <1>5, <1>6

\* A stop that the main thread deals with by itself.
LEMMA StopAnswered ==
  ASSUME TInv, VInv, PipesInv, NEW t \in Tids, Waited(t), Event(t) # "exit", KeptSlots,
         UNCHANGED <<list, workers, toWorker, toTracer>>,
         \/ tracee' = [tracee EXCEPT ![t] = Reaped(@)]
         \/ tracee' = [tracee EXCEPT ![t] = Resumed(Reaped(@))]
  PROVE  PipesInv'
<1>0. /\ mpc = "wait" /\ SlotsInOrder /\ Pipes /\ Stages
      /\ tracee[t].st = "stopped" /\ tracee[t].ev # "none"
      /\ ~ Busy(t)
      /\ Waits(Reaped(tracee[t]))
      /\ Resumed(Reaped(tracee[t])).st = "running" /\ Resumed(Reaped(tracee[t])).ev = "none"
      /\ \A i \in InUse(procs) : procs[i].tid = t => procs[i].status # "UNKNOWN"
  BY StopTaken
<1>1. PICK s \in {Reaped(tracee[t]), Resumed(Reaped(tracee[t]))} :
         tracee' = [tracee EXCEPT ![t] = s]
  OBVIOUS
<1>2. KernelOrder' /\ tracee'[t] = s /\ \A u \in Tids : u # t => tracee'[u] = tracee[u]
  BY <1>1, TouchedTracee DEF TInv, PipesInv
<1>3. tracee'[t].st \in {"stopped", "running"} /\ tracee'[t].ev = "none"
  BY <1>0, <1>2 DEF Waits
<1>4. /\ SlotsInOrder' /\ InUse(procs)' = InUse(procs)
      /\ \A u : Found(procs, u)' = Found(procs, u)
      /\ Listed' = Listed
  BY <1>0, KeptSlotsKeep DEF Listed
<1>5. \A u \in Tids : /\ Busy(u)' <=> Busy(u)
                      /\ Owns(u)' <=> Owns(u)
                      /\ u # t => (Parked(u)' <=> Parked(u))
  BY <1>2, <1>4 DEF Busy, InHand, Pointed, Owns, Parked
<1>6. Pipes'
  BY <1>0, <1>2, <1>4, <1>5 DEF Pipes
<1>7. Stages'
  <2>1. /\ \A u \in Tids : tracee'[u].st = "gone" <=> tracee[u].st = "gone"
        /\ \A u \in Tids : \A i \in DOMAIN procs :
              procs[i].status = "ATTACHED" /\ procs[i].tid = u =>
                 procs'[i].status = "ATTACHED" /\ procs'[i].tid = u
        /\ (\A i \in InUse(procs) : /\ procs[i].tid \in Tids
                                    /\ tracee[procs[i].tid].st \notin {"unborn", "gone"}
                                    /\ procs[i].status = "UNKNOWN" => Parked(procs[i].tid))'
        /\ (\A u \in Tids : Spawning(u) =>
             /\ tracee[tracee[u].child].st \notin {"unborn", "gone"}
             /\ \A i \in InUse(procs) :
                   procs[i].tid = tracee[u].child => procs[i].status = "UNKNOWN")'
    BY <1>0, <1>2, <1>3, StopKeepsStages
  <2>2. DOMAIN procs' = DOMAIN procs /\ \A u \in Listed : u \in Tids
    BY ListedTids DEF KeptSlots
  <2>3. (\A u \in Tids : workers[u].pc = "none" <=> u \notin Listed /\ tracee[u].st # "gone")'
    BY <1>0, <1>4, <2>1 DEF Stages
  <2>4. (\A u \in Listed : /\ tracee[u].st # "gone"
                           /\ \E i \in DOMAIN procs : procs[i].status = "ATTACHED" /\ procs[i].tid = u)'
    BY <1>0, <1>4, <2>1, <2>2 DEF Stages
  <2> QED
    BY <2>1, <2>3, <2>4 DEF Stages
<1> QED
  BY <1>2, <1>4, <1>6, <1>7 DEF PipesInv

LEMMA ExitWithoutWorkerPipes ==
  ASSUME TInv, PipesInv, NEW t \in Tids, ExitWithoutWorker(t)
  PROVE  PipesInv'
<1>1. KernelOrder'
  BY TouchedTracee DEF ExitWithoutWorker, TInv, PipesInv
<1>2. mpc' \notin Live /\ mpc' \notin Looping
  BY DEF ExitWithoutWorker, Live, Looping
<1> QED
  BY <1>1, <1>2 DEF PipesInv

\* The list without the entry of t.
LEMMA ListedAfterExit ==
  ASSUME VInv, NEW t \in Tids, FindTid(list, t) # 0, list' = vector_delete(list, FindTid(list, t))
  PROVE  t \in Listed /\ Listed' = Listed \ {t}
<1> DEFINE index == FindTid(list, t)
<1>1. index \in DOMAIN list /\ list[index] = t
  BY FindTidFinds, TidsAssumption DEF VInv, NoTid
<1>2. /\ list' \in Seq(Tids) /\ Len(list') = Len(list) - 1
      /\ \A i \in 1 .. Len(list) - 1 : list'[i] = IF i < index THEN list[i] ELSE list[i + 1]
  BY <1>1, DeleteKeeps DEF VInv
<1> HIDE DEF index
<1>3. Len(list) \in Nat \ {0} /\ DOMAIN list = 1 .. Len(list) /\ DOMAIN list' = 1 .. Len(list) - 1
  BY <1>1, <1>2 DEF VInv
<1>4. \A m \in DOMAIN list : list[m] = t => m = index
  BY <1>1 DEF VInv, VectorsAligned
<1>5. ASSUME NEW n \in DOMAIN list' PROVE list'[n] \in Listed \ {t}
  <2>1. CASE n < index
    BY <1>2, <1>3, <1>4, <2>1 DEF Listed
  <2>2. CASE ~ (n < index)
    <3>1. n + 1 \in DOMAIN list /\ n + 1 # index /\ list'[n] = list[n + 1]
      BY <1>1, <1>2, <1>3, <2>2
    <3> QED
      BY <1>4, <3>1 DEF Listed
  <2> QED
    BY <2>1, <2>2
<1>6. ASSUME NEW m \in DOMAIN list, list[m] # t PROVE \E n \in DOMAIN list' : list'[n] = list[m]
  <2>1. m # index
    BY <1>1, <1>6
  <2>2. CASE m < index
    <3>1. m \in DOMAIN list' /\ list'[m] = list[m]
      BY <1>1, <1>2, <1>3, <2>2
    <3> QED
      BY <3>1
  <2>3. CASE m > index
    <3>1. m - 1 \in DOMAIN list' /\ list'[m - 1] = list[m - 1 + 1] /\ m - 1 + 1 = m
      BY <1>1, <1>2, <1>3, <2>3
    <3> QED
      BY <3>1
  <2> QED
    BY <1>1, <1>3, <2>1, <2>2, <2>3
<1> QED
  BY <1>1, <1>5, <1>6 DEF Listed

\* The slot of an exit is freed, or nothing is written.
LEMMA ExitWrites ==
  ASSUME TInv, NEW t \in Tids, ExitReported(t), Found(procs, t) # {}
  PROVE  procs'[Find(procs, t)] = procs[Find(procs, t)] \/ procs'[Find(procs, t)].status = "FREE"
<1>1. Find(procs, t) \in DOMAIN procs
  BY FoundInTable DEF TInv
<1>2. FreeProcess(procs, Find(procs, t))[Find(procs, t)].status = "FREE"
  BY <1>1, FreeProcessFrees DEF TInv, WellTyped
<1> QED
  BY <1>2 DEF ExitReported, tables

LEMMA ExitPipes ==
  ASSUME Base, PipesInv, NEW t \in Tids, ExitReported(t)
  PROVE  PipesInv'
<1> USE DEF Base
<1> DEFINE i == Find(procs, t)
<1>1. /\ mpc = "wait" /\ tracee[t].ev = "exit"
      /\ tracee' = [tracee EXCEPT ![t] = Reaped(@)]
      /\ UNCHANGED <<workers, toWorker, toTracer>>
      /\ KernelOrder /\ SlotsInOrder /\ Pipes /\ Stages
  BY DEF ExitReported, Waited, Event, pipes, PipesInv, Live, Looping
<1>2. KernelOrder' /\ tracee'[t] = Reaped(tracee[t]) /\ \A u \in Tids : u # t => tracee'[u] = tracee[u]
  BY <1>1, TouchedTracee DEF TInv
<1>3. tracee'[t].st = "gone" /\ tracee'[t].ev = "none"
  <2>1. tracee[t] \in Tracee /\ Ordered(t, tracee[t])
    BY <1>1 DEF TInv, KernelInv, KernelOrder
  <2> QED
    BY <1>1, <1>2, <2>1, ReapedOrdered
<1>4. t \in Listed /\ Listed' = Listed \ {t} /\ Listed \subseteq Tids
  BY ListedAfterExit, ListedTids DEF ExitReported
<1>5. CASE mpc' = "segv"
  BY <1>2, <1>5 DEF PipesInv, Live, Looping
<1>6. \E k \in InUse(procs) : procs[k].status = "ATTACHED" /\ procs[k].tid = t
  BY <1>1, <1>4 DEF Stages, InUse
<1>7. Found(procs, t) # {}
  BY <1>6 DEF Found
<1>8. /\ i \in DOMAIN procs /\ i \in InUse(procs) /\ procs[i].tid = t
      /\ procs[i] \in Slot(Tids) /\ \A k \in InUse(procs) : procs[k].tid = t => k = i
  <2>1. i \in DOMAIN procs /\ i \in InUse(procs) /\ procs[i].tid = t
    BY <1>7, FindFinds DEF TInv, WellTyped
  <2> HIDE DEF i
  <2> QED
    BY <2>1 DEF TInv, WellTyped, TablesInv, UniqueTids
<1>9. /\ DOMAIN procs' = DOMAIN procs
      /\ \A k \in DOMAIN procs : k # i => procs'[k] = procs[k]
      /\ SlotInOrder(procs[i]) => SlotInOrder(procs'[i])
      /\ mpc' \in Looping => procs'[i].status = "FREE"
  <2>1. CASE procs' = procs /\ mpc' \notin Looping
    BY <2>1
  <2>2. CASE procs' = FreeProcess(procs, i)
    <3> DEFINE s == [procs[i] EXCEPT !.status = "FREE", !.tg = NoGroup, !.execve_info = NoInfo]
    <3>1. s.status = "FREE" /\ s.tg = NoGroup /\ s.call = procs[i].call
      <4> HIDE DEF i
      <4> QED
        BY <1>8 DEF Slot
    <3>2. procs' = [procs EXCEPT ![i] = s]
      BY <2>2 DEF FreeProcess
    <3> HIDE DEF s, i
    <3>3. SlotInOrder(procs[i]) => SlotInOrder(s)
      BY <3>1 DEF SlotInOrder
    <3> QED
      BY <1>8, <3>1, <3>2, <3>3 DEF TInv, WellTyped
  <2> QED
    BY <1>7, <2>1, <2>2 DEF ExitReported, InsertionFails, tables, Looping
<1> HIDE DEF i
<1>10. SlotsInOrder'
  BY <1>1, <1>8, <1>9 DEF SlotsInOrder
<1>11. ASSUME NEW u \in Tids, u # t
       PROVE  Found(procs, u)' = Found(procs, u) \ {i} /\ i \notin Found(procs, u)
  <2>1. i \notin Found(procs, u)
    BY <1>8, <1>11 DEF Found
  <2>2. i \notin Found(procs, u)'
    <3>1. procs'[i] = procs[i] \/ procs'[i].status = "FREE"
      BY <1>7, ExitWrites DEF i
    <3> QED
      BY <1>8, <1>9, <1>11, <3>1 DEF Found, InUse
  <2> QED
    BY <1>9, <2>1, <2>2 DEF Found, InUse
<1>12. Pipes'
  <2>1. ASSUME NEW u \in Tids
        PROVE  /\ PipesOf(workers'[u].pc, toWorker'[u], toTracer'[u])
               /\ Busy(u)' => Parked(u)' \/ tracee'[u].st = "gone"
               /\ u \in Listed' => Owns(u)'
    <3>1. Busy(u)' <=> Busy(u)
      BY <1>1 DEF Busy, InHand, Pointed
    <3>2. u # t => (Parked(u)' <=> Parked(u))
      BY <1>2 DEF Parked
    <3>3. u \in Listed' => Owns(u)'
      BY <1>1, <1>4, <1>11 DEF Owns, Pipes
    <3> QED
      BY <1>1, <1>2, <1>3, <3>1, <3>2, <3>3 DEF Pipes
  <2> QED
    BY <2>1 DEF Pipes
<1>13. ASSUME mpc' \in Looping PROVE Stages'
  <2>1. procs'[i].status = "FREE"
    BY <1>9, <1>13
  <2>2. /\ InUse(procs)' = InUse(procs) \ {i}
        /\ \A k \in InUse(procs) \ {i} : procs'[k] = procs[k] /\ procs[k].tid # t
    BY <1>8, <1>9, <2>1 DEF InUse
  <2>3. (\A u \in Tids : workers[u].pc = "none" <=> u \notin Listed /\ tracee[u].st # "gone")'
    BY <1>1, <1>2, <1>3, <1>4 DEF Stages
  <2>4. (\A u \in Listed : /\ tracee[u].st # "gone"
                           /\ \E k \in DOMAIN procs : procs[k].status = "ATTACHED" /\ procs[k].tid = u)'
    <3>1. ASSUME NEW u \in Listed'
          PROVE  /\ tracee'[u].st # "gone"
                 /\ \E k \in DOMAIN procs' : procs'[k].status = "ATTACHED" /\ procs'[k].tid = u
      <4>1. u \in Listed /\ u # t /\ tracee'[u] = tracee[u]
        BY <1>2, <1>4
      <4>2. PICK k \in DOMAIN procs : procs[k].status = "ATTACHED" /\ procs[k].tid = u
        BY <1>1, <4>1 DEF Stages
      <4>3. k # i
        BY <1>8, <4>1, <4>2
      <4> QED
        BY <1>1, <1>9, <4>1, <4>2, <4>3 DEF Stages
    <3> QED
      BY <3>1
  <2>5. (\A k \in InUse(procs) : /\ procs[k].tid \in Tids
                                 /\ tracee[procs[k].tid].st \notin {"unborn", "gone"}
                                 /\ procs[k].status = "UNKNOWN" => Parked(procs[k].tid))'
    BY <1>1, <1>2, <2>2 DEF Stages, Parked
  <2>6. ASSUME NEW u \in Tids, Spawning(u)'
        PROVE  (/\ tracee[tracee[u].child].st \notin {"unborn", "gone"}
                /\ \A k \in InUse(procs) :
                      procs[k].tid = tracee[u].child => procs[k].status = "UNKNOWN")'
    <3>1. u # t /\ tracee'[u] = tracee[u] /\ Spawning(u)
      BY <1>2, <1>3, <2>6 DEF Spawning
    <3>2. tracee[u].child \in Tids
      BY <3>1 DEF TInv, KernelInv, Spawning
    <3>3. tracee[u].child # t
      BY <1>1, <1>6, <3>1 DEF Stages
    <3> QED
      BY <1>1, <1>2, <2>2, <3>1, <3>2, <3>3 DEF Stages
  <2> QED
    BY <2>3, <2>4, <2>5, <2>6 DEF Stages
<1> QED
  BY <1>2, <1>10, <1>12, <1>13 DEF PipesInv

\* A stop of a tracee whose creator has not reported it.
LEMMA AppearsPipes ==
  ASSUME Base, PipesInv, NEW t \in Tids, Appears(t)
  PROVE  PipesInv'
<1> USE DEF Base
<1> DEFINE ps == WithRoom(procs)
           j == EmptySlot(procs)
           s == [ps[j] EXCEPT !.status = "UNKNOWN", !.flags = {}, !.tid = t, !.tg = NoGroup,
                              !.in_syscall = FALSE]
<1>0. /\ Waited(t) /\ Event(t) # "exit" /\ Found(procs, t) = {}
      /\ procs' = [ps EXCEPT ![j] = s]
      /\ tracee' = [tracee EXCEPT ![t] = Reaped(@)]
      /\ UNCHANGED <<list, mpc, workers, toWorker, toTracer>>
  BY DEF Appears, pool, pipes
<1>1. /\ mpc = "wait" /\ SlotsInOrder /\ Pipes /\ Stages
      /\ tracee[t].st = "stopped" /\ tracee[t].ev # "none" /\ Waits(Reaped(tracee[t]))
  BY <1>0, StopTaken
<1>2. KernelOrder' /\ tracee'[t] = Reaped(tracee[t]) /\ \A u \in Tids : u # t => tracee'[u] = tracee[u]
  BY <1>0, TouchedTracee DEF TInv, PipesInv
<1>3. /\ tracee'[t].st = "stopped" /\ tracee'[t].ev = "none" /\ Parked(t)'
      /\ \A u \in Tids : u # t => (Parked(u)' <=> Parked(u))
  BY <1>1, <1>2 DEF Waits, Parked
<1>4. /\ ps \in Seq(Slot(Tids)) /\ DOMAIN procs \subseteq DOMAIN ps
      /\ j \in DOMAIN ps /\ ps[j].status = "FREE"
      /\ \A i \in DOMAIN procs : ps[i] = procs[i]
      /\ \A i \in DOMAIN ps : i \notin DOMAIN procs => ps[i] = FreeSlot
  BY RoomInTable DEF TInv
<1>5. s.status = "UNKNOWN" /\ s.tid = t /\ s.tg = NoGroup /\ s.call = ps[j].call
  <2>1. ps[j] \in Slot(Tids)
    BY <1>4
  <2> HIDE DEF ps, j
  <2> QED
    BY <2>1 DEF Slot
<1> HIDE DEF ps, j, s
<1>6. DOMAIN procs' = DOMAIN ps /\ procs'[j] = s /\ \A i \in DOMAIN ps : i # j => procs'[i] = ps[i]
  BY <1>0, <1>4
<1>7. /\ j \notin InUse(procs) /\ InUse(procs)' = InUse(procs) \cup {j}
      /\ \A i \in InUse(procs) : procs'[i] = procs[i] /\ procs[i].tid # t
  <2>1. j \notin InUse(procs)
    BY <1>4 DEF InUse
  <2>2. \A i \in DOMAIN ps : i # j /\ i \notin DOMAIN procs => procs'[i].status = "FREE"
    BY <1>4, <1>6 DEF FreeSlot
  <2>3. InUse(procs)' = InUse(procs) \cup {j}
    BY <1>4, <1>5, <1>6, <2>1, <2>2 DEF InUse
  <2> QED
    BY <1>0, <1>4, <1>6, <2>1, <2>3 DEF InUse, Found
<1>8. SlotsInOrder'
  <2>1. \A i \in DOMAIN ps : SlotInOrder(ps[i])
    <3>1. SlotInOrder(FreeSlot)
      BY DEF SlotInOrder, FreeSlot, MadeCalls
    <3> QED
      BY <1>1, <1>4, <3>1 DEF SlotsInOrder
  <2>2. SlotInOrder(s)
    BY <1>4, <1>5, <2>1 DEF SlotInOrder
  <2> QED
    BY <1>6, <2>1, <2>2 DEF SlotsInOrder
<1>9. \A u : Found(procs, u) \subseteq Found(procs, u)'
  BY <1>7 DEF Found
<1>10. Listed' = Listed /\ Listed \subseteq Tids
  BY <1>0, ListedTids DEF Listed
<1>11. Pipes'
  <2>1. \A u \in Tids : /\ Busy(u)' <=> Busy(u)
                        /\ Owns(u) => Owns(u)'
    BY <1>0, <1>9 DEF Busy, InHand, Pointed, Owns
  <2> QED
    BY <1>0, <1>1, <1>2, <1>3, <1>10, <2>1 DEF Pipes
<1>12. Stages'
  <2>0. \A u \in Tids : /\ tracee'[u].st = "gone" <=> tracee[u].st = "gone"
                        /\ tracee'[u].st = "unborn" <=> tracee[u].st = "unborn"
    BY <1>1, <1>2, <1>3
  <2>1. (\A u \in Tids : workers[u].pc = "none" <=> u \notin Listed /\ tracee[u].st # "gone")'
    BY <1>0, <1>1, <1>10, <2>0 DEF Stages
  <2>2. (\A u \in Listed : /\ tracee[u].st # "gone"
                           /\ \E k \in DOMAIN procs : procs[k].status = "ATTACHED" /\ procs[k].tid = u)'
    <3>1. \A k \in DOMAIN procs : procs[k].status = "ATTACHED" =>
             k \in DOMAIN procs' /\ procs'[k].status = "ATTACHED" /\ procs'[k].tid = procs[k].tid
      BY <1>4, <1>6, <1>7 DEF InUse
    <3> QED
      BY <1>1, <1>10, <2>0, <3>1 DEF Stages
  <2>3. (\A k \in InUse(procs) : /\ procs[k].tid \in Tids
                                 /\ tracee[procs[k].tid].st \notin {"unborn", "gone"}
                                 /\ procs[k].status = "UNKNOWN" => Parked(procs[k].tid))'
    BY <1>1, <1>3, <1>5, <1>6, <1>7, <2>0 DEF Stages
  <2>4. ASSUME NEW u \in Tids, Spawning(u)'
        PROVE  (/\ tracee[tracee[u].child].st \notin {"unborn", "gone"}
                /\ \A k \in InUse(procs) :
                      procs[k].tid = tracee[u].child => procs[k].status = "UNKNOWN")'
    <3>1. u # t /\ tracee'[u] = tracee[u] /\ Spawning(u)
      BY <1>2, <1>3, <2>4 DEF Spawning
    <3>2. tracee[u].child \in Tids
      BY <3>1 DEF TInv, KernelInv, Spawning
    <3> QED
      BY <1>1, <1>5, <1>6, <1>7, <2>0, <3>1, <3>2 DEF Stages
  <2> QED
    BY <2>1, <2>2, <2>3, <2>4 DEF Stages
<1> QED
  BY <1>2, <1>8, <1>11, <1>12 DEF PipesInv

LEMMA AttachedPipes ==
  ASSUME Base, PipesInv, NEW t \in Tids, Attached(t)
  PROVE  PipesInv'
<1> USE DEF Base
<1> DEFINE i == Find(procs, t)
           s == [procs[i] EXCEPT !.status = "ATTACHED"]
<1>1. /\ Waited(t) /\ Event(t) # "exit"
      /\ UNCHANGED <<list, workers, toWorker, toTracer>>
      /\ tracee' = [tracee EXCEPT ![t] = Resumed(Reaped(@))]
      /\ procs[i].status = "ALLOCATED" /\ procs' = [procs EXCEPT ![i] = s]
  BY DEF Attached, pool, pipes
<1>2. i \in DOMAIN procs /\ procs[i] \in Slot(Tids)
  BY FoundInTable DEF Attached, TInv
<1> HIDE DEF i
<1>3. s.status = "ATTACHED" /\ s.tid = procs[i].tid /\ s.tg = procs[i].tg /\ s.call = procs[i].call
  BY <1>2 DEF Slot
<1> HIDE DEF s
<1>4. SlotInOrder(procs[i]) => SlotInOrder(s)
  BY <1>1, <1>3 DEF SlotInOrder
<1>5. KeptSlots
  BY <1>1, <1>2, <1>3, <1>4 DEF KeptSlots, TInv, WellTyped
<1> QED
  BY <1>1, <1>5, StopAnswered

LEMMA SignalPipes ==
  ASSUME Base, PipesInv, NEW t \in Tids, SignalForwarded(t)
  PROVE  PipesInv'
<1>1. /\ Waited(t) /\ Event(t) # "exit"
      /\ UNCHANGED <<procs, list, workers, toWorker, toTracer>>
      /\ tracee' = [tracee EXCEPT ![t] = Resumed(Reaped(@))]
  BY DEF SignalForwarded, Stop, tables, pool, pipes
<1>2. KeptSlots
  BY <1>1 DEF KeptSlots
<1> QED
  BY <1>1, <1>2, StopAnswered DEF Base

\* The slot of any other stop has been through its first stop and its fork event.
LEMMA StopSlot ==
  ASSUME Base, PipesInv, NEW t \in Tids, NEW es, Stop(t, es), "exit" \notin es
  PROVE  /\ Waited(t) /\ Event(t) # "exit"
         /\ Find(procs, t) \in DOMAIN procs /\ Find(procs, t) \in InUse(procs)
         /\ Find(procs, t) \in Nat /\ procs[Find(procs, t)] \in Slot(Tids)
         /\ procs[Find(procs, t)].status = "ATTACHED" /\ procs[Find(procs, t)].tid = t
         /\ \A k \in InUse(procs) : procs[k].tid = t => k = Find(procs, t)
<1> USE DEF Base
<1> DEFINE i == Find(procs, t)
<1>1. Waited(t) /\ Event(t) # "exit" /\ procs[i].status # "ALLOCATED" /\ Found(procs, t) # {}
  BY DEF Stop
<1>2. i \in DOMAIN procs /\ i \in InUse(procs) /\ procs[i].tid = t
  BY <1>1, FindFinds DEF TInv, WellTyped
<1>3. procs[i].status # "UNKNOWN"
  BY <1>1, <1>2, StopTaken
<1>4. i \in Nat /\ procs[i] \in Slot(Tids)
  BY <1>2 DEF TInv, WellTyped
<1> HIDE DEF i
<1>5. procs[i].status = "ATTACHED"
  BY <1>1, <1>2, <1>3, <1>4 DEF Slot, SlotStatus, InUse
<1>6. \A k \in InUse(procs) : procs[k].tid = t => k = i
  BY <1>2 DEF TablesInv, UniqueTids
<1> QED
  BY <1>1, <1>2, <1>4, <1>5, <1>6 DEF i

\* Without threads that call execve() the process of an exec event made the call.
LEMMA ExecByItself ==
  ASSUME Base, PipesInv, NoExecInThreads, NEW t \in Tids, Stop(t, {"exec"}),
         procs[Find(procs, t)].execve_info = NoInfo
  PROVE  ExecCallers(Find(procs, t)) = {}
<1> USE DEF Base
<1> DEFINE i == Find(procs, t)
<1>1. /\ Waited(t) /\ i \in DOMAIN procs /\ procs[i].status = "ATTACHED" /\ procs[i].tid = t
      /\ \A k \in InUse(procs) : procs[k].tid = t => k = i
  BY StopSlot
<1>2. tracee[t].ev = "exec" /\ SlotsInOrder
  BY <1>1, StopTaken DEF Stop, Event
<1>3. "execve" \in Calls
  BY <1>2 DEF PipesInv, KernelOrder, Ordered, MadeCalls
<1>4. "clone" \notin Calls
  BY <1>3 DEF NoExecInThreads
<1> HIDE DEF i
<1>5. procs[i].tg = t
  BY <1>1, <1>2, <1>4 DEF SlotsInOrder, SlotInOrder
<1>6. ASSUME NEW j \in ExecCallers(i) PROVE FALSE
  <2>1. j \in DOMAIN procs /\ procs[j].status = "ATTACHED" /\ procs[j].tg = t /\ procs[j].execve_info # NoInfo
    BY <1>5, <1>6 DEF ExecCallers
  <2>2. procs[j].tid = t
    BY <1>2, <1>4, <2>1, TidsAssumption DEF SlotsInOrder, SlotInOrder, NoGroup, NoTid
  <2>3. j = i
    BY <1>1, <2>1, <2>2 DEF InUse
  <2> QED
    BY <2>1, <2>3 DEF i
<1> QED
  BY <1>6 DEF i

LEMMA ExecPipes ==
  ASSUME Base, PipesInv, NoExecInThreads, NEW t \in Tids, ExecEvent(t)
  PROVE  PipesInv'
<1> USE DEF Base
<1> DEFINE i == Find(procs, t)
           own == procs[i].execve_info # NoInfo
<1>1. /\ Stop(t, {"exec"})
      /\ UNCHANGED <<list, workers, toWorker, toTracer>>
  BY DEF ExecEvent, pool, pipes
<1>2. /\ Waited(t) /\ Event(t) # "exit"
      /\ i \in DOMAIN procs /\ procs[i] \in Slot(Tids)
  BY <1>1, StopSlot
<1>3. CASE mpc' = "segv" /\ UNCHANGED tracee
  BY <1>3, DeadKeepsPipes DEF Finished
<1>4. CASE UNCHANGED tables /\ tracee' = [tracee EXCEPT ![t] = Reaped(@)]
  <2>1. KeptSlots
    BY <1>4 DEF KeptSlots, tables
  <2> QED
    BY <1>1, <1>2, <1>4, <2>1, StopAnswered
<1>5. CASE /\ own
           /\ procs' = [[procs EXCEPT ![i].execve_info = NoInfo] EXCEPT ![i].flags = {"EXECD"}]
           /\ \/ tracee' = [tracee EXCEPT ![t] = Reaped(@)]
              \/ tracee' = [tracee EXCEPT ![t] = Resumed(Reaped(@))]
  <2> DEFINE s == [[procs[i] EXCEPT !.execve_info = NoInfo] EXCEPT !.flags = {"EXECD"}]
  <2>1. procs' = [procs EXCEPT ![i] = s]
    BY <1>2, <1>5 DEF TInv, WellTyped
  <2>2. SameSlot(s, procs[i])
    <3> HIDE DEF i
    <3> QED
      BY <1>2 DEF SameSlot, Slot
  <2> HIDE DEF i, s
  <2>3. SameSlots
    BY <1>2, <2>1, <2>2, OneSlotWritten DEF TInv
  <2> QED
    BY <1>1, <1>2, <1>5, <2>3, SameAreKept, StopAnswered
<1>6. CASE own
  BY <1>3, <1>4, <1>5, <1>6 DEF ExecEvent
<1>7. CASE ~ own
  <2>1. ExecCallers(i) = {}
    BY <1>1, <1>7, ExecByItself
  <2>2. \/ mpc' = "segv" /\ UNCHANGED tracee
        \/ UNCHANGED tables /\ tracee' = [tracee EXCEPT ![t] = Reaped(@)]
    BY <1>7, <2>1 DEF ExecEvent
  <2> QED
    BY <1>3, <1>4, <2>2
<1> QED
  BY <1>6, <1>7

\* A worker gets the pointer to the slot of its tracee: alone, or after the answer
\* to the request that ran the tracee.
LEMMA PointerSent ==
  ASSUME TInv, PipesInv, mpc \in Live, NEW t \in Tids, ~ Busy(t),
         NEW i \in Nat, toWorker' = [toWorker EXCEPT ![t] = Append(@, Pointer(i))],
         UNCHANGED toTracer,
         workers'[t].pc = IF workers[t].pc = "none" THEN "idle" ELSE workers[t].pc
  PROVE  /\ PipesOf(workers'[t].pc, toWorker'[t], toTracer'[t])
         /\ workers'[t].pc \in {"idle", "resume"} /\ toTracer'[t] = <<>>
         /\ \A n \in DOMAIN toWorker'[t] : toWorker'[t][n].word = "ptr" => toWorker'[t][n].arg = i
<1> DEFINE q == toWorker[t]
           p == Pointer(i)
<1>1. toWorker \in [Tids -> Seq(Word)] /\ q \in Seq(Word) /\ workers[t].pc \in {"none", "idle", "peek", "resume", "exited"}
  BY DEF TInv, WellTyped, Worker
<1>2. p \in Word /\ p.word = "ptr" /\ p.arg = i
  BY DEF Pointer, Word
<1> HIDE DEF p
<1>3. PipesOf(workers[t].pc, q, toTracer[t])
  BY DEF PipesInv, Pipes
<1>4. /\ workers[t].pc \notin {"peek", "exited"}
      /\ ~ One(q, "ptr") /\ ~ Two(q)
      /\ workers[t].pc = "resume" => toTracer[t] = <<>>
  BY <1>3, BusyMeans DEF TInv
<1>5. toWorker'[t] = Append(q, p)
  BY <1>1 DEF p
<1> HIDE DEF q
<1>6. CASE workers[t].pc \in {"none", "idle"}
  <2>1. q = <<>> /\ toTracer[t] = <<>>
    BY <1>3, <1>4, <1>6 DEF PipesOf
  <2>2. One(toWorker'[t], "ptr") /\ toWorker'[t][1] = p
    BY <1>1, <1>2, <1>5, <2>1, PipeAppends
  <2>3. DOMAIN toWorker'[t] = {1}
    <3>1. toWorker'[t] \in Seq(Word)
      BY <1>1, <1>2, <1>5
    <3> QED
      BY <2>2, <3>1 DEF One
  <2> QED
    BY <1>2, <1>6, <2>1, <2>2, <2>3 DEF PipesOf
<1>7. CASE workers[t].pc = "resume"
  <2>1. One(q, "res") /\ toTracer[t] = <<>>
    BY <1>3, <1>4, <1>7 DEF PipesOf
  <2>2. Two(toWorker'[t]) /\ toWorker'[t][2] = p
    BY <1>1, <1>2, <1>5, <2>1, PipeAppends
  <2>3. DOMAIN toWorker'[t] = {1, 2}
    <3>1. toWorker'[t] \in Seq(Word)
      BY <1>1, <1>2, <1>5
    <3> QED
      BY <2>2, <3>1 DEF Two
  <2>4. toWorker'[t][1].word = "res"
    BY <2>2 DEF Two
  <2> QED
    BY <1>2, <1>7, <2>1, <2>2, <2>3, <2>4 DEF PipesOf
<1> QED
  BY <1>1, <1>4, <1>6, <1>7

LEMMA SyscallStopPipes ==
  ASSUME Base, PipesInv, NEW t \in Tids, SyscallStop(t)
  PROVE  PipesInv'
<1> USE DEF Base
<1> DEFINE i == Find(procs, t)
           s == WithRegisters(procs[i], tracee[t])
<1>0. /\ Stop(t, {"sysin", "sysout"})
      /\ procs' = [procs EXCEPT ![i] = s]
      /\ toWorker' = [toWorker EXCEPT ![t] = Append(@, Pointer(i))]
      /\ tracee' = [tracee EXCEPT ![t] = Reaped(@)]
      /\ mpc' = "poll" /\ UNCHANGED toTracer
  BY DEF SyscallStop
<1>1. /\ Waited(t) /\ Event(t) # "exit"
      /\ i \in DOMAIN procs /\ i \in InUse(procs) /\ i \in Nat /\ procs[i] \in Slot(Tids)
      /\ procs[i].status = "ATTACHED" /\ procs[i].tid = t
  BY <1>0, StopSlot
<1>2. /\ mpc = "wait" /\ SlotsInOrder /\ Pipes /\ Stages
      /\ tracee[t].st = "stopped" /\ tracee[t].ev # "none" /\ ~ Busy(t)
      /\ Waits(Reaped(tracee[t]))
      /\ \A k \in InUse(procs) : procs[k].tid = t => procs[k].status # "UNKNOWN"
  BY <1>1, StopTaken
<1>3. KernelOrder' /\ tracee'[t] = Reaped(tracee[t]) /\ \A u \in Tids : u # t => tracee'[u] = tracee[u]
  BY <1>0, TouchedTracee DEF TInv, PipesInv
<1>4. tracee'[t].st = "stopped" /\ tracee'[t].ev = "none" /\ Parked(t)'
  BY <1>2, <1>3 DEF Waits, Parked
<1>5. tracee[t] \in Tracee /\ tracee[t].call \in MadeCalls
  BY DEF TInv, KernelInv, PipesInv, KernelOrder, Ordered
<1> HIDE DEF i
<1>6. /\ s.status = procs[i].status /\ s.tid = procs[i].tid /\ s.tg = procs[i].tg
      /\ s.call \in {procs[i].call, tracee[t].call}
  BY <1>1, <1>5 DEF WithRegisters, Slot
<1> HIDE DEF s
<1>7. KeptSlots
  <2>1. SlotInOrder(procs[i]) => SlotInOrder(s)
    BY <1>5, <1>6 DEF SlotInOrder
  <2> QED
    BY <1>0, <1>1, <1>6, <2>1 DEF KeptSlots, TInv, WellTyped
<1>8. /\ SlotsInOrder' /\ \A u : Found(procs, u)' = Found(procs, u)
  BY <1>2, <1>7, KeptSlotsKeep
\* The worker, created when there is none.
<1>9. t \in Listed <=> FindTid(list, t) # 0
  BY FindTidFinds, TidsAssumption DEF VInv, NoTid, Listed
<1>10. workers[t].pc = "none" <=> t \notin Listed
  BY <1>2 DEF Stages
<1>11. /\ Listed' = Listed \cup {t}
       /\ workers'[t].pc = IF workers[t].pc = "none" THEN "idle" ELSE workers[t].pc
       /\ \A u \in Tids : u # t => workers'[u] = workers[u]
  <2>1. CASE FindTid(list, t) = 0
    <3>1. list' = Append(list, t) /\ workers' = [workers EXCEPT ![t] = [NoWorker EXCEPT !.pc = "idle"]]
      BY <2>1 DEF SyscallStop
    <3>2. Listed' = Listed \cup {t}
      <4>1. list \in Seq(Tids) /\ list' \in Seq(Tids) /\ Len(list') = Len(list) + 1
        BY <3>1 DEF VInv
      <4>2. \A n \in DOMAIN list' : list'[n] = IF n = Len(list) + 1 THEN t ELSE list[n]
        BY <3>1, <4>1
      <4>3. DOMAIN list' = DOMAIN list \cup {Len(list) + 1} /\ Len(list) + 1 \notin DOMAIN list
        BY <4>1
      <4> QED
        BY <4>2, <4>3 DEF Listed
    <3>3. workers'[t].pc = "idle" /\ \A u \in Tids : u # t => workers'[u] = workers[u]
      BY <3>1 DEF TInv, WellTyped, NoWorker
    <3> QED
      BY <1>9, <1>10, <2>1, <3>2, <3>3
  <2>2. CASE FindTid(list, t) # 0
    <3>1. UNCHANGED <<list, workers>>
      BY <2>2 DEF SyscallStop
    <3> QED
      BY <1>9, <1>10, <2>2, <3>1 DEF Listed
  <2> QED
    BY <2>1, <2>2
<1>12. /\ PipesOf(workers'[t].pc, toWorker'[t], toTracer'[t])
       /\ workers'[t].pc \in {"idle", "resume"} /\ toTracer'[t] = <<>>
       /\ \A n \in DOMAIN toWorker'[t] : toWorker'[t][n].word = "ptr" => toWorker'[t][n].arg = i
  BY <1>0, <1>1, <1>2, <1>11, PointerSent DEF Live, Looping
<1>13. \A u \in Tids : u # t => toWorker'[u] = toWorker[u]
  BY <1>0 DEF TInv, WellTyped
<1>14. Pipes'
  <2>1. Owns(t)'
    <3>1. i \in Found(procs, t)'
      BY <1>1, <1>8 DEF Found
    <3>2. workers'[t].pc # "peek"
      BY <1>12
    <3>3. DOMAIN toTracer'[t] = {}
      BY <1>12
    <3> QED
      BY <1>12, <3>1, <3>2, <3>3 DEF Owns
  <2>2. ASSUME NEW u \in Tids, u # t
        PROVE  /\ PipesOf(workers'[u].pc, toWorker'[u], toTracer'[u])
               /\ Busy(u)' => Parked(u)' \/ tracee'[u].st = "gone"
               /\ u \in Listed' => Owns(u)'
    <3>1. workers'[u] = workers[u] /\ toWorker'[u] = toWorker[u] /\ toTracer'[u] = toTracer[u]
      BY <1>0, <1>11, <1>13, <2>2
    <3>2. Busy(u)' <=> Busy(u)
      BY <3>1 DEF Busy, InHand, Pointed
    <3>3. Owns(u) => Owns(u)'
      BY <1>8, <3>1 DEF Owns
    <3>4. Parked(u)' <=> Parked(u)
      BY <1>3, <2>2 DEF Parked
    <3> QED
      BY <1>2, <1>3, <1>11, <2>2, <3>1, <3>2, <3>3, <3>4 DEF Pipes
  <2> QED
    BY <1>4, <1>12, <2>1, <2>2 DEF Pipes
<1>15. Stages'
  <2>1. /\ \A u \in Tids : tracee'[u].st = "gone" <=> tracee[u].st = "gone"
        /\ \A u \in Tids : \A k \in DOMAIN procs :
              procs[k].status = "ATTACHED" /\ procs[k].tid = u =>
                 procs'[k].status = "ATTACHED" /\ procs'[k].tid = u
        /\ (\A k \in InUse(procs) : /\ procs[k].tid \in Tids
                                    /\ tracee[procs[k].tid].st \notin {"unborn", "gone"}
                                    /\ procs[k].status = "UNKNOWN" => Parked(procs[k].tid))'
        /\ (\A u \in Tids : Spawning(u) =>
             /\ tracee[tracee[u].child].st \notin {"unborn", "gone"}
             /\ \A k \in InUse(procs) :
                   procs[k].tid = tracee[u].child => procs[k].status = "UNKNOWN")'
    BY <1>2, <1>3, <1>4, <1>7, StopKeepsStages
  <2>2. DOMAIN procs' = DOMAIN procs /\ Listed \subseteq Tids
    BY <1>7, ListedTids DEF KeptSlots
  <2>3. (\A u \in Tids : workers[u].pc = "none" <=> u \notin Listed /\ tracee[u].st # "gone")'
    BY <1>2, <1>11, <1>12, <2>1 DEF Stages
  <2>4. (\A u \in Listed : /\ tracee[u].st # "gone"
                           /\ \E k \in DOMAIN procs : procs[k].status = "ATTACHED" /\ procs[k].tid = u)'
    BY <1>1, <1>2, <1>4, <1>11, <2>1, <2>2 DEF Stages
  <2> QED
    BY <2>1, <2>3, <2>4 DEF Stages
<1> QED
  BY <1>3, <1>8, <1>14, <1>15 DEF PipesInv

\* A request is served: the answer is alone in the pipe of the worker that made it,
\* and a stop that was answered is no longer in its hands.
LEMMA ServePipes ==
  ASSUME Base, PipesInv, Serve
  PROVE  PipesInv'
<1> USE DEF Base
<1> DEFINE n == Minimum(todo)
           ready == pollfds[n]
           q == toTracer[ready]
           r == Head(q)
<1>0. /\ mpc = "serve" /\ KernelOrder /\ SlotsInOrder /\ Pipes /\ Stages
      /\ mpc' \in Looping
  BY DEF Serve, PipesInv, Live, Looping
<1>1. n \in DOMAIN list /\ list[n] = ready /\ q # <<>>
  <2>1. todo # {} /\ todo \subseteq Nat
    BY <1>0 DEF TInv, WellTyped, ServeInv
  <2>2. n \in todo
    BY <2>1, MinimumExists
  <2> HIDE DEF n
  <2> QED
    BY <1>0, <2>2 DEF TInv, ServeInv, VInv, VectorsAligned
<1>2. PICK w \in Tids : w = ready /\ w \in Listed /\ q = toTracer[w]
  BY <1>1, ListedTids DEF Listed
<1> HIDE DEF n
<1>3. /\ toTracer' = [toTracer EXCEPT ![w] = Tail(@)]
      /\ tracee' = IF r.req = "syscall" /\ Granted(r)
                   THEN [tracee EXCEPT ![r.tid] = Resumed(@)] ELSE tracee
      /\ toWorker' = IF FindTid(list, r.tid) = 0 THEN toWorker
                     ELSE [toWorker EXCEPT ![r.tid] = Append(@, Result(Granted(r)))]
      /\ UNCHANGED <<procs, list, workers>>
  BY <1>2 DEF Serve, tables, pool, n
<1>3a. procs' = procs /\ workers' = workers
  BY <1>3
<1> HIDE DEF ready
<1>4. /\ q \in Seq(Request) /\ toWorker \in [Tids -> Seq(Word)] /\ toTracer \in [Tids -> Seq(Request)]
      /\ workers[w].pc \in {"none", "idle", "peek", "resume", "exited"}
  BY <1>2 DEF TInv, WellTyped, Worker
<1>5. /\ PipesOf(workers[w].pc, toWorker[w], q) /\ Owns(w)
      /\ Busy(w) => Parked(w) \/ tracee[w].st = "gone"
  BY <1>0, <1>2 DEF Pipes
<1>6. Len(q) = 1 /\ toWorker[w] = <<>> /\ workers[w].pc \in {"peek", "resume"}
  BY <1>1, <1>4, <1>5 DEF PipesOf
<1>7. r = q[1] /\ Tail(q) = <<>> /\ 1 \in DOMAIN q
  BY <1>4, <1>6, OneElement
<1>8. r.tid = w /\ (r.req = "syscall" <=> workers[w].pc = "resume")
  BY <1>2, <1>5, <1>7 DEF Owns
<1>9. FindTid(list, w) # 0
  BY <1>2, FindTidFinds, TidsAssumption DEF VInv, NoTid, Listed
<1> DEFINE res == Result(Granted(r))
<1>10. res \in Word /\ res.word = "res"
  BY DEF Result, Word
<1>11. /\ toTracer'[w] = <<>> /\ toWorker'[w] = Append(<<>>, res)
       /\ \A u \in Tids : u # w => toTracer'[u] = toTracer[u] /\ toWorker'[u] = toWorker[u]
  BY <1>2, <1>3, <1>4, <1>6, <1>7, <1>8, <1>9
<1>12. tracee' = tracee \/ (workers[w].pc = "resume" /\ tracee' = [tracee EXCEPT ![w] = Resumed(@)])
  BY <1>3, <1>8
<1> HIDE DEF res, r, q
<1>13. One(toWorker'[w], "res") /\ DOMAIN toWorker'[w] = {1} /\ toWorker'[w][1] = res
  <2>1. toWorker'[w] = <<res>>
    BY <1>11
  <2> QED
    BY <1>10, <2>1 DEF One
<1>14. PipesOf(workers'[w].pc, toWorker'[w], toTracer'[w])
  BY <1>3, <1>6, <1>11, <1>13 DEF PipesOf
<1>15. Busy(w)' => workers[w].pc = "peek"
  BY <1>3a, <1>6, <1>10, <1>11, <1>13 DEF Busy, InHand, Pointed
<1>16. Owns(w)'
  <2>1. DOMAIN toTracer'[w] = {}
    BY <1>11
  <2>2. toWorker'[w][1].word # "ptr"
    BY <1>10, <1>13
  <2> QED
    BY <1>3a, <1>5, <1>13, <2>1, <2>2 DEF Owns
<1>17. /\ KernelOrder'
       /\ \A u \in Tids : u # w => tracee'[u] = tracee[u]
       /\ tracee'[w] \in {tracee[w], Resumed(tracee[w])}
       /\ workers[w].pc = "peek" => tracee'[w] = tracee[w]
  <2>1. CASE tracee' = tracee
    BY <1>0, <2>1 DEF KernelOrder
  <2>2. CASE workers[w].pc = "resume" /\ tracee' = [tracee EXCEPT ![w] = Resumed(@)]
    BY <1>0, <1>2, <2>2, TouchedTracee DEF TInv
  <2> QED
    BY <1>12, <2>1, <2>2
<1>18. Pipes'
  <2>1. workers[w].pc = "peek" => Busy(w)
    BY DEF Busy, InHand
  <2>2. Busy(w)' => Parked(w)' \/ tracee'[w].st = "gone"
    BY <1>5, <1>15, <1>17, <2>1 DEF Parked
  <2>3. ASSUME NEW u \in Tids, u # w
        PROVE  /\ PipesOf(workers'[u].pc, toWorker'[u], toTracer'[u])
               /\ Busy(u)' => Parked(u)' \/ tracee'[u].st = "gone"
               /\ u \in Listed' => Owns(u)'
    <3>1. workers'[u] = workers[u] /\ toWorker'[u] = toWorker[u] /\ toTracer'[u] = toTracer[u]
      BY <1>3, <1>11, <2>3
    <3>2. Busy(u)' <=> Busy(u)
      BY <3>1 DEF Busy, InHand, Pointed
    <3>3. Owns(u) <=> Owns(u)'
      BY <1>3, <3>1 DEF Owns
    <3>4. Parked(u)' <=> Parked(u)
      BY <1>17, <2>3 DEF Parked
    <3>5. Listed' = Listed
      BY <1>3 DEF Listed
    <3> QED
      BY <1>0, <1>17, <2>3, <3>1, <3>2, <3>3, <3>4, <3>5 DEF Pipes
  <2> QED
    BY <1>2, <1>14, <1>16, <2>2, <2>3 DEF Pipes
<1>19. Stages'
  <2>1. tracee[w] \in Tracee /\ tracee[w].st # "gone" /\ tracee[w].st # "unborn"
    <3>1. tracee[w].st # "gone" /\ \E k \in InUse(procs) : procs[k].tid = w
      BY <1>0, <1>2 DEF Stages, InUse
    <3> QED
      BY <1>0, <1>2, <3>1 DEF Stages, TInv, KernelInv
  <2>2. /\ Resumed(tracee[w]).st \notin {"gone", "unborn"}
        /\ Resumed(tracee[w]).ev = "spawn" => tracee[w].ev = "spawn" /\ Resumed(tracee[w]).child = tracee[w].child
    BY <2>1, QuietChanges DEF Resumed, Tracee, States
  <2>3. \A u \in Tids : /\ tracee'[u].st = "gone" <=> tracee[u].st = "gone"
                        /\ tracee'[u].st = "unborn" <=> tracee[u].st = "unborn"
                        /\ Spawning(u)' => Spawning(u) /\ tracee'[u].child = tracee[u].child
    BY <1>17, <2>1, <2>2 DEF Spawning
  <2>4. InUse(procs)' = InUse(procs) /\ Listed' = Listed /\ Listed \subseteq Tids
    BY <1>3, ListedTids DEF Listed
  <2>5. \A k \in InUse(procs) : procs[k].tid = w => procs[k].status # "UNKNOWN"
    <3>1. PICK m \in DOMAIN procs : procs[m].status = "ATTACHED" /\ procs[m].tid = w
      BY <1>0, <1>2 DEF Stages
    <3>2. \A k \in InUse(procs) : procs[k].tid = w => k = m
      BY <3>1 DEF TablesInv, UniqueTids, InUse
    <3> QED
      BY <3>1, <3>2
  <2>6. (\A u \in Tids : workers[u].pc = "none" <=> u \notin Listed /\ tracee[u].st # "gone")'
    BY <1>0, <1>3, <2>3, <2>4 DEF Stages
  <2>7. (\A u \in Listed : /\ tracee[u].st # "gone"
                           /\ \E k \in DOMAIN procs : procs[k].status = "ATTACHED" /\ procs[k].tid = u)'
    BY <1>0, <1>3, <2>3, <2>4 DEF Stages
  <2>8. (\A k \in InUse(procs) : /\ procs[k].tid \in Tids
                                 /\ tracee[procs[k].tid].st \notin {"unborn", "gone"}
                                 /\ procs[k].status = "UNKNOWN" => Parked(procs[k].tid))'
    BY <1>0, <1>3, <1>17, <2>3, <2>4, <2>5 DEF Stages, Parked
  <2>9. ASSUME NEW u \in Tids, Spawning(u)'
        PROVE  (/\ tracee[tracee[u].child].st \notin {"unborn", "gone"}
                /\ \A k \in InUse(procs) :
                      procs[k].tid = tracee[u].child => procs[k].status = "UNKNOWN")'
    <3>1. Spawning(u) /\ tracee'[u].child = tracee[u].child
      BY <2>3, <2>9
    <3>2. tracee[u].child \in Tids
      BY <3>1 DEF TInv, KernelInv, Spawning
    <3> QED
      BY <1>0, <1>3, <2>3, <2>4, <3>1, <3>2 DEF Stages
  <2> QED
    BY <2>6, <2>7, <2>8, <2>9 DEF Stages
<1>20. SlotsInOrder'
  BY <1>0, <1>3 DEF SlotsInOrder
<1> QED
  BY <1>17, <1>18, <1>19, <1>20 DEF PipesInv

\* What a fork event of t writes: the slot j of the child c is taken, new or UNKNOWN...
ForkTakes(t, c, j) ==
    /\ c = tracee[t].child /\ c # t /\ Found(procs, c) \subseteq {j}
    /\ DOMAIN procs \subseteq DOMAIN procs'
    /\ j \in DOMAIN procs => procs[j].status \in {"FREE", "UNKNOWN"}
    /\ j \in InUse(procs) => procs[j].tid = c
    /\ SlotInOrder(procs'[j]) /\ procs'[j].tid = c /\ procs'[j].status \in {"ATTACHED", "ALLOCATED"}
    /\ \A k \in DOMAIN procs \ {j} : /\ procs'[k].tid = procs[k].tid
                                     /\ procs'[k].status = procs[k].status
                                     /\ SlotInOrder(procs'[k])
    /\ \A k \in DOMAIN procs' \ {j} : k \notin DOMAIN procs =>
          procs'[k].status = "FREE" /\ SlotInOrder(procs'[k])
    /\ tracee'[t] \in {Reaped(tracee[t]), Resumed(Reaped(tracee[t]))}
    /\ tracee'[c] = IF Found(procs, c) # {} THEN Resumed(tracee[c]) ELSE tracee[c]
    /\ \A u \in Tids : u # t /\ u # c => tracee'[u] = tracee[u]
    /\ Found(procs, c) # {} => \E k \in Found(procs, c) : procs[k].status = "UNKNOWN"

\* ...and filled in, the parent's slot loses a flag.
ForkFills(t, c, j) ==
    /\ j # Find(procs, t)
    /\ procs'[Find(procs, t)] = [procs[Find(procs, t)] EXCEPT !.flags = @ \ {"FORKING"}]
    /\ \A k \in DOMAIN procs \ {j} : k # Find(procs, t) => procs'[k] = procs[k]
    /\ \A k \in DOMAIN procs' \ {j} : k \notin DOMAIN procs => procs'[k] = FreeSlot
    /\ \E b \in Slot(Tids) :
          /\ b = IF j \in DOMAIN procs THEN procs[j] ELSE FreeSlot
          /\ procs'[j] = [b EXCEPT
                !.status = IF Found(procs, c) # {} THEN "ATTACHED" ELSE "ALLOCATED",
                !.flags = {}, !.tid = c, !.in_syscall = FALSE,
                !.tg = IF procs[Find(procs, t)].call = "clone"
                       THEN procs[Find(procs, t)].tg ELSE c,
                !.identifier = Len(dbProcs) + 1]
    /\ mpc' # "failed" => tracee'[t] = Resumed(Reaped(tracee[t]))

LEMMA ForkWrites ==
  ASSUME Base, PipesInv, NEW t \in Tids, ForkEvent(t), ~ UNCHANGED <<tracee, tables>>
  PROVE  \E c \in Tids, j \in DOMAIN procs' : ForkTakes(t, c, j) /\ ForkFills(t, c, j)
<1> USE DEF Base
<1> DEFINE i == Find(procs, t)
           c == tracee[t].child
           g == procs[i].tg
           seen == Found(procs, c) # {}
           j == IF seen THEN Find(procs, c) ELSE EmptySlot(procs)
           is_thread == procs[i].call = "clone"
           table == IF seen THEN procs ELSE WithRoom(procs)
           st == IF seen THEN "ATTACHED" ELSE "ALLOCATED"
           tg == IF is_thread THEN g ELSE c
           si == [table[i] EXCEPT !.flags = @ \ {"FORKING"}]
           mid == [table EXCEPT ![i] = si]
           sj == [mid[j] EXCEPT !.status = st, !.flags = {}, !.tid = c, !.in_syscall = FALSE,
                                !.tg = tg, !.identifier = Len(dbProcs) + 1]
<1>1. /\ Waited(t) /\ i \in DOMAIN procs /\ i \in InUse(procs) /\ procs[i] \in Slot(Tids)
      /\ procs[i].status = "ATTACHED" /\ procs[i].tid = t
      /\ \A k \in InUse(procs) : procs[k].tid = t => k = i
      /\ Stop(t, {"spawn"})
  BY StopSlot DEF ForkEvent
<1>1a. SlotsInOrder
  BY <1>1, StopTaken DEF Stop
<1>2. c \in Tids
  BY <1>1 DEF Stop, Event, TInv, KernelInv
<1>3. /\ g # NoGroup
      /\ seen => procs[j].status = "UNKNOWN"
      /\ procs' = [table EXCEPT
             ![i].flags = @ \ {"FORKING"},
             ![j] = [@ EXCEPT !.status = IF seen THEN "ATTACHED" ELSE "ALLOCATED",
                              !.flags = {}, !.tid = c, !.in_syscall = FALSE,
                              !.tg = IF is_thread THEN g ELSE c,
                              !.identifier = Len(dbProcs) + 1]]
      /\ \/ tracee' = [tracee EXCEPT ![t] = Resumed(Reaped(@)),
                                     ![c] = IF seen THEN Resumed(@) ELSE @]
         \/ /\ tracee' = [tracee EXCEPT ![t] = Reaped(@),
                                        ![c] = IF seen THEN Resumed(@) ELSE @]
            /\ mpc' = "failed"
  BY DEF ForkEvent, tables, InsertionFails
<1>4. /\ table \in Seq(Slot(Tids)) /\ DOMAIN procs \subseteq DOMAIN table
      /\ j \in DOMAIN table /\ i \in DOMAIN table
      /\ \A k \in DOMAIN procs : table[k] = procs[k]
      /\ \A k \in DOMAIN table : k \notin DOMAIN procs => table[k] = FreeSlot
      /\ ~seen => table[j].status = "FREE"
      /\ seen => j \in Found(procs, c)
  <2>1. CASE seen
    <3>1. j \in DOMAIN procs /\ j \in InUse(procs) /\ procs[j].tid = c
      BY <2>1, FindFinds DEF TInv, WellTyped
    <3> QED
      BY <1>1, <2>1, <3>1 DEF TInv, WellTyped, Found
  <2>2. CASE ~seen
    BY <1>1, <2>2, RoomInTable DEF TInv
  <2> QED
    BY <2>1, <2>2
<1>5. c # t /\ i # j
  <2>1. i \in Found(procs, t)
    BY <1>1 DEF Found
  <2>2. CASE seen
    <3>1. j \in InUse(procs) /\ procs[j].tid = c
      BY <1>4, <2>2 DEF Found
    <3> HIDE DEF j, seen, i
    <3>2. i # j
      BY <1>1, <1>3, <2>2
    <3> QED
      BY <1>1, <3>1, <3>2
  <2>3. CASE ~seen
    <3>1. c # t
      BY <2>1, <2>3
    <3> HIDE DEF j, seen, i, c
    <3>2. i # j
      BY <1>1, <1>4, <2>3
    <3> QED
      BY <3>1, <3>2
  <2> QED
    BY <2>2, <2>3
<1>6. Found(procs, c) \subseteq {j}
  <2>1. CASE seen
    <3> HIDE DEF j, seen, c
    <3> QED
      BY <1>4, <2>1 DEF TablesInv, UniqueTids, Found
  <2> QED
    BY <2>1
<1>7. procs[i].call = "clone" => "clone" \in Calls
  BY <1>1, <1>1a DEF SlotsInOrder, SlotInOrder, MadeCalls
<1>8. si.tid = table[i].tid /\ si.status = table[i].status /\ si.tg = table[i].tg /\ si.call = table[i].call
  <2>1. table[i] \in Slot(Tids)
    BY <1>4
  <2> HIDE DEF i, table
  <2> QED
    BY <2>1 DEF Slot
<1>9. mid[j] = table[j] /\ mid[i] = si /\ DOMAIN mid = DOMAIN table
      /\ \A k \in DOMAIN table : k # i => mid[k] = table[k]
  <2> HIDE DEF si, table, i, j
  <2> QED
    BY <1>4, <1>5
<1>10. sj.status = st /\ sj.tid = c /\ sj.tg = tg /\ sj.call = table[j].call
  <2>1. mid[j] \in Slot(Tids)
    BY <1>4, <1>9
  <2> HIDE DEF mid, st, tg, c
  <2>2. sj.status = st /\ sj.tid = c /\ sj.tg = tg /\ sj.call = mid[j].call
    <3> HIDE DEF j
    <3> QED
      BY <2>1 DEF Slot
  <2> QED
    BY <1>9, <2>2
<1>11. \A k \in DOMAIN table : SlotInOrder(table[k])
  <2>1. SlotInOrder(FreeSlot)
    BY DEF SlotInOrder, FreeSlot, MadeCalls
  <2> HIDE DEF table
  <2> QED
    BY <1>1a, <1>4, <2>1 DEF SlotsInOrder
<1>12. procs' = [mid EXCEPT ![j] = sj]
  BY <1>3
<1>13. tg # NoGroup /\ ("clone" \notin Calls => tg = c)
  <2>1. c # NoGroup
    BY <1>2, TidsAssumption DEF NoGroup, NoTid
  <2> HIDE DEF c, g, i
  <2> QED
    BY <1>3, <1>7, <2>1 DEF i
<1>14. PICK s \in {Reaped(tracee[t]), Resumed(Reaped(tracee[t]))} :
          /\ tracee' = [tracee EXCEPT ![t] = s, ![c] = IF seen THEN Resumed(@) ELSE @]
          /\ mpc' # "failed" => s = Resumed(Reaped(tracee[t]))
  BY <1>3
<1>14a. seen => procs[j].status = "UNKNOWN"
  BY <1>3
<1>15. /\ tracee'[t] = s
       /\ tracee'[c] = IF seen THEN Resumed(tracee[c]) ELSE tracee[c]
       /\ \A u \in Tids : u # t /\ u # c => tracee'[u] = tracee[u]
  <2> HIDE DEF c, seen
  <2> QED
    BY <1>2, <1>5, <1>14 DEF TInv, KernelInv
<1>16. seen <=> Found(procs, c) # {}
  OBVIOUS
<1>16a. \E b \in Slot(Tids) : /\ b = table[j]
                              /\ sj = [b EXCEPT !.status = st, !.flags = {}, !.tid = c,
                                                !.in_syscall = FALSE, !.tg = tg,
                                                !.identifier = Len(dbProcs) + 1]
  <2>1. table[j] \in Slot(Tids)
    BY <1>4
  <2> HIDE DEF table, j, st, tg, c, mid
  <2> QED
    BY <1>9, <2>1
<1>16b. table[j] = IF j \in DOMAIN procs THEN procs[j] ELSE FreeSlot
  <2> HIDE DEF table, j
  <2> QED
    BY <1>4
<1>16c. si = [procs[i] EXCEPT !.flags = @ \ {"FORKING"}]
  BY <1>1, <1>4
<1>16d. /\ st = IF Found(procs, c) # {} THEN "ATTACHED" ELSE "ALLOCATED"
        /\ tg = IF procs[Find(procs, t)].call = "clone" THEN procs[Find(procs, t)].tg ELSE c
        /\ i = Find(procs, t)
  OBVIOUS
<1> HIDE DEF sj, mid, si, j, seen, table, tg, i, g, is_thread
<1>17. st \in {"ATTACHED", "ALLOCATED"}
  OBVIOUS
<1> HIDE DEF st, c
<1>18. /\ DOMAIN procs' = DOMAIN table /\ procs'[j] = sj
       /\ \A k \in DOMAIN table : k # j => procs'[k] = mid[k]
  BY <1>4, <1>9, <1>12
<1>19. SlotInOrder(sj)
  BY <1>4, <1>10, <1>11, <1>13 DEF SlotInOrder
<1>20. \A k \in DOMAIN table : k # j => /\ procs'[k].tid = table[k].tid
                                        /\ procs'[k].status = table[k].status
                                        /\ SlotInOrder(procs'[k])
  <2>1. SlotInOrder(si)
    BY <1>4, <1>8, <1>11 DEF SlotInOrder
  <2> QED
    BY <1>8, <1>9, <1>11, <1>18, <2>1
<1>21. j \in InUse(procs) => procs[j].tid = c
  <2>1. seen => procs[j].tid = c
    BY <1>4 DEF Found
  <2>2. ~ seen => j \notin InUse(procs)
    BY <1>4 DEF InUse
  <2> QED
    BY <2>1, <2>2
<1>22. j \in DOMAIN procs => procs[j].status \in {"FREE", "UNKNOWN"}
  BY <1>4, <1>14a
<1>23. \A k \in DOMAIN procs' \ {j} : k \notin DOMAIN procs =>
                 procs'[k].status = "FREE" /\ SlotInOrder(procs'[k])
  BY <1>4, <1>18, <1>20 DEF FreeSlot
<1>24. \A k \in DOMAIN procs \ {j} : /\ procs'[k].tid = procs[k].tid
                                     /\ procs'[k].status = procs[k].status
                                     /\ SlotInOrder(procs'[k])
  BY <1>4, <1>20
<1>25. seen => \E k \in Found(procs, c) : procs[k].status = "UNKNOWN"
  BY <1>4, <1>14a
<1>26. j \in DOMAIN procs' /\ DOMAIN procs \subseteq DOMAIN procs' /\ SlotInOrder(procs'[j])
       /\ procs'[j].tid = c /\ procs'[j].status \in {"ATTACHED", "ALLOCATED"} /\ c = tracee[t].child
  BY <1>4, <1>10, <1>17, <1>18, <1>19 DEF c
<1>27. /\ j # Find(procs, t)
       /\ procs'[Find(procs, t)] = [procs[Find(procs, t)] EXCEPT !.flags = @ \ {"FORKING"}]
       /\ \A k \in DOMAIN procs \ {j} : k # Find(procs, t) => procs'[k] = procs[k]
       /\ \A k \in DOMAIN procs' \ {j} : k \notin DOMAIN procs => procs'[k] = FreeSlot
  <2>1. i \in DOMAIN table /\ i = Find(procs, t) /\ i # j /\ procs'[i] = si
    BY <1>4, <1>5, <1>9, <1>16d, <1>18
  <2>2. \A k \in DOMAIN table : k # j /\ k # i => procs'[k] = table[k]
    BY <1>9, <1>18
  <2>3. i \in DOMAIN procs
    BY <1>1
  <2> QED
    BY <1>4, <1>16c, <1>18, <2>1, <2>2, <2>3
<1>28. \E b \in Slot(Tids) :
          /\ b = IF j \in DOMAIN procs THEN procs[j] ELSE FreeSlot
          /\ procs'[j] = [b EXCEPT
                !.status = IF Found(procs, c) # {} THEN "ATTACHED" ELSE "ALLOCATED",
                !.flags = {}, !.tid = c, !.in_syscall = FALSE,
                !.tg = IF procs[Find(procs, t)].call = "clone"
                       THEN procs[Find(procs, t)].tg ELSE c,
                !.identifier = Len(dbProcs) + 1]
  BY <1>16a, <1>16b, <1>16d, <1>18
<1>29. mpc' # "failed" => tracee'[t] = Resumed(Reaped(tracee[t]))
  BY <1>14, <1>15
<1>30. ForkTakes(t, c, j)
  BY <1>5, <1>6, <1>14, <1>15, <1>16, <1>21, <1>22, <1>23, <1>24, <1>25, <1>26 DEF ForkTakes
<1>31. ForkFills(t, c, j)
  BY <1>27, <1>28, <1>29 DEF ForkFills
<1> QED
  BY <1>2, <1>26, <1>30, <1>31

LEMMA ForkPipes ==
  ASSUME Base, PipesInv, NEW t \in Tids, ForkEvent(t)
  PROVE  PipesInv'
<1> USE DEF Base
<1>0. /\ Stop(t, {"spawn"}) /\ mpc' \in {"segv", "failed", "poll"}
      /\ UNCHANGED <<list, workers, toWorker, toTracer>>
  BY DEF ForkEvent, InsertionFails, pool, pipes
<1>1. /\ mpc = "wait" /\ SlotsInOrder /\ Pipes /\ Stages /\ KernelOrder
      /\ tracee[t].st = "stopped" /\ tracee[t].ev = "spawn" /\ ~ Busy(t)
      /\ Waits(Reaped(tracee[t]))
      /\ Resumed(Reaped(tracee[t])).st = "running" /\ Resumed(Reaped(tracee[t])).ev = "none"
      /\ \A k \in InUse(procs) : procs[k].tid = t => procs[k].status # "UNKNOWN"
  BY <1>0, StopSlot, StopTaken DEF Stop, Event, PipesInv
<1>2. CASE UNCHANGED <<tracee, tables>>
  <2>1. CASE mpc' = "segv"
    BY <1>2, <2>1, DeadKeepsPipes DEF Finished
  <2>2. CASE mpc' = "failed"
    BY <1>0, <1>1, <1>2, <2>2, MainStands DEF Live, Looping, tables
  <2>3. CASE mpc' = "poll"
    BY <1>0, <1>1, <1>2, <2>3, MainStands DEF Live, Looping, tables
  <2> QED
    BY <1>0, <2>1, <2>2, <2>3
<1>3. ASSUME ~ UNCHANGED <<tracee, tables>> PROVE PipesInv'
  <2>1. PICK c \in Tids, j \in DOMAIN procs' : ForkTakes(t, c, j)
    BY <1>0, <1>3, ForkWrites
  <2> USE DEF ForkTakes
  <2>2. SlotsInOrder'
    BY <2>1 DEF SlotsInOrder
  <2>3. /\ InUse(procs)' = InUse(procs) \cup {j}
        /\ \A k \in InUse(procs) \ {j} : /\ procs'[k].tid = procs[k].tid /\ procs[k].tid # c
                                         /\ procs'[k].status = procs[k].status
    <3>1. \A k \in DOMAIN procs \ {j} : k \in InUse(procs)' <=> k \in InUse(procs)
      BY <2>1 DEF InUse
    <3>2. \A k \in DOMAIN procs' \ {j} : k \notin DOMAIN procs => k \notin InUse(procs)'
      BY <2>1 DEF InUse
    <3>3. j \in InUse(procs)' /\ InUse(procs) \subseteq DOMAIN procs /\ InUse(procs)' \subseteq DOMAIN procs'
      BY <2>1 DEF InUse
    <3>4. \A k \in InUse(procs) \ {j} : procs[k].tid # c
      BY <2>1 DEF Found
    <3> QED
      BY <2>1, <3>1, <3>2, <3>3, <3>4
\* The child waits, or goes on if it was seen, and has no worker.
  <2>4. /\ c \notin Listed /\ workers[c].pc = "none" /\ ~ Busy(c)
        /\ tracee[c].st \notin {"unborn", "gone"}
        /\ Found(procs, c) # {} => Parked(c)
    <3>1. tracee[c].st \notin {"unborn", "gone"} /\ (\A k \in InUse(procs) : procs[k].tid = c => procs[k].status = "UNKNOWN")
      BY <1>1, <2>1 DEF Stages, Spawning
    <3>2. c \notin Listed
      BY <1>1, <3>1 DEF Stages, InUse
    <3>3. workers[c].pc = "none"
      BY <1>1, <3>1, <3>2 DEF Stages
    <3>4. ~ Busy(c)
      <4>1. toWorker[c] = <<>>
        BY <1>1, <3>3 DEF Pipes, PipesOf
      <4> QED
        BY <3>3, <4>1 DEF Busy, InHand, Pointed
    <3>5. Found(procs, c) # {} => Parked(c)
      BY <1>1, <3>1 DEF Stages, Found
    <3> QED
      BY <3>1, <3>2, <3>3, <3>4, <3>5
  <2>5. \A u \in Tids : Ordered(u, tracee[u]) /\ tracee[u] \in Tracee
    BY <1>1 DEF KernelOrder, TInv, KernelInv
  <2>6. KernelOrder'
    <3>1. Ordered(t, Reaped(tracee[t])) /\ Reaped(tracee[t]) \in Tracee
      BY <2>5, ReapedOrdered
    <3>2. Ordered(t, Resumed(Reaped(tracee[t])))
      BY <3>1, ResumedOrdered
    <3>3. Ordered(c, Resumed(tracee[c]))
      BY <2>5, ResumedOrdered
    <3> QED
      BY <2>1, <2>5, <3>1, <3>2, <3>3 DEF KernelOrder
  <2>7. tracee'[t].st \in {"stopped", "running"} /\ tracee'[t].ev = "none"
    BY <1>1, <2>1 DEF Waits
  <2>8. /\ tracee'[c].st \notin {"unborn", "gone"}
        /\ Found(procs, c) # {} => tracee'[c].ev # "spawn"
    <3>1. CASE Found(procs, c) = {}
      BY <2>1, <2>4, <3>1
    <3>2. CASE Found(procs, c) # {}
      <4>1. tracee[c].st = "stopped" \/ tracee[c].st = "dead"
        BY <2>4, <3>2 DEF Parked, Waits
      <4>2. tracee[c].st = "dead" => tracee[c].ev = "exit"
        BY <2>5 DEF Ordered
      <4> QED
        BY <2>1, <2>4, <2>5, <3>2, <4>1, <4>2, ResumedOrdered
    <3> QED
      BY <3>1, <3>2
  <2>9. \A u \in Tids : /\ tracee'[u].st = "gone" <=> tracee[u].st = "gone"
                        /\ tracee'[u].st = "unborn" <=> tracee[u].st = "unborn"
    BY <1>1, <2>1, <2>4, <2>7, <2>8
  <2>10. Listed' = Listed /\ Listed \subseteq Tids
    BY <1>0, ListedTids DEF Listed
  <2>11. Pipes'
    <3>1. ASSUME NEW u \in Tids
          PROVE  /\ PipesOf(workers'[u].pc, toWorker'[u], toTracer'[u])
                 /\ Busy(u)' => Parked(u)' \/ tracee'[u].st = "gone"
                 /\ u \in Listed' => Owns(u)'
      <4>1. Busy(u)' <=> Busy(u)
        BY <1>0 DEF Busy, InHand, Pointed
      <4>2. u # t /\ u # c => (Parked(u)' <=> Parked(u))
        BY <2>1 DEF Parked
      <4>3. u \in Listed => Found(procs, u) \subseteq Found(procs, u)'
        BY <2>1, <2>3, <2>4 DEF Found, InUse
      <4>4. u \in Listed' => Owns(u)'
        BY <1>0, <1>1, <2>10, <4>3 DEF Pipes, Owns
      <4> QED
        BY <1>0, <1>1, <2>4, <2>9, <4>1, <4>2, <4>4 DEF Pipes
    <3> QED
      BY <3>1 DEF Pipes
  <2>12. Stages'
    <3>1. (\A u \in Tids : workers[u].pc = "none" <=> u \notin Listed /\ tracee[u].st # "gone")'
      BY <1>0, <1>1, <2>9, <2>10 DEF Stages
    <3>2. (\A u \in Listed : /\ tracee[u].st # "gone"
                             /\ \E k \in DOMAIN procs : procs[k].status = "ATTACHED" /\ procs[k].tid = u)'
      <4>1. ASSUME NEW u \in Listed
            PROVE  \E k \in DOMAIN procs' : procs'[k].status = "ATTACHED" /\ procs'[k].tid = u
        <5>1. PICK k \in DOMAIN procs : procs[k].status = "ATTACHED" /\ procs[k].tid = u
          BY <1>1 DEF Stages
        <5>2. k # j
          BY <2>1, <5>1
        <5> QED
          BY <2>1, <5>1, <5>2
      <4> QED
        BY <1>1, <2>9, <2>10, <4>1 DEF Stages
    <3>3. (\A k \in InUse(procs) : /\ procs[k].tid \in Tids
                                   /\ tracee[procs[k].tid].st \notin {"unborn", "gone"}
                                   /\ procs[k].status = "UNKNOWN" => Parked(procs[k].tid))'
      <4>1. ASSUME NEW k \in InUse(procs), k # j
            PROVE  /\ procs'[k].tid \in Tids
                   /\ tracee'[procs'[k].tid].st \notin {"unborn", "gone"}
                   /\ procs'[k].status = "UNKNOWN" => Parked(procs[k].tid)'
        <5>1. procs'[k].tid = procs[k].tid /\ procs[k].tid # c /\ procs'[k].status = procs[k].status
          BY <2>3, <4>1
        <5>2. procs[k].tid \in Tids /\ tracee[procs[k].tid].st \notin {"unborn", "gone"}
          BY <1>1 DEF Stages
        <5>3. ASSUME procs'[k].status = "UNKNOWN"
              PROVE  Waits(tracee'[procs'[k].tid]) \/ tracee'[procs'[k].tid].st = "dead"
          <6>1. procs[k].tid # t /\ Parked(procs[k].tid)
            BY <1>1, <5>1, <5>3 DEF Stages
          <6>2. tracee'[procs[k].tid] = tracee[procs[k].tid]
            BY <2>1, <5>1, <5>2, <6>1
          <6> QED
            BY <5>1, <6>1, <6>2 DEF Parked
        <5> QED
          BY <2>9, <5>1, <5>2, <5>3 DEF Parked
      <4>2. /\ procs'[j].tid \in Tids /\ tracee'[procs'[j].tid].st \notin {"unborn", "gone"}
            /\ procs'[j].status # "UNKNOWN"
        BY <2>1, <2>8
      <4> QED
        BY <2>3, <4>1, <4>2
    <3>4. ASSUME NEW u \in Tids, Spawning(u)'
          PROVE  (/\ tracee[tracee[u].child].st \notin {"unborn", "gone"}
                  /\ \A k \in InUse(procs) :
                        procs[k].tid = tracee[u].child => procs[k].status = "UNKNOWN")'
      <4>1. u # t /\ tracee'[u] = tracee[u] /\ Spawning(u)
        BY <2>1, <2>7, <2>8, <3>4 DEF Spawning
      <4>2. tracee[u].child \in Tids /\ tracee[u].child # c
        BY <1>1, <2>1, <4>1 DEF TInv, KernelInv, Spawning, TablesInv, NewGroups
      <4> QED
        BY <1>1, <2>1, <2>3, <2>9, <4>1, <4>2 DEF Stages
    <3> QED
      BY <3>1, <3>2, <3>3, <3>4 DEF Stages
  <2> QED
    BY <2>2, <2>6, <2>11, <2>12 DEF PipesInv
<1> QED
  BY <1>2, <1>3

------------------------------------------------------------------------------
(* The theorems.                                                             *)

LEMMA CleanupPipes ==
  ASSUME Base, PipesInv, Rollback \/ Interrupt
  PROVE  PipesInv'
<1>1. mpc' \notin Live /\ mpc' \notin Looping
  BY DEF Rollback, Interrupt, Live, Looping
<1>2. KernelOrder'
  <2>1. tracee' = KillAll(UNION {Group(procs[i].tid) : i \in InUse(procs)}, "killed")
    BY DEF Rollback, Interrupt, Cleanup
  <2> QED
    BY <2>1, KillMoves DEF Base, TInv, PipesInv
<1> QED
  BY <1>1, <1>2 DEF PipesInv

LEMMA PipesInit == Init => PipesInv
<1> SUFFICES ASSUME Init PROVE PipesInv
  OBVIOUS
<1>1. KernelOrder
  BY DEF Init, KernelInit, KernelOrder, Ordered, Born, NotBorn, MadeCalls
<1>2. /\ DOMAIN procs = 1 .. InitSlots
      /\ \A i \in DOMAIN procs : IF i = 1 THEN /\ procs[i].status = "ALLOCATED" /\ procs[i].tid = First
                                               /\ procs[i].tg = First /\ procs[i].call = "none"
                                 ELSE procs[i] = FreeSlot
  BY DEF Init, FreeSlot
<1>3. SlotsInOrder
  BY <1>2, FirstAssumption, TidsAssumption DEF SlotsInOrder, SlotInOrder, FreeSlot, MadeCalls, NoGroup, NoTid
<1>4. \A t \in Tids : workers[t].pc = "none" /\ toWorker[t] = <<>> /\ toTracer[t] = <<>>
  BY DEF Init, NoWorker
<1>5. Listed = {}
  BY DEF Init, Listed
<1>6. Pipes
  BY <1>4, <1>5 DEF Pipes, PipesOf, Busy, InHand, Pointed
<1>7. \A t \in Tids : tracee[t].st # "gone" /\ ~ Spawning(t)
  BY DEF Init, KernelInit, Born, NotBorn, Spawning
<1>8. tracee[First].st = "stopped"
  BY FirstAssumption DEF Init, KernelInit, Born, NotBorn
<1>9. \A i \in InUse(procs) : procs[i].tid = First /\ procs[i].status = "ALLOCATED"
  BY <1>2 DEF InUse, FreeSlot
<1>10. Stages
  BY <1>4, <1>5, <1>7, <1>8, <1>9, FirstAssumption DEF Stages
<1> QED
  BY <1>1, <1>3, <1>6, <1>10 DEF PipesInv

LEMMA PipesStep == NoExecInThreads /\ Base /\ PipesInv /\ [Next]_vars => PipesInv'
<1> SUFFICES ASSUME NoExecInThreads, Base, PipesInv, [Next]_vars PROVE PipesInv'
  OBVIOUS
<1>1. ASSUME NEW t \in Tids, WaitStep(t) PROVE PipesInv'
  BY <1>1, ExitWithoutWorkerPipes, ExitPipes, AppearsPipes, AttachedPipes, SyscallStopPipes,
     ExecPipes, ForkPipes, SignalPipes DEF WaitStep, Base
<1>2. CASE MainStep
  BY <1>1, <1>2, PlacePipes, ServePipes, CleanupPipes DEF MainStep
<1>3. ASSUME NEW t \in Tids, WorkerStep(t) PROVE PipesInv'
  BY <1>3, WorkerPipes DEF Base
<1>4. ASSUME NEW t \in Tids, TraceeStep(t) PROVE PipesInv'
  <2>1. KernelInv' /\ KernelOrder' /\ KernelMove
    BY <1>4, KernelInvStep, KernelMoves DEF TraceeStep, Base, TInv, PipesInv
  <2> QED
    BY <1>4, <2>1, TraceePipes DEF TraceeStep, Base
<1>5. CASE UNCHANGED vars
  <2>1. UNCHANGED <<tracee, procs, list, workers, toWorker, toTracer, mpc>>
    BY <1>5 DEF vars, kernelVars, tracerVars
  <2>2. CASE mpc \in Live
    BY <2>1, <2>2, MainStands
  <2>3. CASE mpc \notin Live
    BY <2>1, <2>3 DEF PipesInv, KernelOrder, Live, Looping
  <2> QED
    BY <2>2, <2>3
<1> QED
  BY <1>2, <1>3, <1>4, <1>5, CleanupPipes DEF Next, Stops

LEMMA PipesAlways == NoExecInThreads => (Spec => [](Base /\ PipesInv))
<1> SUFFICES ASSUME NoExecInThreads PROVE Spec => [](Base /\ PipesInv)
  OBVIOUS
<1>1. Init => Base /\ PipesInv
  BY TInvInit, VInvInit, TablesInit, PipesInit DEF Base
<1>2. Base /\ PipesInv /\ [Next]_vars => (Base /\ PipesInv)'
  BY TInvStep, VInvStep, TablesStep, PipesStep DEF Base
<1> QED
  BY <1>1, <1>2, PTL DEF Spec

\* The words of a pipe that holds one or two of them.
LEMMA WordsOf ==
  ASSUME WellTyped, NEW t \in Tids
  PROVE  /\ toWorker[t] = <<>> => Words(t) = <<>>
         /\ \A w : One(toWorker[t], w) => Words(t) = <<w>>
         /\ Two(toWorker[t]) => Words(t) = <<"res", "ptr">>
<1>1. toWorker[t] \in Seq(Word)
  BY DEF WellTyped
<1> DEFINE q == toWorker[t]
<1>2. DOMAIN q = 1 .. Len(q) /\ Len(q) \in Nat
  BY <1>1
<1>3. ASSUME q = <<>> PROVE Words(t) = <<>>
  BY <1>3 DEF Words
<1>4. ASSUME NEW w, One(q, w) PROVE Words(t) = <<w>>
  <2>1. DOMAIN q = {1} /\ q[1].word = w
    BY <1>2, <1>4 DEF One
  <2> HIDE DEF q
  <2>2. Words(t) = [n \in {1} |-> w]
    BY <2>1 DEF Words, q
  <2>3. <<w>> = [n \in {1} |-> w]
    OBVIOUS
  <2> QED
    BY <2>2, <2>3
<1>5. ASSUME Two(q) PROVE Words(t) = <<"res", "ptr">>
  <2>1. DOMAIN q = {1, 2} /\ q[1].word = "res" /\ q[2].word = "ptr"
    BY <1>2, <1>5 DEF Two
  <2> HIDE DEF q
  <2>2. Words(t) = [n \in {1, 2} |-> IF n = 1 THEN "res" ELSE "ptr"]
    BY <2>1 DEF Words, q
  <2>3. <<"res", "ptr">> = [n \in {1, 2} |-> IF n = 1 THEN "res" ELSE "ptr"]
    OBVIOUS
  <2> QED
    BY <2>2, <2>3
<1> QED
  BY <1>3, <1>4, <1>5

\* What syscall_handle() reads next is of the kind it expects, though one pipe
\* carries both kinds untyped: a struct Process* when the worker is idle, the
\* answer to its request when it made one, and never two stops of one tracee.
THEOREM PipesStayTyped == NoExecInThreads => (Spec => []PipesTyped)
<1> SUFFICES ASSUME NoExecInThreads PROVE Spec => []PipesTyped
  OBVIOUS
<1>1. ASSUME Base, PipesInv PROVE PipesTyped
  <2> SUFFICES ASSUME mpc \in Live, NEW t \in Tids
               PROVE  CASE workers[t].pc \in {"none", "idle"} ->
                             toTracer[t] = <<>> /\ Words(t) \in {<<>>, <<"ptr">>}
                        [] workers[t].pc = "peek" ->
                             Len(toTracer[t]) + Len(toWorker[t]) <= 1 /\ Words(t) \in {<<>>, <<"res">>}
                        [] workers[t].pc = "resume" ->
                             IF toTracer[t] = <<>> THEN Words(t) \in {<<>>, <<"res">>, <<"res", "ptr">>}
                             ELSE Len(toTracer[t]) = 1 /\ Words(t) = <<>>
                        [] OTHER -> toTracer[t] = <<>> /\ Words(t) = <<>>
    BY DEF PipesTyped
  <2>1. PipesOf(workers[t].pc, toWorker[t], toTracer[t])
    BY <1>1 DEF PipesInv, Pipes
  <2>2. /\ toWorker[t] = <<>> => Words(t) = <<>>
        /\ \A w : One(toWorker[t], w) => Words(t) = <<w>>
        /\ Two(toWorker[t]) => Words(t) = <<"res", "ptr">>
    BY <1>1, WordsOf DEF Base, TInv
  <2>3. workers[t].pc \in {"none", "idle", "peek", "resume", "exited"}
    BY <1>1 DEF Base, TInv, WellTyped, Worker
  <2>4. /\ toTracer[t] = <<>> => Len(toTracer[t]) = 0
        /\ toWorker[t] = <<>> => Len(toWorker[t]) = 0
        /\ \A w : One(toWorker[t], w) => Len(toWorker[t]) = 1
    BY DEF One
  <2>5. CASE workers[t].pc \in {"none", "idle", "exited"}
    BY <2>1, <2>2, <2>5 DEF PipesOf
  <2>6. CASE workers[t].pc = "peek"
    <3>1. \/ toTracer[t] = <<>> /\ One(toWorker[t], "res")
          \/ Len(toTracer[t]) = 1 /\ toWorker[t] = <<>>
      BY <2>1, <2>6 DEF PipesOf
    <3>2. Len(toTracer[t]) + Len(toWorker[t]) <= 1
      <4>1. \/ Len(toTracer[t]) = 0 /\ Len(toWorker[t]) = 1
            \/ Len(toTracer[t]) = 1 /\ Len(toWorker[t]) = 0
        BY <2>4, <3>1
      <4>2. \A a, b \in {0, 1} : a = 0 \/ b = 0 => a + b <= 1
        OBVIOUS
      <4> QED
        BY <4>1, <4>2
    <3>3. Words(t) \in {<<>>, <<"res">>}
      BY <2>2, <3>1
    <3> QED
      BY <2>6, <3>2, <3>3
  <2>7. CASE workers[t].pc = "resume"
    BY <2>1, <2>2, <2>7 DEF PipesOf
  <2> QED
    BY <2>3, <2>5, <2>6, <2>7
<1> QED
  BY <1>1, PipesAlways, PTL

==============================================================================
