---------------------------- MODULE TracerStops ----------------------------
(***************************************************************************)
(* Which stop of a tracee is in the hands of its worker, and what each     *)
(* tracee does meanwhile, in programs without threads: there a thread      *)
(* group is one process, and a tracee dies by its own exit unless it is    *)
(* killed.                                                                 *)
(***************************************************************************)
EXTENDS TracerPipes

Threadless == "clone" \notin Calls
SelfExits  == Threadless /\ "kill" \notin Faults

\* Nothing killed a tracee in the middle of what it did.
Harmed == \E t \in Tids : tracee[t].ret = "killed"
Unhurt == "kill" \notin Faults \/ ~ Harmed

LEMMA ThreadlessSafe == Threadless => NoExecInThreads
BY DEF Threadless, NoExecInThreads

LEMMA SelfExitsNoThreads == SelfExits => NoExecInThreads /\ Threadless /\ Unhurt
BY ThreadlessSafe DEF SelfExits, Unhurt

------------------------------------------------------------------------------
(* The order of a tracee's stops.                                            *)

\* Each event stops a tracee at its place in a call.
Orderly(k) ==
    /\ k.ev = "sysin" => k.at = "call"
    /\ k.ev \in {"sysout", "sigstop"} => k.at = "user"
    /\ k.ev \in {"spawn", "exec"} => k.at = "return"
    /\ k.ev = "signal" => k.at = "sig"
    /\ k.ev = "spawn" => k.call = "fork"
    /\ k.at = "return" => k.call \in {"fork", "execve"}
    /\ k.st # "execwait"
    /\ k.st = "dead" => k.ret = "killed" \/ (k.ret = "exited" /\ k.at = "call")
    /\ k.ret = "killed" => k.st \in {"dead", "gone"}
CallOrder == \A t \in Tids : Orderly(tracee[t])

\* The step of a tracee that runs.
Moved(k, s) ==
    /\ s \in Tracee /\ s.grp = k.grp
    /\ \/ /\ k.at = "user" /\ s.at = "call" /\ s.ret = k.ret
          /\ s.st = "stopped" /\ s.ev = "sysin"
       \/ /\ k.at \in {"call", "return"} /\ s.at = "user" /\ s.call = k.call
          /\ s.st = "stopped" /\ s.ev = "sysout" /\ s.ret \in {"ok", "error", "efault"}
       \/ /\ k.at = "call" /\ s.at = "return" /\ s.call = k.call /\ s.ret = k.ret
          /\ s.st = "stopped" /\ \/ s.ev = "exec" /\ k.call = "execve"
                                 \/ s.ev = "spawn" /\ k.call = "fork"
       \/ /\ s.at = k.at /\ s.call = k.call /\ s.st = "dead" /\ s.ev = "exit"
          /\ \/ k.at = "call" /\ s.ret = "exited"
             \/ k.at = "sig" /\ s.ret = "killed"
       \/ /\ k.at = "user" /\ s.at = "sig" /\ s.call = k.call /\ s.ret = k.ret
          /\ s.st = "stopped" /\ s.ev = "signal"
       \/ /\ k.at = "sig" /\ s.at = "user" /\ s.call = k.call /\ s.ret = k.ret
          /\ s.st = "running" /\ s.ev = "none"

\* A tracee's own steps move only that tracee, which was running, and the child
\* it makes.
TraceeMoves(t) ==
    /\ tracee[t].st = "running" /\ tracee[t].ev = "none"
    /\ Moved(tracee[t], tracee'[t])
    /\ \A u \in Tids : u # t => \/ tracee'[u] = tracee[u]
                                \/ /\ u \in Unborn /\ tracee'[u] = Born(u)
                                   /\ tracee'[t].ev = "spawn" /\ tracee'[t].child = u

LEMMA OneAlone ==
  ASSUME Threadless, KernelInv, KernelOrder, NEW t \in Tids, tracee[t].st # "unborn"
  PROVE  tracee[t].grp = t /\ Group(t) = {t}
<1>1. \A v \in Tids : tracee[v].grp \in {NoTid, v}
  BY DEF KernelOrder, Ordered, Threadless
<1>2. tracee[t].grp \in Tids
  BY DEF KernelInv
<1> QED
  BY <1>1, <1>2, TidsAssumption DEF Group, NoTid

LEMMA TraceeShapes ==
  ASSUME Threadless, KernelInv, KernelOrder, CallOrder, NEW t \in Tids, KernelStep(t), ~ Kill(t)
  PROVE  TraceeMoves(t)
<1>1. tracee \in [Tids -> Tracee] /\ tracee[t] \in Tracee /\ Ordered(t, tracee[t]) /\ Orderly(tracee[t])
  BY DEF KernelInv, KernelOrder, CallOrder
<1>2. ASSUME tracee[t].st = "running", NEW s, Moved(tracee[t], s), tracee' = [tracee EXCEPT ![t] = s]
      PROVE  TraceeMoves(t)
  BY <1>1, <1>2 DEF TraceeMoves, Ordered
<1>3. ASSUME tracee[t].st = "running", NEW why \in {"exited", "killed"},
             NEW ts \in {{t}, Group(t)}, tracee' = KillAll(ts, why),
             tracee[t].at = IF why = "exited" THEN "call" ELSE "sig"
      PROVE  TraceeMoves(t)
  <2>1. ts = {t} /\ Alive(t)
    BY <1>3, OneAlone DEF Alive
  <2>2. tracee' = [tracee EXCEPT ![t] = Dead(tracee[t], why)]
    BY <1>1, <1>3, <2>1 DEF KillAll
  <2>3. /\ Dead(tracee[t], why) \in Tracee
        /\ Dead(tracee[t], why).grp = tracee[t].grp /\ Dead(tracee[t], why).st = "dead"
        /\ Dead(tracee[t], why).ev = "exit" /\ Dead(tracee[t], why).at = tracee[t].at
        /\ Dead(tracee[t], why).call = tracee[t].call /\ Dead(tracee[t], why).ret = why
    BY <1>1 DEF Dead, Tracee, States, Events, Status
  <2>4. Moved(tracee[t], Dead(tracee[t], why))
    BY <1>3, <2>3 DEF Moved
  <2> QED
    BY <1>2, <1>3, <2>2, <2>4
<1>4. CASE EnterCall(t)
  <2>1. PICK c \in Calls \cup {"exit_group"} : tracee' = [tracee EXCEPT ![t] =
                    [Stopped(@, "sysin") EXCEPT !.at = "call", !.call = c]]
    BY <1>4 DEF EnterCall
  <2> DEFINE s == [Stopped(tracee[t], "sysin") EXCEPT !.at = "call", !.call = c]
  <2>2. c \in CallKinds \cup {"none", "exit_group"}
    BY CallsAssumption
  <2>3. /\ s \in Tracee /\ s.grp = tracee[t].grp /\ s.at = "call" /\ s.ret = tracee[t].ret
        /\ s.st = "stopped" /\ s.ev = "sysin"
    BY <1>1, <2>2 DEF Stopped, Tracee, States, Events
  <2>4. tracee[t].st = "running" /\ tracee[t].at = "user" /\ tracee' = [tracee EXCEPT ![t] = s]
    BY <1>4, <2>1 DEF EnterCall, Running
  <2> HIDE DEF s
  <2>5. Moved(tracee[t], s)
    BY <2>3, <2>4 DEF Moved
  <2> QED
    BY <1>2, <2>4, <2>5
<1>5. ASSUME NEW r \in {"ok", "error", "efault"}, ReturnWith(t, r), tracee[t].st = "running",
             tracee[t].at \in {"call", "return"}
      PROVE  TraceeMoves(t)
  <2> DEFINE s == [Stopped(tracee[t], "sysout") EXCEPT !.at = "user", !.ret = r]
  <2>1. /\ s \in Tracee /\ s.grp = tracee[t].grp /\ s.at = "user" /\ s.ret = r
        /\ s.call = tracee[t].call /\ s.st = "stopped" /\ s.ev = "sysout"
    BY <1>1 DEF Stopped, Tracee, States, Events, Status
  <2>2. tracee' = [tracee EXCEPT ![t] = s]
    BY <1>5 DEF ReturnWith
  <2> HIDE DEF s
  <2>3. Moved(tracee[t], s)
    BY <1>5, <2>1 DEF Moved
  <2> QED
    BY <1>2, <1>5, <2>2, <2>3
<1>6. CASE PathCallSucceeds(t) \/ CallFails(t) \/ FinishCall(t)
  BY <1>5, <1>6 DEF PathCallSucceeds, CallFails, FinishCall, Running
<1>7. CASE Spawn(t)
  <2> DEFINE g(c) == IF tracee[t].call = "fork" THEN c ELSE tracee[t].grp
             s(c) == [Stopped(tracee[t], "spawn") EXCEPT !.at = "return", !.child = c]
  <2>1. PICK c \in Unborn : tracee' = [tracee EXCEPT ![t] = s(c), ![c] = Born(g(c))]
    BY <1>7 DEF Spawn
  <2>2. /\ tracee[t].st = "running" /\ tracee[t].at = "call" /\ tracee[t].call = "fork"
    BY <1>1, <1>7 DEF Spawn, Running, Ordered, MadeCalls, Threadless
  <2>3. c \in Tids /\ c # t /\ g(c) = c
    BY <2>2 DEF Unborn
  <2>4. /\ s(c) \in Tracee /\ s(c).grp = tracee[t].grp /\ s(c).at = "return" /\ s(c).ret = tracee[t].ret
        /\ s(c).call = tracee[t].call /\ s(c).st = "stopped" /\ s(c).ev = "spawn" /\ s(c).child = c
    BY <1>1, <2>3 DEF Stopped, Tracee, States, Events
  <2> HIDE DEF s, g
  <2>5. /\ tracee'[t] = s(c) /\ tracee'[c] = Born(c)
        /\ \A u \in Tids : u # t /\ u # c => tracee'[u] = tracee[u]
    BY <1>1, <2>1, <2>3
  <2>6. Moved(tracee[t], s(c))
    BY <2>2, <2>4 DEF Moved
  <2> QED
    BY <1>1, <2>2, <2>4, <2>5, <2>6 DEF TraceeMoves, Ordered
<1>8. CASE ExecKills(t)
  BY <1>8, GroupOfOne, ThreadlessSafe DEF ExecKills, Running
<1>9. CASE Exec(t)
  <2> DEFINE s == [Stopped(tracee[t], "exec") EXCEPT !.at = "return"]
  <2>1. /\ tracee[t].st = "running" /\ tracee[t].at = "call" /\ tracee[t].call = "execve"
        /\ tracee[t].grp = t
    BY <1>1, <1>9, OneAlone DEF Exec, Orderly
  <2>2. tracee' = [tracee EXCEPT ![t] = s]
    BY <1>1, <1>9, <2>1 DEF Exec
  <2>3. /\ s \in Tracee /\ s.grp = tracee[t].grp /\ s.at = "return" /\ s.ret = tracee[t].ret
        /\ s.call = tracee[t].call /\ s.st = "stopped" /\ s.ev = "exec"
    BY <1>1 DEF Stopped, Tracee, States, Events
  <2> HIDE DEF s
  <2>4. Moved(tracee[t], s)
    BY <2>1, <2>3 DEF Moved
  <2> QED
    BY <1>2, <2>1, <2>2, <2>4
<1>10. CASE Exit(t)
  BY <1>3, <1>10 DEF Exit, Running
<1>11. CASE SignalStop(t)
  <2> DEFINE s == [Stopped(tracee[t], "signal") EXCEPT !.at = "sig"]
  <2>1. tracee[t].st = "running" /\ tracee[t].at = "user" /\ tracee' = [tracee EXCEPT ![t] = s]
    BY <1>11 DEF SignalStop, Running
  <2>2. /\ s \in Tracee /\ s.grp = tracee[t].grp /\ s.at = "sig" /\ s.ret = tracee[t].ret
        /\ s.call = tracee[t].call /\ s.st = "stopped" /\ s.ev = "signal"
    BY <1>1 DEF Stopped, Tracee, States, Events
  <2> HIDE DEF s
  <2>3. Moved(tracee[t], s)
    BY <2>1, <2>2 DEF Moved
  <2> QED
    BY <1>2, <2>1, <2>3
<1>12. CASE SignalDelivered(t)
  <2>1. tracee[t].st = "running" /\ tracee[t].at = "sig"
    BY <1>12 DEF SignalDelivered, Running
  <2>2. CASE tracee' = KillAll(Group(t), "killed")
    BY <1>3, <2>1, <2>2
  <2>3. CASE tracee' = [tracee EXCEPT ![t].at = "user"]
    <3> DEFINE s == [tracee[t] EXCEPT !.at = "user"]
    <3>1. /\ s \in Tracee /\ s.grp = tracee[t].grp /\ s.at = "user" /\ s.ret = tracee[t].ret
          /\ s.call = tracee[t].call /\ s.st = tracee[t].st /\ s.ev = tracee[t].ev
      BY <1>1 DEF Tracee
    <3>2. tracee[t].ev = "none" /\ tracee' = [tracee EXCEPT ![t] = s]
      BY <1>1, <2>1, <2>3 DEF Ordered
    <3> HIDE DEF s
    <3>3. Moved(tracee[t], s)
      BY <2>1, <3>1, <3>2 DEF Moved
    <3> QED
      BY <1>2, <2>1, <3>2, <3>3
  <2> QED
    BY <1>12, <2>2, <2>3 DEF SignalDelivered
<1> QED
  BY <1>4, <1>6, <1>7, <1>8, <1>9, <1>10, <1>11, <1>12 DEF KernelStep

------------------------------------------------------------------------------
(* Steps of the workers.                                                     *)

\* A worker touches its own pipes, and takes no stop in hand.
LEMMA WorkerTouches ==
  ASSUME TInv, PipesInv, NEW t \in Tids, WorkerStep(t)
  PROVE  /\ mpc \in Live /\ UNCHANGED <<kernelVars, list>>
         /\ \A u \in Tids : u # t => /\ workers'[u] = workers[u]
                                     /\ toWorker'[u] = toWorker[u] /\ toTracer'[u] = toTracer[u]
         /\ \A u \in Tids : Busy(u)' => Busy(u)
<1>0. /\ workers \in [Tids -> Worker] /\ toWorker \in [Tids -> Seq(Word)]
      /\ toTracer \in [Tids -> Seq(Request)] /\ toWorker[t] \in Seq(Word)
  BY DEF TInv, WellTyped
<1>1. ~ BadPointer(t)
  BY StopReceived DEF BadPointer, Receives
<1>2. mpc \in Live /\ UNCHANGED <<kernelVars, list>>
  BY <1>1 DEF WorkerStep, StopHandled, StopPeeks, PeekAgain, PathRead, InsertFails, Answered,
     Receives, pool
<1>3. \A u \in Tids : u # t => /\ workers'[u] = workers[u]
                               /\ toWorker'[u] = toWorker[u] /\ toTracer'[u] = toTracer[u]
  <2>1. ASSUME NEW i, NEW s, NEW tid, EndOfStop(t, i, s, tid)
        PROVE  \A u \in Tids : u # t => /\ workers'[u] = workers[u]
                               /\ toWorker'[u] = toWorker[u] /\ toTracer'[u] = toTracer[u]
    BY <1>0, <2>1 DEF EndOfStop, Ask
  <2>2. CASE StopHandled(t)
    BY <2>1, <2>2 DEF StopHandled
  <2>3. CASE StopPeeks(t) \/ PeekAgain(t)
    BY <1>0, <2>3 DEF StopPeeks, PeekAgain, Ask
  <2>4. CASE PathRead(t)
    <3>1. UNCHANGED <<workers, toWorker, toTracer>> \/ \E i, s, tid : EndOfStop(t, i, s, tid)
      BY <2>4 DEF PathRead, syscall_fileopening, syscall_chdir, syscall_execve_in, pipes
    <3> QED
      BY <2>1, <3>1
  <2>5. CASE InsertFails(t) \/ Answered(t)
    BY <1>0, <2>5 DEF InsertFails, Answered
  <2> QED
    BY <1>1, <2>2, <2>3, <2>4, <2>5 DEF WorkerStep
<1>4. Busy(t)' => Busy(t)
  <2>1. CASE Receives(t, "idle") \/ Receives(t, "peek")
    BY <2>1, StopReceived
  <2>2. CASE Answered(t)
    <3>1. /\ toWorker[t] # <<>> /\ workers'[t] = [NoWorker EXCEPT !.pc = "idle"]
          /\ toWorker'[t] = Tail(toWorker[t])
      BY <1>0, <2>2 DEF Answered, Receives
    <3>2. workers'[t].pc = "idle"
      BY <3>1 DEF NoWorker
    <3>3. \A n \in DOMAIN toWorker'[t] : n + 1 \in DOMAIN toWorker[t] /\ toWorker'[t][n] = toWorker[t][n + 1]
      BY <1>0, <3>1
    <3> QED
      BY <3>2, <3>3 DEF Busy, InHand, Pointed
  <2> QED
    BY <1>1, <2>1, <2>2 DEF WorkerStep, StopHandled, StopPeeks, PeekAgain, PathRead, InsertFails
<1>5. \A u \in Tids : u # t => (Busy(u)' <=> Busy(u))
  BY <1>3 DEF Busy, InHand, Pointed
<1> QED
  BY <1>2, <1>3, <1>4, <1>5

LEMMA BusyWith == \A u \in Tids : workers'[u] = workers[u] /\ toWorker'[u] = toWorker[u] /\ toTracer'[u] = toTracer[u]
                                    => (Busy(u)' <=> Busy(u))
BY DEF Busy, InHand, Pointed

\* A request is answered: the tracee of the worker that asked for it is resumed
\* if that was the request and it is stopped.
LEMMA Served ==
  ASSUME Base, PipesInv, Serve
  PROVE  \E w \in Tids :
           /\ mpc = "serve" /\ mpc' \in Looping
           /\ w \in Listed /\ workers[w].pc \in {"peek", "resume"}
           /\ toTracer[w] # <<>> /\ toWorker[w] = <<>>
           /\ toTracer'[w] = <<>> /\ One(toWorker'[w], "res")
           /\ \A u \in Tids : u # w => toTracer'[u] = toTracer[u] /\ toWorker'[u] = toWorker[u]
           /\ tracee' = IF workers[w].pc = "resume" /\ tracee[w].st = "stopped"
                        THEN [tracee EXCEPT ![w] = Resumed(@)] ELSE tracee
           /\ UNCHANGED <<cwd, did, left, procs, groups, list, exit_status, workers, dbProcs, dbRows>>
           /\ \A u \in Tids : Pointed(u)' <=> Pointed(u)
<1> USE DEF Base
<1> DEFINE n == Minimum(todo)
           ready == pollfds[n]
           q == toTracer[ready]
           r == Head(q)
<1>0. /\ mpc = "serve" /\ KernelOrder /\ SlotsInOrder /\ Pipes /\ Stages
      /\ mpc' \in Looping
  BY DEF Serve, PipesInv, Live, Looping
<1>1. n \in DOMAIN list /\ list[n] = ready /\ q # <<>>
  <2>1. todo # {} /\ todo \subseteq Nat
    BY <1>0 DEF TInv, WellTyped, ServeInv
  <2>2. n \in todo
    BY <2>1, MinimumExists
  <2> HIDE DEF n
  <2> QED
    BY <1>0, <2>2 DEF TInv, ServeInv, VInv, VectorsAligned
<1>2. PICK w \in Tids : w = ready /\ w \in Listed /\ q = toTracer[w]
  BY <1>1, ListedTids DEF Listed
<1> HIDE DEF n
<1>3. /\ toTracer' = [toTracer EXCEPT ![w] = Tail(@)]
      /\ tracee' = IF r.req = "syscall" /\ Granted(r)
                   THEN [tracee EXCEPT ![r.tid] = Resumed(@)] ELSE tracee
      /\ toWorker' = IF FindTid(list, r.tid) = 0 THEN toWorker
                     ELSE [toWorker EXCEPT ![r.tid] = Append(@, Result(Granted(r)))]
      /\ UNCHANGED <<cwd, did, left, procs, groups, list, exit_status, workers, dbProcs, dbRows>>
  BY <1>2 DEF Serve, tables, pool, db, n
<1> HIDE DEF ready
<1>4. /\ q \in Seq(Request) /\ toWorker \in [Tids -> Seq(Word)] /\ toTracer \in [Tids -> Seq(Request)]
      /\ workers[w].pc \in {"none", "idle", "peek", "resume", "exited"}
  BY <1>2 DEF TInv, WellTyped, Worker
<1>5. PipesOf(workers[w].pc, toWorker[w], q) /\ Owns(w)
  BY <1>0, <1>2 DEF Pipes
<1>6. Len(q) = 1 /\ toWorker[w] = <<>> /\ workers[w].pc \in {"peek", "resume"}
  BY <1>1, <1>4, <1>5 DEF PipesOf
<1>7. r = q[1] /\ Tail(q) = <<>> /\ 1 \in DOMAIN q
  BY <1>4, <1>6, OneElement
<1>8. r.tid = w /\ (r.req = "syscall" <=> workers[w].pc = "resume")
  BY <1>2, <1>5, <1>7 DEF Owns
<1>9. FindTid(list, w) # 0
  BY <1>2, FindTidFinds, TidsAssumption DEF VInv, NoTid, Listed
<1> DEFINE res == Result(Granted(r))
<1>10. res \in Word /\ res.word = "res"
  BY DEF Result, Word
<1>11. /\ toTracer'[w] = <<>> /\ toWorker'[w] = Append(<<>>, res)
       /\ \A u \in Tids : u # w => toTracer'[u] = toTracer[u] /\ toWorker'[u] = toWorker[u]
  BY <1>2, <1>3, <1>4, <1>6, <1>7, <1>8, <1>9
<1>12. tracee' = IF workers[w].pc = "resume" /\ tracee[w].st = "stopped"
                 THEN [tracee EXCEPT ![w] = Resumed(@)] ELSE tracee
  <2>1. workers[w].pc = "resume" => (Granted(r) <=> tracee[w].st = "stopped")
    BY <1>2, <1>8 DEF Granted
  <2> QED
    BY <1>3, <1>8, <2>1
<1> HIDE DEF res, r
<1>13. One(toWorker'[w], "res") /\ DOMAIN toWorker'[w] = {1} /\ toWorker'[w][1] = res
  <2>1. toWorker'[w] = <<res>>
    BY <1>11
  <2> QED
    BY <1>10, <2>1 DEF One
<1>14. ASSUME NEW u \in Tids PROVE Pointed(u)' <=> Pointed(u)
  <2>1. CASE u = w
    BY <1>6, <1>10, <1>13, <2>1 DEF Pointed
  <2>2. CASE u # w
    BY <1>11, <2>2 DEF Pointed
  <2> QED
    BY <2>1, <2>2
<1>15. q = toTracer[w] /\ q # <<>>
  BY <1>1, <1>2
<1> HIDE DEF q
<1> QED
  BY <1>0, <1>2, <1>3, <1>6, <1>11, <1>12, <1>13, <1>14, <1>15

------------------------------------------------------------------------------
(* What the steps do to the tracees.                                        *)

\* What the tracer does to a tracee: it reaps it, runs it, both, or kills it.
Treated(k) == {k, Reaped(k), Resumed(k), Resumed(Reaped(k))}
Touched(k) == Treated(k) \cup {Dead(k, "killed")}

LEMMA TouchedOrder ==
  ASSUME NEW t \in Tids, NEW k \in Tracee, Orderly(k), Ordered(t, k), NEW s \in Touched(k)
  PROVE  Orderly(s) /\ (k.ret = "killed" => s.ret = "killed")
<1>1. Orderly(Reaped(k)) /\ Reaped(k).ret = k.ret
  BY DEF Reaped, Orderly, Ordered, Tracee
<1>2. Orderly(Resumed(k)) /\ Resumed(k).ret = k.ret
  BY DEF Resumed, Orderly, Ordered, Tracee
<1>3. Orderly(Resumed(Reaped(k))) /\ Resumed(Reaped(k)).ret = k.ret
  <2>1. Reaped(k) \in Tracee /\ Ordered(t, Reaped(k))
    BY ReapedOrdered
  <2> HIDE DEF Touched, Treated
  <2> QED
    BY <1>1, <2>1 DEF Resumed, Orderly, Ordered, Tracee
<1>4. Orderly(Dead(k, "killed")) /\ Dead(k, "killed").ret = "killed"
  <2>1. /\ Dead(k, "killed").ret = "killed" /\ Dead(k, "killed").st = "dead"
        /\ Dead(k, "killed").ev = "exit" /\ Dead(k, "killed").at = k.at
        /\ Dead(k, "killed").call = k.call
    BY DEF Dead, Tracee
  <2> QED
    BY <2>1 DEF Orderly
<1> QED
  BY <1>1, <1>2, <1>3, <1>4 DEF Touched, Treated

LEMMA TracerTreats ==
  ASSUME Base, PipesInv, MainStep \/ (\E t \in Tids : WorkerStep(t)) \/ UNCHANGED vars, ~ Rollback
  PROVE  \A u \in Tids : tracee'[u] \in Treated(tracee[u])
<1> DEFINE All == \A u \in Tids : tracee'[u] \in Treated(tracee[u])
<1> SUFFICES All
  OBVIOUS
<1>0. tracee \in [Tids -> Tracee]
  BY DEF Base, TInv, KernelInv
<1>1. ASSUME UNCHANGED tracee PROVE All
  BY <1>1 DEF Treated
<1>2. ASSUME NEW t \in Tids, \/ tracee' = [tracee EXCEPT ![t] = Reaped(@)]
                             \/ tracee' = [tracee EXCEPT ![t] = Resumed(@)]
                             \/ tracee' = [tracee EXCEPT ![t] = Resumed(Reaped(@))]
      PROVE  All
  BY <1>0, <1>2 DEF Treated
<1> HIDE DEF All
<1>4. ASSUME NEW t \in Tids, WaitStep(t) PROVE All
  <2>1. CASE ForkEvent(t)
    <3>1. CASE UNCHANGED <<tracee, tables>>
      BY <1>1, <3>1
    <3>2. CASE ~ UNCHANGED <<tracee, tables>>
      <4>1. PICK c \in Tids, j \in DOMAIN procs' : ForkTakes(t, c, j)
        BY <2>1, <3>2, ForkWrites
      <4> QED
        BY <4>1 DEF ForkTakes, Treated, All
    <3> QED
      BY <3>1, <3>2
  <2>2. CASE \/ ExitWithoutWorker(t) \/ ExitReported(t) \/ Appears(t) \/ Attached(t)
             \/ SyscallStop(t) \/ ExecEvent(t) \/ SignalForwarded(t)
    <3>1. \/ tracee' = [tracee EXCEPT ![t] = Reaped(@)]
          \/ tracee' = [tracee EXCEPT ![t] = Resumed(Reaped(@))]
          \/ UNCHANGED tracee
      BY <2>2 DEF ExitWithoutWorker, ExitReported, Appears, Attached, SyscallStop, ExecEvent,
         SignalForwarded
    <3> QED
      BY <1>1, <1>2, <3>1
  <2> QED
    BY <1>4, <2>1, <2>2 DEF WaitStep
<1>5. CASE Serve
  <2>1. PICK w \in Tids : tracee' = IF workers[w].pc = "resume" /\ tracee[w].st = "stopped"
                        THEN [tracee EXCEPT ![w] = Resumed(@)] ELSE tracee
    BY <1>5, Served
  <2> QED
    BY <1>1, <1>2, <2>1
<1>6. CASE WaitNothing \/ WaitFails \/ Poll \/ Commit \/ UNCHANGED vars
  BY <1>1, <1>6 DEF WaitNothing, WaitFails, Poll, Commit, kernelVars, vars
<1>7. ASSUME NEW t \in Tids, WorkerStep(t) PROVE All
  BY <1>1, <1>7, WorkerTouches DEF Base, kernelVars
<1> QED
  BY <1>4, <1>5, <1>6, <1>7 DEF MainStep

LEMMA TracerTouches ==
  ASSUME Base, PipesInv, MainStep \/ Interrupt \/ (\E t \in Tids : WorkerStep(t)) \/ UNCHANGED vars
  PROVE  \A u \in Tids : tracee'[u] \in Touched(tracee[u])
<1>1. CASE Rollback \/ Interrupt
  <2>1. PICK ts : tracee' = KillAll(ts, "killed")
    BY <1>1 DEF Rollback, Interrupt, Cleanup
  <2> QED
    BY <2>1 DEF Touched, Treated, KillAll
<1> QED
  BY <1>1, TracerTreats DEF Touched

LEMMA MovedOrder ==
  ASSUME NEW k \in Tracee, NEW s, Moved(k, s), Orderly(k), k.st = "running"
  PROVE  Orderly(s) /\ k.ret # "killed"
<1>1. k.ret # "killed"
  BY DEF Orderly
<1>2. Orderly(s)
  BY <1>1 DEF Moved, Orderly
<1> QED
  BY <1>1, <1>2

\* The order of the stops is kept, and what was killed stays so.
LEMMA CallOrderStep ==
  ASSUME Threadless, Base, PipesInv, CallOrder, [Next]_vars
  PROVE  CallOrder' /\ (Harmed => Harmed')
<1>0. /\ tracee \in [Tids -> Tracee] /\ KernelInv /\ KernelOrder
      /\ \A u \in Tids : tracee[u] \in Tracee /\ Ordered(u, tracee[u]) /\ Orderly(tracee[u])
  BY DEF Base, TInv, KernelInv, PipesInv, KernelOrder, CallOrder
<1>1. ASSUME \A u \in Tids : tracee'[u] \in Touched(tracee[u]) PROVE CallOrder' /\ (Harmed => Harmed')
  <2>1. \A u \in Tids : Orderly(tracee'[u]) /\ (tracee[u].ret = "killed" => tracee'[u].ret = "killed")
    BY <1>0, <1>1, TouchedOrder
  <2> QED
    BY <2>1 DEF CallOrder, Harmed
<1>2. ASSUME NEW t \in Tids, KernelStep(t) PROVE CallOrder' /\ (Harmed => Harmed')
  <2>1. CASE Kill(t)
    <3>1. tracee' = KillAll(Group(t), "killed")
      BY <2>1 DEF Kill
    <3>2. \A u \in Tids : tracee'[u] \in Touched(tracee[u])
      BY <1>0, <3>1 DEF Touched, Treated, KillAll
    <3> QED
      BY <1>1, <3>2
  <2>2. CASE ~ Kill(t)
    <3>1. TraceeMoves(t)
      BY <1>0, <1>2, <2>2, TraceeShapes DEF CallOrder
    <3>2. Orderly(tracee'[t]) /\ tracee[t].ret # "killed"
      BY <1>0, <3>1, MovedOrder DEF TraceeMoves
    <3>3. \A u \in Tids : u # t => \/ tracee'[u] = tracee[u]
                                   \/ tracee[u].st = "unborn" /\ tracee'[u] = Born(u)
      BY <3>1 DEF TraceeMoves, Unborn
    <3>4. \A u \in Tids : Orderly(Born(u))
      BY DEF Born, NotBorn, Orderly
    <3>5. \A u \in Tids : tracee[u].ret = "killed" => tracee'[u] = tracee[u]
      BY <1>0, <3>2, <3>3 DEF Orderly
    <3> QED
      BY <1>0, <3>2, <3>3, <3>4, <3>5 DEF CallOrder, Harmed
  <2> QED
    BY <2>1, <2>2
<1> QED
  BY <1>1, <1>2, TracerTouches DEF Next, TraceeStep, Stops

LEMMA CallOrderAlways == Threadless => (Spec => [](Base /\ PipesInv /\ CallOrder))
<1> SUFFICES ASSUME Threadless PROVE Spec => [](Base /\ PipesInv /\ CallOrder)
  OBVIOUS
<1>1. Init => CallOrder
  BY DEF Init, KernelInit, CallOrder, Orderly, Born, NotBorn
<1>2. Base /\ PipesInv /\ CallOrder /\ [Next]_vars => CallOrder'
  BY CallOrderStep
<1>3. Spec => [](Base /\ PipesInv)
  BY PipesAlways, ThreadlessSafe
<1> QED
  BY <1>1, <1>2, <1>3, PTL DEF Spec

------------------------------------------------------------------------------
(* A worker's stop is that of a tracee that is still stopped.                *)

\* A stop in a worker's hands is that of a tracee which is still stopped.
StillStopped == mpc \in Live => \A t \in Tids : Busy(t) => tracee[t].st = "stopped" /\ t \in Listed

\* A tracee that is stopped stays so until the tracer runs it, or it is killed.
LEMMA NoKill ==
  ASSUME KernelInv, NEW t \in Tids, Unhurt'
  PROVE  ~ Kill(t)
<1> SUFFICES ASSUME Kill(t) PROVE FALSE
  OBVIOUS
<1>1. tracee'[t] = Dead(tracee[t], "killed") /\ "kill" \in Faults
  <2>1. tracee' = KillAll(Group(t), "killed") /\ Alive(t) /\ t \in Group(t) /\ "kill" \in Faults
    BY DEF Kill, Group
  <2> QED
    BY <2>1 DEF KillAll
<1>2. Dead(tracee[t], "killed").ret = "killed"
  BY DEF Dead, KernelInv, Tracee
<1> QED
  BY <1>1, <1>2 DEF Unhurt, Harmed

LEMMA StoppedStays ==
  ASSUME Threadless, KernelInv, KernelOrder, CallOrder, NEW t \in Tids, KernelStep(t), Unhurt',
         NEW u \in Tids, tracee[u].st = "stopped"
  PROVE  tracee'[u] = tracee[u]
<1>1. TraceeMoves(t)
  BY TraceeShapes, NoKill
<1> QED
  BY <1>1 DEF TraceeMoves, Unborn

\* A stop that is not handed to a worker.
LEMMA StopAloneStill ==
  ASSUME TInv, PipesInv, StillStopped, NEW t \in Tids, Waited(t), Event(t) # "exit",
         UNCHANGED <<list, workers, toWorker, toTracer>>,
         \A u \in Tids : u # t /\ Busy(u) => tracee'[u] = tracee[u]
  PROVE  StillStopped'
<1>1. mpc = "wait" /\ ~ Busy(t)
  BY StopTaken
<1>2. Listed' = Listed /\ \A u \in Tids : Busy(u)' <=> Busy(u)
  BY BusyWith DEF Listed
<1> QED
  BY <1>1, <1>2 DEF StillStopped, Live, Looping

LEMMA ExitStill ==
  ASSUME Base, PipesInv, StillStopped, NEW t \in Tids, ExitReported(t)
  PROVE  StillStopped'
<1>1. /\ mpc = "wait" /\ tracee[t].ev = "exit" /\ UNCHANGED <<workers, toWorker, toTracer>>
      /\ tracee' = [tracee EXCEPT ![t] = Reaped(@)]
  BY DEF ExitReported, Waited, Event, pipes
<1>2. tracee[t].st = "dead"
  BY <1>1 DEF PipesInv, KernelOrder, Ordered
<1>3. ~ Busy(t)
  BY <1>1, <1>2 DEF StillStopped, Live, Looping
<1>4. Listed' = Listed \ {t}
  BY ListedAfterExit DEF ExitReported, Base
<1>5. \A u \in Tids : Busy(u)' <=> Busy(u)
  BY <1>1, BusyWith
<1>6. \A u \in Tids : u # t => tracee'[u] = tracee[u]
  BY <1>1 DEF Base, TInv, KernelInv
<1> QED
  BY <1>1, <1>3, <1>4, <1>5, <1>6 DEF StillStopped, Live, Looping

LEMMA ForkStill ==
  ASSUME Base, PipesInv, StillStopped, NEW t \in Tids, ForkEvent(t)
  PROVE  StillStopped'
<1>1. /\ Stop(t, {"spawn"}) /\ UNCHANGED <<list, workers, toWorker, toTracer>>
  BY DEF ForkEvent, pool, pipes
<1>2. Waited(t) /\ Event(t) # "exit"
  BY <1>1, StopSlot
<1>3. ASSUME NEW u \in Tids, u # t, Busy(u) PROVE tracee'[u] = tracee[u]
  <2>1. CASE UNCHANGED <<tracee, tables>>
    BY <2>1
  <2>2. CASE ~ UNCHANGED <<tracee, tables>>
    <3>1. PICK c \in Tids, j \in DOMAIN procs' : ForkTakes(t, c, j)
      BY <2>2, ForkWrites
    <3>2. mpc = "wait" /\ Stages
      BY <1>2, StopTaken DEF Base
    <3>3. u \in Listed
      BY <1>3, <3>2 DEF StillStopped, Live, Looping
    <3>4. PICK m \in DOMAIN procs : procs[m].status = "ATTACHED" /\ procs[m].tid = u
      BY <3>2, <3>3 DEF Stages
    <3>5. \A k \in Found(procs, u) : procs[k].status = "ATTACHED"
      BY <3>4 DEF Base, TablesInv, UniqueTids, Found, InUse
    <3>6. Found(procs, u) # {}
      BY <3>4 DEF Found, InUse
    <3>7. u # c
      BY <3>1, <3>5, <3>6 DEF ForkTakes
    <3> QED
      BY <1>3, <3>1, <3>7 DEF ForkTakes
  <2> QED
    BY <2>1, <2>2
<1> QED
  BY <1>1, <1>2, <1>3, StopAloneStill DEF Base

LEMMA SyscallStopStill ==
  ASSUME Base, PipesInv, StillStopped, NEW t \in Tids, SyscallStop(t)
  PROVE  StillStopped'
<1>1. /\ Stop(t, {"sysin", "sysout"}) /\ UNCHANGED toTracer
      /\ tracee' = [tracee EXCEPT ![t] = Reaped(@)]
      /\ \/ FindTid(list, t) = 0 /\ list' = Append(list, t)
         \/ FindTid(list, t) # 0 /\ list' = list
      /\ \A u \in Tids : u # t => workers'[u] = workers[u] /\ toWorker'[u] = toWorker[u]
  BY DEF SyscallStop, Base, TInv, WellTyped
<1>2. Waited(t) /\ Event(t) # "exit"
  BY <1>1, StopSlot
<1>3. mpc = "wait" /\ Waits(Reaped(tracee[t]))
  BY <1>2, StopTaken DEF Base
<1>4. tracee'[t].st = "stopped" /\ \A u \in Tids : u # t => tracee'[u] = tracee[u]
  BY <1>1, <1>3 DEF Waits, Base, TInv, KernelInv
<1>5. t \in Listed' /\ Listed \subseteq Listed'
  <2>1. CASE FindTid(list, t) = 0 /\ list' = Append(list, t)
    <3>1. /\ \A n \in DOMAIN list : n \in DOMAIN list' /\ list'[n] = list[n]
          /\ Len(list) + 1 \in DOMAIN list' /\ list'[Len(list) + 1] = t
      BY <2>1 DEF Base, VInv
    <3> QED
      BY <3>1 DEF Listed
  <2>2. CASE FindTid(list, t) # 0 /\ list' = list
    <3>1. FindTid(list, t) \in DOMAIN list /\ list[FindTid(list, t)] = t
      BY <2>2, FindTidFinds, TidsAssumption DEF Base, VInv, NoTid
    <3> QED
      BY <2>2, <3>1 DEF Listed
  <2> QED
    BY <1>1, <2>1, <2>2
<1>6. \A u \in Tids : u # t => (Busy(u)' <=> Busy(u))
  BY <1>1, BusyWith
<1> QED
  BY <1>3, <1>4, <1>5, <1>6 DEF StillStopped, Live, Looping

LEMMA ServeStill ==
  ASSUME Base, PipesInv, StillStopped, Serve
  PROVE  StillStopped'
<1>1. PICK w \in Tids :
           /\ mpc = "serve" /\ workers[w].pc \in {"peek", "resume"} /\ toTracer'[w] = <<>>
           /\ toTracer[w] # <<>>
           /\ \A u \in Tids : u # w => toTracer'[u] = toTracer[u] /\ toWorker'[u] = toWorker[u]
           /\ tracee' = IF workers[w].pc = "resume" /\ tracee[w].st = "stopped"
                        THEN [tracee EXCEPT ![w] = Resumed(@)] ELSE tracee
           /\ UNCHANGED <<list, workers>>
           /\ \A u \in Tids : Pointed(u)' <=> Pointed(u)
           /\ toWorker[w] = <<>>
  BY Served
<1>2. Listed' = Listed
  BY <1>1 DEF Listed
<1>3. \A u \in Tids : u # w => (Busy(u)' <=> Busy(u)) /\ tracee'[u] = tracee[u]
  BY <1>1, BusyWith DEF Base, TInv, KernelInv
<1>4. Busy(w)' => workers[w].pc = "peek"
  BY <1>1 DEF Busy, InHand, Pointed
<1>5. workers[w].pc = "peek" => Busy(w) /\ tracee'[w] = tracee[w]
  BY <1>1 DEF Busy, InHand
<1> QED
  BY <1>1, <1>2, <1>3, <1>4, <1>5 DEF StillStopped, Live, Looping

LEMMA StillStoppedInit == Init => StillStopped
BY DEF Init, StillStopped, NoWorker, Busy, InHand, Pointed

LEMMA StillStoppedStep ==
  ASSUME Threadless, Base, PipesInv, CallOrder, StillStopped, [Next]_vars, Unhurt'
  PROVE  StillStopped'
<1>1. ASSUME UNCHANGED <<tracee, list, workers, toWorker, toTracer>>, mpc' \in Live => mpc \in Live
      PROVE  StillStopped'
  BY <1>1, BusyWith DEF StillStopped, Listed
<1>2. ASSUME NEW t \in Tids, WaitStep(t) PROVE StillStopped'
  <2>1. CASE ExitWithoutWorker(t)
    BY <2>1 DEF ExitWithoutWorker, StillStopped, Live, Looping
  <2>2. CASE Appears(t) \/ Attached(t) \/ SignalForwarded(t) \/ ExecEvent(t)
    <3>1. Waited(t) /\ Event(t) # "exit"
      BY <2>2, StopSlot DEF Appears, Attached, SignalForwarded, ExecEvent
    <3>2. UNCHANGED <<list, workers, toWorker, toTracer>>
      BY <2>2 DEF Appears, Attached, SignalForwarded, ExecEvent, pool, pipes
    <3>3. \A u \in Tids : u # t => tracee'[u] = tracee[u]
      BY <2>2 DEF Appears, Attached, SignalForwarded, ExecEvent, Base, TInv, KernelInv
    <3> QED
      BY <3>1, <3>2, <3>3, StopAloneStill DEF Base
  <2> QED
    BY <1>2, <2>1, <2>2, ExitStill, ForkStill, SyscallStopStill DEF WaitStep
<1>3. CASE WaitNothing \/ WaitFails \/ Poll \/ Commit
  <2>1. UNCHANGED <<tracee, list, workers, toWorker, toTracer>> /\ mpc \in Live
    BY <1>3 DEF WaitNothing, WaitFails, Poll, Commit, Live, Looping, kernelVars, pool, pipes
  <2> QED
    BY <1>1, <2>1
<1>4. CASE Rollback \/ Interrupt
  BY <1>4 DEF Rollback, Interrupt, StillStopped, Live, Looping
<1>5. ASSUME NEW t \in Tids, WorkerStep(t) PROVE StillStopped'
  <2>1. /\ mpc \in Live /\ UNCHANGED <<tracee, list>>
        /\ \A u \in Tids : Busy(u)' => Busy(u)
    BY <1>5, WorkerTouches DEF Base, kernelVars
  <2> QED
    BY <2>1 DEF StillStopped, Listed
<1>6. ASSUME NEW t \in Tids, TraceeStep(t) PROVE StillStopped'
  <2>1. UNCHANGED <<list, workers, toWorker, toTracer, mpc>> /\ KernelStep(t)
    BY <1>6 DEF TraceeStep, tracerVars
  <2>2. \A u \in Tids : tracee[u].st = "stopped" => tracee'[u] = tracee[u]
    BY <2>1, StoppedStays DEF Base, TInv, PipesInv
  <2> QED
    BY <2>1, <2>2, BusyWith DEF StillStopped, Listed
<1>7. CASE UNCHANGED vars
  BY <1>1, <1>7 DEF vars, kernelVars, tracerVars
<1> QED
  BY <1>2, <1>3, <1>4, <1>5, <1>6, <1>7, ServeStill DEF Next, MainStep, Stops

LEMMA StillStoppedAlways == Threadless => (Spec => [](Base /\ PipesInv /\ CallOrder /\ (Unhurt => StillStopped)))
<1> SUFFICES ASSUME Threadless PROVE Spec => [](Base /\ PipesInv /\ CallOrder /\ (Unhurt => StillStopped))
  OBVIOUS
<1>1. Init => StillStopped
  BY StillStoppedInit
<1>2. Base /\ PipesInv /\ CallOrder /\ (Unhurt => StillStopped) /\ [Next]_vars => (Unhurt => StillStopped)'
  BY StillStoppedStep, CallOrderStep DEF Unhurt
<1>3. Spec => [](Base /\ PipesInv /\ CallOrder)
  BY CallOrderAlways
<1> QED
  BY <1>1, <1>2, <1>3, PTL DEF Spec

\* The struct Process that a worker got with a stop, and writes to after every
\* answer it waits for, is still its tracee's: the main thread did not free it
\* meanwhile, nor give it to another process.
THEOREM WorkersOwnTheirSlots == SelfExits => (Spec => []WorkerOwnsSlot)
<1> SUFFICES ASSUME SelfExits PROVE Spec => []WorkerOwnsSlot
  OBVIOUS
<1>1. ASSUME PipesInv, StillStopped PROVE WorkerOwnsSlot
  <2>1. ASSUME mpc \in Live, NEW t \in Tids, workers[t].pc = "peek" \/ Pointed(t) PROVE Owns(t)
    <3>1. t \in Listed
      BY <1>1, <2>1 DEF StillStopped, Busy, InHand
    <3> QED
      BY <1>1, <2>1, <3>1 DEF PipesInv, Pipes
  <2> QED
    BY <2>1 DEF WorkerOwnsSlot, Owns, Found, Pointed
<1>2. Unhurt
  BY SelfExitsNoThreads
<1>3. Spec => [](Base /\ PipesInv /\ CallOrder /\ (Unhurt => StillStopped))
  BY StillStoppedAlways, SelfExitsNoThreads
<1>4. PipesInv /\ (Unhurt => StillStopped) => WorkerOwnsSlot
  BY <1>1, <1>2
<1> QED
  BY <1>3, <1>4, PTL

------------------------------------------------------------------------------
(* Where the processes come from.                                            *)

\* A process is ATTACHED, or in its first stop; it has a slot, or the fork event
\* that tells of it is still to come, as for every UNKNOWN slot.
Attachment(t) == \E i \in DOMAIN procs : procs[i].status = "ATTACHED" /\ procs[i].tid = t
Newcomer(t)   == tracee[t].st = "stopped" /\ tracee[t].ev \in {"sigstop", "none"}
Created(t)    == \E p \in Tids : Spawning(p) /\ tracee[p].child = t
Place(t)      == /\ Attachment(t) \/ Newcomer(t)
                 /\ Found(procs, t) # {} \/ Created(t)
CreatorsInv ==
    mpc \in Looping => /\ \A t \in Children : Place(t)
                       /\ \A i \in DOMAIN procs :
                             procs[i].status = "UNKNOWN" => Created(procs[i].tid)

\* What is known in programs without threads that nothing killed.
Stopping == Threadless /\ Base /\ PipesInv /\ CallOrder /\ StillStopped
Placed   == Stopping /\ CreatorsInv

\* A step that moves the tracees of M alone.
LEMMA CreatorsKept ==
  ASSUME CreatorsInv, mpc \in Looping, NEW M \in SUBSET Tids,
         \A u \in Tids \ M : /\ tracee'[u] = tracee[u]
                             /\ Attachment(u) => Attachment(u)'
                             /\ Found(procs, u) # {} => (Found(procs, u) # {})',
         \A u \in M : u \in Children' => Place(u)',
         \A u \in Tids \ M : Created(u) => Created(u)' \/ (Found(procs, u) # {})',
         \A i \in DOMAIN procs' : procs'[i].status = "UNKNOWN" => Created(procs[i].tid)'
  PROVE  CreatorsInv'
<1>1. ASSUME NEW u \in Tids \ M, u \in Children' PROVE Place(u)'
  <2>1. u \in Children /\ (Newcomer(u)' <=> Newcomer(u))
    BY <1>1 DEF Children, Newcomer
  <2>2. Place(u)
    BY <2>1 DEF CreatorsInv
  <2> QED
    BY <1>1, <2>1, <2>2 DEF Place
<1>2. \A u \in Children' : u \in Tids
  BY DEF Children
<1> QED
  BY <1>1, <1>2 DEF CreatorsInv

\* A creator waits for its fork event to be reported.
LEMMA CreatorStopped ==
  ASSUME Base, PipesInv, NEW p \in Tids, Spawning(p)
  PROVE  tracee[p].st = "stopped" /\ tracee[p].ev = "spawn" /\ tracee[p].child \in Tids
BY DEF Base, TInv, KernelInv, PipesInv, KernelOrder, Ordered, Spawning

LEMMA TraceeCreators ==
  ASSUME Placed, mpc \in Looping, NEW t \in Tids, TraceeStep(t), Unhurt'
  PROVE  CreatorsInv'
<1> USE DEF Placed, Stopping
<1>1. KernelStep(t) /\ UNCHANGED procs
  BY DEF TraceeStep, tracerVars
<1>2. \A u \in Tids : tracee[u].st = "stopped" => tracee'[u] = tracee[u]
  BY <1>1, StoppedStays DEF Base, TInv, PipesInv
<1>3. TraceeMoves(t)
  BY <1>1, TraceeShapes, NoKill DEF Base, TInv, PipesInv
<1>4. \A u \in Tids : /\ Attachment(u)' <=> Attachment(u)
                      /\ Found(procs, u)' = Found(procs, u)
  BY <1>1 DEF Attachment
<1>5. \A u \in Tids : Created(u) => Created(u)'
  <2>1. ASSUME NEW u \in Tids, NEW p \in Tids, Spawning(p), tracee[p].child = u PROVE Created(u)'
    <3>1. tracee'[p] = tracee[p]
      BY <1>2, <2>1, CreatorStopped
    <3> QED
      BY <2>1, <3>1 DEF Created, Spawning
  <2> QED
    BY <2>1 DEF Created
<1> DEFINE M == {u \in Tids : u = t \/ tracee'[u] # tracee[u]}
<1>6. ASSUME NEW u \in M PROVE Place(u)'
  <2>1. CASE u = t
    <3>1. t \in Children /\ ~ Newcomer(t)
      BY <1>3 DEF TraceeMoves, Children, Newcomer
    <3>2. Attachment(t) /\ (Found(procs, t) # {} \/ Created(t))
      BY <3>1 DEF CreatorsInv, Place
    <3> QED
      BY <1>4, <1>5, <2>1, <3>2 DEF Place
  <2>2. CASE u # t
    <3>1. /\ u \in Unborn /\ tracee'[u] = Born(u)
          /\ tracee'[t].ev = "spawn" /\ tracee'[t].child = u
      BY <1>3, <2>2 DEF TraceeMoves
    <3>2. Newcomer(u)'
      BY <3>1 DEF Newcomer, Born, NotBorn
    <3>3. Created(u)'
      BY <3>1 DEF Created, Spawning
    <3> QED
      BY <3>2, <3>3 DEF Place
  <2> QED
    BY <2>1, <2>2
<1>7. \A i \in DOMAIN procs' : procs'[i].status = "UNKNOWN" => Created(procs[i].tid)'
  <2>1. ASSUME NEW i \in DOMAIN procs, procs[i].status = "UNKNOWN" PROVE procs[i].tid \in Tids /\ Created(procs[i].tid)
    BY <2>1 DEF CreatorsInv, PipesInv, Stages, InUse
  <2>2. PICK ps : ps = procs /\ ps = procs'
    BY <1>1
  <2> QED
    BY <1>5, <2>1, <2>2
<1> QED
  BY <1>4, <1>5, <1>6, <1>7, CreatorsKept

\* A stop that is no fork event, of a process that was ATTACHED or is now.
LEMMA StopCreators ==
  ASSUME Placed, NEW t \in Tids, Waited(t), Event(t) \notin {"exit", "spawn"},
         DOMAIN procs' = DOMAIN procs,
         \A i \in DOMAIN procs : /\ procs'[i].tid = procs[i].tid
                                 /\ \/ procs'[i].status = procs[i].status
                                    \/ procs[i].status = "ALLOCATED" /\ procs'[i].status = "ATTACHED",
         \A u \in Tids : u # t => tracee'[u] = tracee[u],
         Attachment(t)'
  PROVE  CreatorsInv'
<1> USE DEF Placed, Stopping
<1>1. mpc \in Looping
  BY DEF Waited, Looping
<1>2. InUse(procs)' = InUse(procs)
  BY DEF InUse
<1>3. \A u \in Tids : /\ Attachment(u) => Attachment(u)'
                      /\ Found(procs, u) # {} => (Found(procs, u) # {})'
  BY <1>2 DEF Attachment, Found, InUse
<1>4. \A u \in Tids : Created(u) => Created(u)'
  BY DEF Created, Spawning, Event
<1>5. Place(t)'
  BY DEF Place, Attachment, Found, InUse
<1>6. ASSUME NEW i \in DOMAIN procs', procs'[i].status = "UNKNOWN" PROVE Created(procs[i].tid)'
  <2>1. procs[i].status = "UNKNOWN" /\ i \in DOMAIN procs
    BY <1>6
  <2>2. PICK u \in Tids : u = procs[i].tid /\ Created(u)
    BY <1>1, <2>1 DEF CreatorsInv, PipesInv, Stages, InUse
  <2>3. procs'[i].tid = u
    BY <2>1, <2>2
  <2> QED
    BY <1>4, <2>2, <2>3
<1> DEFINE M == {t}
<1>7. /\ M \in SUBSET Tids
      /\ \A u \in Tids \ M : tracee'[u] = tracee[u]
      /\ \A u \in M : Place(u)'
  BY <1>5
<1> HIDE DEF M
<1> QED
  BY <1>1, <1>3, <1>4, <1>6, <1>7, CreatorsKept

LEMMA AttachedCreators ==
  ASSUME Placed, NEW t \in Tids, Attached(t)
  PROVE  CreatorsInv'
<1> USE DEF Placed, Stopping, Base
<1> DEFINE i == Find(procs, t)
<1>1. /\ Waited(t) /\ Event(t) # "exit" /\ Found(procs, t) # {}
      /\ procs[i].status = "ALLOCATED" /\ procs' = [procs EXCEPT ![i].status = "ATTACHED"]
      /\ tracee' = [tracee EXCEPT ![t] = Resumed(Reaped(@))]
  BY DEF Attached
<1>2. i \in DOMAIN procs /\ procs[i] \in Slot(Tids) /\ procs[i].tid = t
  BY <1>1, FindFinds DEF TInv, WellTyped
<1> HIDE DEF i
<1>3. ~ Attachment(t)
  BY <1>1, <1>2 DEF Attachment, TablesInv, UniqueTids, InUse
<1>4. Newcomer(t)
  BY <1>1, <1>3 DEF Waited, Reportable, Looping, CreatorsInv, Place
<1>5. /\ DOMAIN procs' = DOMAIN procs /\ procs'[i].tid = t /\ procs'[i].status = "ATTACHED"
      /\ \A k \in DOMAIN procs : k # i => procs'[k] = procs[k]
  BY <1>1, <1>2 DEF Slot, TInv, WellTyped
<1>6. Attachment(t)'
  BY <1>2, <1>5 DEF Attachment
<1>7. \A u \in Tids : u # t => tracee'[u] = tracee[u]
  BY <1>1 DEF TInv, KernelInv
<1>8. Event(t) # "spawn"
  BY <1>4 DEF Newcomer, Event
<1>9. \A k \in DOMAIN procs : /\ procs'[k].tid = procs[k].tid
                              /\ \/ procs'[k].status = procs[k].status
                                 \/ procs[k].status = "ALLOCATED" /\ procs'[k].status = "ATTACHED"
  BY <1>1, <1>2, <1>5
<1> QED
  BY <1>1, <1>5, <1>6, <1>7, <1>8, <1>9, StopCreators

\* A stop of an ATTACHED process, which stays so.
LEMMA LaterStopCreators ==
  ASSUME Placed, NEW t \in Tids, SyscallStop(t) \/ SignalForwarded(t) \/ ExecEvent(t), mpc' \in Looping
  PROVE  CreatorsInv'
<1> USE DEF Placed, Stopping, Base
<1> DEFINE i == Find(procs, t)
<1>1. Stop(t, {"sysin", "sysout", "signal", "sigstop", "exec"})
  BY DEF SyscallStop, SignalForwarded, ExecEvent, Stop
<1>2. /\ Waited(t) /\ Event(t) \notin {"exit", "spawn"}
      /\ i \in DOMAIN procs /\ procs[i] \in Slot(Tids) /\ procs[i].tid = t /\ procs[i].status = "ATTACHED"
  BY <1>1, StopSlot DEF Stop
<1>3. \E s : /\ procs' = [procs EXCEPT ![i] = s] /\ s.tid = procs[i].tid /\ s.status = procs[i].status
  <2>1. CASE SyscallStop(t)
    <3>1. procs' = [procs EXCEPT ![i] = WithRegisters(procs[i], tracee[t])]
      BY <2>1 DEF SyscallStop
    <3> HIDE DEF i
    <3>2. /\ WithRegisters(procs[i], tracee[t]).tid = procs[i].tid
          /\ WithRegisters(procs[i], tracee[t]).status = procs[i].status
      BY <1>2 DEF WithRegisters, Slot
    <3> QED
      BY <3>1, <3>2
  <2>2. CASE SignalForwarded(t)
    <3>1. procs' = procs
      BY <2>2 DEF SignalForwarded, tables
    <3> QED
      BY <1>2, <3>1 DEF TInv, WellTyped
  <2>3. CASE ExecEvent(t)
    <3>1. Stop(t, {"exec"})
      BY <2>3 DEF ExecEvent
    <3>2. procs[i].execve_info # NoInfo
      <4> SUFFICES ASSUME procs[i].execve_info = NoInfo PROVE FALSE
        OBVIOUS
      <4>1. ExecCallers(i) = {}
        BY <3>1, ExecByItself, ThreadlessSafe
      <4>2. mpc' \in {"segv", "failed"}
        BY <2>3, <4>1 DEF ExecEvent, InsertionFails
      <4> QED
        BY <4>2 DEF Looping
    <3>3. procs' = [[procs EXCEPT ![i].execve_info = NoInfo] EXCEPT ![i].flags = {"EXECD"}]
      BY <2>3, <3>2 DEF ExecEvent, InsertionFails, Looping
    <3> HIDE DEF i
    <3> DEFINE s == [[procs[i] EXCEPT !.execve_info = NoInfo] EXCEPT !.flags = {"EXECD"}]
    <3>4. procs' = [procs EXCEPT ![i] = s]
      BY <1>2, <3>3 DEF TInv, WellTyped
    <3>5. s.tid = procs[i].tid /\ s.status = procs[i].status
      BY <1>2 DEF Slot
    <3> QED
      BY <3>4, <3>5
  <2> QED
    BY <2>1, <2>2, <2>3
<1> HIDE DEF i
<1>4. PICK s : procs' = [procs EXCEPT ![i] = s] /\ s.tid = procs[i].tid /\ s.status = procs[i].status
  BY <1>3
<1>5. /\ DOMAIN procs' = DOMAIN procs /\ procs'[i] = s
      /\ \A k \in DOMAIN procs : k # i => procs'[k] = procs[k]
  BY <1>2, <1>4 DEF TInv, WellTyped
<1>6. \A k \in DOMAIN procs : procs'[k].tid = procs[k].tid /\ procs'[k].status = procs[k].status
  BY <1>4, <1>5
<1>7. Attachment(t)'
  BY <1>2, <1>5, <1>6 DEF Attachment
<1>8. \A u \in Tids : u # t => tracee'[u] = tracee[u]
  BY DEF SyscallStop, SignalForwarded, ExecEvent, TInv, KernelInv
<1> QED
  BY <1>2, <1>5, <1>6, <1>7, <1>8, StopCreators

\* A step that moves no tracee and keeps the slots.
LEMMA StandCreators ==
  ASSUME Placed, UNCHANGED tracee, SameSlots, mpc' \in Looping => mpc \in Looping
  PROVE  CreatorsInv'
<1> SUFFICES ASSUME mpc \in Looping PROVE CreatorsInv'
  BY DEF CreatorsInv
<1> USE DEF Placed, Stopping, Base
<1>1. \A u : Found(procs, u)' = Found(procs, u)
  BY SameSlotsKeep
<1>2. DOMAIN procs' = DOMAIN procs /\ \A i \in DOMAIN procs : procs'[i].tid = procs[i].tid /\ procs'[i].status = procs[i].status
  BY DEF SameSlots, SameSlot
<1>3. \A u : (Attachment(u)' <=> Attachment(u)) /\ (Newcomer(u)' <=> Newcomer(u))
  BY <1>2 DEF Attachment, Newcomer
<1>4. ASSUME NEW u PROVE Created(u)' <=> Created(u)
  BY DEF Created, Spawning
<1>5. Children' = Children
  BY DEF Children
<1>6. \A u \in Children' : Place(u)'
  BY <1>1, <1>3, <1>4, <1>5 DEF CreatorsInv, Place
<1>7. ASSUME NEW i \in DOMAIN procs', procs'[i].status = "UNKNOWN" PROVE Created(procs[i].tid)'
  <2>1. PICK u : u = procs[i].tid
    OBVIOUS
  <2>2. procs'[i].tid = u /\ Created(u)
    BY <1>2, <1>7, <2>1 DEF CreatorsInv
  <2> QED
    BY <1>4, <2>2
<1> QED
  BY <1>6, <1>7 DEF CreatorsInv

\* The main loop goes on after a fork event that it could deal with.
LEMMA ForkGoesOn ==
  ASSUME Base, PipesInv, NEW t \in Tids, ForkEvent(t), mpc' \in Looping
  PROVE  Stop(t, {"spawn"}) /\ ~ UNCHANGED <<tracee, tables>>
<1> USE DEF Base
<1>1. CASE UNCHANGED <<tracee, tables>>
  <2> DEFINE r == Resumed(Reaped(tracee[t]))
  <2>1. tracee[t].ev # "none" /\ r.ev = "none" /\ r.st = "running"
    BY StopSlot, StopTaken DEF ForkEvent
  <2>2. procs' = procs
    BY <1>1 DEF tables
  <2>3. PICK c \in Tids, b \in BOOLEAN :
           tracee' = [tracee EXCEPT ![t] = r, ![c] = IF b THEN Resumed(@) ELSE @]
    BY DEF ForkEvent, InsertionFails, Looping, Stop, Event, TInv, KernelInv
  <2> HIDE DEF r
  <2>4. tracee'[t] = r
    BY <2>1, <2>3 DEF TInv, KernelInv, Resumed
  <2> QED
    BY <1>1, <2>1, <2>4
<1> QED
  BY <1>1 DEF ForkEvent

\* The slot of the child.
LEMMA ForkSlot ==
  \A t, c, j : ForkFills(t, c, j) =>
         /\ procs'[j].tid = c /\ procs'[j].flags = {} /\ procs'[j].in_syscall = FALSE
         /\ Found(procs, c) # {} => procs'[j].status = "ATTACHED"
         /\ Found(procs, c) = {} => procs'[j].status = "ALLOCATED"
         /\ j \in DOMAIN procs => procs'[j].execve_info = procs[j].execve_info
         /\ j \notin DOMAIN procs => procs'[j].execve_info = NoInfo
<1> TAKE t, c, j
<1> HAVE ForkFills(t, c, j)
<1>1. PICK st, g, id :
          /\ st = IF Found(procs, c) # {} THEN "ATTACHED" ELSE "ALLOCATED"
          /\ g = IF procs[Find(procs, t)].call = "clone" THEN procs[Find(procs, t)].tg ELSE c
          /\ id = Len(dbProcs) + 1
  OBVIOUS
<1>2. PICK b \in Slot(Tids) :
          /\ b = IF j \in DOMAIN procs THEN procs[j] ELSE FreeSlot
          /\ procs'[j] = [b EXCEPT !.status = st, !.flags = {}, !.tid = c, !.in_syscall = FALSE,
                                   !.tg = g, !.identifier = id]
  BY <1>1 DEF ForkFills
<1>3. /\ procs'[j].tid = c /\ procs'[j].flags = {} /\ procs'[j].in_syscall = FALSE
      /\ procs'[j].status = st /\ procs'[j].execve_info = b.execve_info
  BY <1>2 DEF Slot
<1> QED
  BY <1>1, <1>2, <1>3 DEF FreeSlot

LEMMA WorkerSlots ==
  ASSUME TInv, PipesInv, NEW t \in Tids, WorkerStep(t)
  PROVE  SameSlots
<1>1. ~ BadPointer(t)
  BY StopReceived DEF BadPointer, Receives
<1>2. ASSUME NEW i, NEW s, NEW tid, EndOfStop(t, i, s, tid), i \in DOMAIN procs,
             SameSlot(Toggled(s), procs[i])
      PROVE  SameSlots
  BY <1>2, OneSlotWritten DEF EndOfStop, TInv
<1>3. CASE StopHandled(t)
  <2> DEFINE i == Head(toWorker[t]).arg
  <2>1. i \in DOMAIN procs /\ procs[i] \in Slot(Tids)
    BY <1>3, StopReceived DEF StopHandled, Receives
  <2>2. \/ EndOfStop(t, i, ExecdIgnored(procs[i]), procs[i].tid)
        \/ EndOfStop(t, i, Handled(procs[i]), procs[i].tid)
    BY <1>3 DEF StopHandled
  <2> HIDE DEF i
  <2> QED
    BY <1>2, <2>1, <2>2, HandlersKeepSlot
<1>4. CASE PathRead(t)
  <2> DEFINE i == workers[t].slot
             f(by) == [procs[i] EXCEPT !.execve_info = by]
  <2>1. i \in DOMAIN procs /\ procs[i] \in Slot(Tids)
    BY <1>4, StopReceived DEF PathRead, Receives
  <2>2. PICK by \in Tids \cup {NoTid} : by = IF Head(toWorker[t]).word = "res" THEN workers[t].tid ELSE NoTid
    BY DEF TInv, WellTyped, Worker
  <2>3. \/ UNCHANGED procs
        \/ EndOfStop(t, i, procs[i], workers[t].tid)
        \/ EndOfStop(t, i, f(by), workers[t].tid)
    BY <1>4, <2>2 DEF PathRead, syscall_fileopening, syscall_chdir, syscall_execve_in, tables
  <2>4. SameSlot(Toggled(procs[i]), procs[i]) /\ SameSlot(Toggled(f(by)), procs[i])
    BY <2>1, HandlersKeepSlot
  <2> HIDE DEF i, f
  <2> QED
    BY <1>2, <2>1, <2>3, <2>4, NothingWritten
<1>5. CASE StopPeeks(t) \/ PeekAgain(t) \/ InsertFails(t) \/ Answered(t)
  BY <1>5, NothingWritten DEF StopPeeks, PeekAgain, InsertFails, Answered, tables
<1> QED
  BY <1>1, <1>3, <1>4, <1>5 DEF WorkerStep

LEMMA ExitCreators ==
  ASSUME Placed, NEW t \in Tids, ExitReported(t)
  PROVE  CreatorsInv'
<1> USE DEF Placed, Stopping, Base
<1> DEFINE i == Find(procs, t)
<1>1. /\ mpc = "wait" /\ tracee[t].ev = "exit"
      /\ tracee' = [tracee EXCEPT ![t] = Reaped(@)]
  BY DEF ExitReported, Waited, Event
<1>2. tracee[t].st = "dead" /\ mpc \in Looping /\ Stages
  BY <1>1 DEF PipesInv, KernelOrder, Ordered, Looping
<1>3. /\ \A u \in Tids : u # t => tracee'[u] = tracee[u]
      /\ tracee'[t].st = "gone"
  <2>1. tracee[t] \in Tracee /\ tracee'[t] = Reaped(tracee[t])
    BY <1>1 DEF TInv, KernelInv
  <2>2. tracee'[t].st = "gone"
    BY <1>2, <2>1 DEF Reaped, Tracee
  <2> QED
    BY <1>1, <2>2 DEF TInv, KernelInv
<1>4. \/ procs' = procs
      \/ Found(procs, t) # {} /\ procs' = FreeProcess(procs, i)
  BY DEF ExitReported, tables, InsertionFails
<1>5. Found(procs, t) # {} => i \in DOMAIN procs /\ procs[i].tid = t /\ procs[i] \in Slot(Tids)
  BY FindFinds DEF TInv, WellTyped
<1> HIDE DEF i
<1>6. /\ DOMAIN procs' = DOMAIN procs
      /\ \A k \in DOMAIN procs : \/ procs'[k] = procs[k]
                                 \/ procs[k].tid = t /\ procs'[k].status = "FREE"
  <2>1. CASE procs' = procs
    BY <2>1
  <2>2. CASE Found(procs, t) # {} /\ procs' = FreeProcess(procs, i)
    <3> DEFINE s == [procs[i] EXCEPT !.status = "FREE", !.tg = NoGroup, !.execve_info = NoInfo]
    <3>1. s.status = "FREE"
      BY <1>5, <2>2 DEF Slot
    <3>2. procs' = [procs EXCEPT ![i] = s]
      BY <2>2 DEF FreeProcess
    <3> HIDE DEF s
    <3> QED
      BY <1>5, <2>2, <3>1, <3>2 DEF TInv, WellTyped
  <2> QED
    BY <1>4, <2>1, <2>2
<1>7. \A u \in Tids : Created(u) => Created(u)'
  <2>1. ASSUME NEW u \in Tids, NEW p \in Tids, Spawning(p), tracee[p].child = u PROVE Created(u)'
    <3>1. tracee'[p] = tracee[p]
      BY <1>1, <1>3, <2>1 DEF Spawning
    <3> QED
      BY <2>1, <3>1 DEF Created, Spawning
  <2> QED
    BY <2>1 DEF Created
<1>8. ASSUME NEW k \in DOMAIN procs', procs'[k].status = "UNKNOWN" PROVE Created(procs[k].tid)'
  <2>1. k \in DOMAIN procs /\ procs'[k] = procs[k]
    BY <1>6, <1>8
  <2>2. PICK u \in Tids : u = procs[k].tid /\ Created(u)
    BY <1>2, <1>8, <2>1 DEF CreatorsInv, Stages, InUse
  <2> QED
    BY <1>7, <2>1, <2>2
<1>9. ASSUME NEW u \in Tids, u # t
      PROVE  /\ Attachment(u) => Attachment(u)'
             /\ Found(procs, u) # {} => (Found(procs, u) # {})'
  BY <1>6, <1>9 DEF Attachment, Found, InUse
<1> DEFINE M == {t}
<1>10. /\ M \in SUBSET Tids
       /\ \A u \in Tids \ M : u # t
       /\ \A u \in M : u \notin Children'
  BY <1>3 DEF Children
<1> HIDE DEF M
<1> QED
  BY <1>2, <1>3, <1>7, <1>8, <1>9, <1>10, CreatorsKept

LEMMA AppearsCreators ==
  ASSUME Placed, NEW t \in Tids, Appears(t)
  PROVE  CreatorsInv'
<1> USE DEF Placed, Stopping, Base
<1> DEFINE ps == WithRoom(procs)
           j == EmptySlot(procs)
           s == [ps[j] EXCEPT !.status = "UNKNOWN", !.flags = {}, !.tid = t, !.tg = NoGroup,
                              !.in_syscall = FALSE]
<1>0. /\ Waited(t) /\ Event(t) # "exit" /\ Found(procs, t) = {}
      /\ procs' = [ps EXCEPT ![j] = s]
      /\ tracee' = [tracee EXCEPT ![t] = Reaped(@)]
  BY DEF Appears
<1>1. mpc \in Looping /\ Stages
  BY <1>0, StopTaken DEF Looping
<1>2. /\ ps \in Seq(Slot(Tids)) /\ DOMAIN procs \subseteq DOMAIN ps
      /\ j \in DOMAIN ps /\ ps[j].status = "FREE"
      /\ \A i \in DOMAIN procs : ps[i] = procs[i]
      /\ \A i \in DOMAIN ps : i \notin DOMAIN procs => ps[i] = FreeSlot
  BY RoomInTable DEF TInv
<1>3. s.status = "UNKNOWN" /\ s.tid = t
  <2>1. ps[j] \in Slot(Tids)
    BY <1>2
  <2> HIDE DEF ps, j
  <2> QED
    BY <2>1 DEF Slot
<1> HIDE DEF ps, j, s
<1>4. DOMAIN procs' = DOMAIN ps /\ procs'[j] = s /\ \A i \in DOMAIN ps : i # j => procs'[i] = ps[i]
  BY <1>0, <1>2
<1>5. FreeSlot.status = "FREE"
  BY DEF FreeSlot
<1>6. \A u \in Tids : u # t => tracee'[u] = tracee[u]
  BY <1>0 DEF TInv, KernelInv
<1>7. Created(t) /\ Newcomer(t) /\ tracee[t].ev = "sigstop"
  <2>1. t \in Children /\ tracee[t].ev # "none"
    BY <1>0 DEF Waited, Reportable
  <2>2. ~ Attachment(t)
    BY <1>0 DEF Attachment, Found, InUse
  <2> QED
    BY <1>0, <1>1, <2>1, <2>2 DEF CreatorsInv, Place, Newcomer
<1>8. Newcomer(t)'
  BY <1>0, <1>7 DEF Newcomer, Reaped, TInv, KernelInv, Tracee
<1>9. \A u \in Tids : Created(u) => Created(u)'
  <2>1. ASSUME NEW u \in Tids, NEW p \in Tids, Spawning(p), tracee[p].child = u PROVE Created(u)'
    <3>1. tracee'[p] = tracee[p]
      BY <1>6, <1>7, <2>1 DEF Spawning
    <3> QED
      BY <2>1, <3>1 DEF Created, Spawning
  <2> QED
    BY <2>1 DEF Created
<1>10. ASSUME NEW k \in DOMAIN procs', procs'[k].status = "UNKNOWN" PROVE Created(procs[k].tid)'
  <2>1. CASE k = j
    BY <1>3, <1>4, <1>7, <1>9, <2>1
  <2>2. CASE k # j
    <3>1. k \in DOMAIN procs /\ procs'[k] = procs[k]
      BY <1>2, <1>4, <1>5, <1>10, <2>2
    <3>2. PICK u \in Tids : u = procs[k].tid /\ Created(u)
      BY <1>1, <1>10, <3>1 DEF CreatorsInv, Stages, InUse
    <3> QED
      BY <1>9, <3>1, <3>2
  <2> QED
    BY <2>1, <2>2
<1>11. \A k \in InUse(procs) : procs'[k] = procs[k] /\ k \in DOMAIN procs'
  BY <1>2, <1>4 DEF InUse
<1>12. ASSUME NEW u \in Tids
       PROVE  /\ Attachment(u) => Attachment(u)'
              /\ Found(procs, u) # {} => (Found(procs, u) # {})'
  BY <1>11 DEF Attachment, Found, InUse
<1>13. Place(t)'
  BY <1>7, <1>8, <1>9 DEF Place
<1> DEFINE M == {t}
<1>14. /\ M \in SUBSET Tids
       /\ \A u \in Tids \ M : u # t
       /\ \A u \in M : Place(u)'
  BY <1>13
<1> HIDE DEF M
<1> QED
  BY <1>1, <1>6, <1>9, <1>10, <1>12, <1>14, CreatorsKept

LEMMA ForkCreators ==
  ASSUME Placed, NEW t \in Tids, ForkEvent(t), mpc' \in Looping
  PROVE  CreatorsInv'
<1> USE DEF Placed, Stopping, Base
<1> DEFINE i == Find(procs, t)
<1>1. /\ Stop(t, {"spawn"}) /\ ~ UNCHANGED <<tracee, tables>>
  BY ForkGoesOn
<1>2. /\ Waited(t) /\ Event(t) = "spawn"
      /\ i \in DOMAIN procs /\ procs[i].tid = t /\ procs[i].status = "ATTACHED"
  BY <1>1, StopSlot DEF Stop
<1>3. mpc \in Looping /\ Stages
  BY <1>2, StopTaken DEF Looping
<1>4. PICK c \in Tids, j \in DOMAIN procs' : ForkTakes(t, c, j) /\ ForkFills(t, c, j)
  BY <1>1, ForkWrites
<1> HIDE DEF i
<1>5. i # j /\ c # t /\ c = tracee[t].child
  BY <1>2, <1>4 DEF ForkTakes
<1>6. Attachment(t)' /\ (Found(procs, t) # {})'
  <2>1. i \in DOMAIN procs' /\ procs'[i].tid = t /\ procs'[i].status = "ATTACHED"
    BY <1>2, <1>4, <1>5 DEF ForkTakes
  <2> QED
    BY <2>1 DEF Attachment, Found, InUse
<1>7. c \in Children /\ Newcomer(c)
  <2>1. /\ tracee[c].st \notin {"unborn", "gone"}
        /\ \A k \in InUse(procs) : procs[k].tid = c => procs[k].status = "UNKNOWN"
    BY <1>2, <1>3, <1>5 DEF Stages, Spawning, Event
  <2>2. ~ Attachment(c)
    BY <2>1 DEF Attachment, InUse
  <2> QED
    BY <1>3, <2>1, <2>2 DEF Children, CreatorsInv, Place
<1>8. /\ procs'[j].tid = c
      /\ Found(procs, c) # {} => procs'[j].status = "ATTACHED"
      /\ Found(procs, c) = {} => procs'[j].status = "ALLOCATED"
  BY <1>4, ForkSlot
<1>9. Place(c)'
  <2>1. (Found(procs, c) # {})'
    BY <1>8 DEF Found, InUse
  <2>2. CASE Found(procs, c) # {}
    <3>1. Attachment(c)'
      BY <1>8, <2>2 DEF Attachment
    <3> QED
      BY <2>1, <3>1 DEF Place
  <2>3. CASE Found(procs, c) = {}
    <3>1. tracee'[c] = tracee[c]
      BY <1>4, <2>3 DEF ForkTakes
    <3>2. Newcomer(c)'
      BY <1>7, <3>1 DEF Newcomer
    <3> QED
      BY <2>1, <3>2 DEF Place
  <2> QED
    BY <2>2, <2>3
<1>10. ASSUME NEW u \in Tids, u # c, Created(u) PROVE Created(u)'
  <2>1. PICK p \in Tids : Spawning(p) /\ tracee[p].child = u
    BY <1>10 DEF Created
  <2>2. p # t /\ p # c
    BY <1>5, <1>7, <1>10, <2>1 DEF Newcomer, Spawning
  <2>3. tracee'[p] = tracee[p]
    BY <1>4, <2>2 DEF ForkTakes
  <2> QED
    BY <2>1, <2>3 DEF Created, Spawning
<1>11. ASSUME NEW k \in DOMAIN procs', procs'[k].status = "UNKNOWN" PROVE Created(procs[k].tid)'
  <2>1. k # j
    BY <1>8, <1>11
  <2>2. /\ k \in DOMAIN procs /\ procs[k].status = "UNKNOWN" /\ procs'[k].tid = procs[k].tid
    BY <1>4, <1>11, <2>1 DEF ForkTakes
  <2>3. k \notin Found(procs, c)
    BY <1>4, <2>1 DEF ForkTakes
  <2>4. PICK u \in Tids : u = procs[k].tid /\ Created(u) /\ u # c
    BY <1>3, <2>2, <2>3 DEF CreatorsInv, Stages, InUse, Found
  <2> QED
    BY <1>10, <2>2, <2>4
<1>12. ASSUME NEW u \in Tids, u # t, u # c
       PROVE  /\ tracee'[u] = tracee[u]
              /\ Attachment(u) => Attachment(u)'
              /\ Found(procs, u) # {} => (Found(procs, u) # {})'
  <2>1. tracee'[u] = tracee[u]
    BY <1>4, <1>12 DEF ForkTakes
  <2>2. \A k \in Found(procs, u) : k # j
    BY <1>4, <1>12 DEF ForkTakes, Found
  <2>3. \A k \in Found(procs, u) : k \in DOMAIN procs' /\ procs'[k].tid = u /\ procs'[k].status = procs[k].status
    BY <1>4, <2>2 DEF ForkTakes, Found, InUse
  <2> QED
    BY <2>1, <2>3 DEF Attachment, Found, InUse
<1> DEFINE M == {t, c}
<1>13. /\ M \in SUBSET Tids
       /\ \A u \in Tids \ M : u # t /\ u # c
       /\ \A u \in M : Place(u)'
  BY <1>6, <1>9 DEF Place
<1> HIDE DEF M
<1> QED
  BY <1>3, <1>10, <1>11, <1>12, <1>13, CreatorsKept

LEMMA ServeCreators ==
  ASSUME Placed, Serve
  PROVE  CreatorsInv'
<1> USE DEF Placed, Stopping, Base
<1>1. PICK w \in Tids :
           /\ mpc = "serve" /\ w \in Listed /\ workers[w].pc \in {"peek", "resume"}
           /\ toTracer[w] # <<>>
           /\ tracee' = IF workers[w].pc = "resume" /\ tracee[w].st = "stopped"
                        THEN [tracee EXCEPT ![w] = Resumed(@)] ELSE tracee
           /\ UNCHANGED procs
  BY Served
<1>2. mpc \in Looping /\ Stages /\ Pipes
  BY <1>1 DEF Looping, Live, PipesInv
<1>3. CASE UNCHANGED tracee
  BY <1>1, <1>2, <1>3, NothingWritten, StandCreators
<1>4. CASE tracee[w].st = "stopped" /\ tracee' = [tracee EXCEPT ![w] = Resumed(@)]
  <2>1. tracee[w].ev = "none"
    BY <1>1, <1>2, <1>4 DEF Pipes, Busy, InHand, Parked, Waits
  <2>2. \A u \in Tids : u # w => tracee'[u] = tracee[u]
    BY <1>4 DEF TInv, KernelInv
  <2>3. Attachment(w)' /\ (Found(procs, w) # {})'
    BY <1>1, <1>2 DEF Attachment, Stages, Found, InUse
  <2>4. ASSUME NEW u \in Tids, Created(u) PROVE Created(u)'
    <3>1. PICK p \in Tids : Spawning(p) /\ tracee[p].child = u
      BY <2>4 DEF Created
    <3>2. tracee'[p] = tracee[p]
      BY <2>1, <2>2, <3>1 DEF Spawning
    <3> QED
      BY <3>1, <3>2 DEF Created, Spawning
  <2>5. ASSUME NEW k \in DOMAIN procs', procs'[k].status = "UNKNOWN" PROVE Created(procs[k].tid)'
    <3>1. PICK u \in Tids : u = procs[k].tid /\ Created(u)
      BY <1>1, <1>2, <2>5 DEF CreatorsInv, Stages, InUse
    <3> QED
      BY <1>1, <2>4, <3>1
  <2>6. \A u : (Attachment(u) => Attachment(u)') /\ Found(procs, u)' = Found(procs, u)
    BY <1>1 DEF Attachment
  <2> DEFINE M == {w}
  <2>7. /\ M \in SUBSET Tids
        /\ \A u \in Tids \ M : u # w
        /\ \A u \in M : Place(u)'
    BY <2>3 DEF Place
  <2> HIDE DEF M
  <2> QED
    BY <1>2, <2>2, <2>4, <2>5, <2>6, <2>7, CreatorsKept
<1> QED
  BY <1>1, <1>3, <1>4

LEMMA CreatorsInit == Init => CreatorsInv
<1> SUFFICES ASSUME Init PROVE CreatorsInv
  OBVIOUS
<1> USE DEF Init, KernelInit
<1>1. /\ 1 \in DOMAIN procs /\ procs[1].status = "ALLOCATED" /\ procs[1].tid = First
      /\ \A i \in DOMAIN procs : procs[i].status # "UNKNOWN"
  BY SlotsAssumption DEF FreeSlot
<1>2. Found(procs, First) # {} /\ Newcomer(First)
  BY <1>1, FirstAssumption DEF Found, InUse, Newcomer, Born, NotBorn
<1>3. \A t \in Tids : t # First => t \notin Children
  BY DEF Children, NotBorn
<1> QED
  BY <1>1, <1>2, <1>3 DEF CreatorsInv, Place, Children

LEMMA CreatorsStep ==
  ASSUME Placed, [Next]_vars, Unhurt'
  PROVE  CreatorsInv'
<1> SUFFICES ASSUME mpc' \in Looping PROVE CreatorsInv'
  BY DEF CreatorsInv
<1> USE DEF Placed, Stopping, Base
<1>1. ASSUME UNCHANGED <<tracee, procs>>, mpc \in Looping PROVE CreatorsInv'
  BY <1>1, StandCreators, NothingWritten
<1>2. ASSUME NEW t \in Tids, WaitStep(t) PROVE CreatorsInv'
  <2>1. ~ ExitWithoutWorker(t)
    BY DEF ExitWithoutWorker, Looping
  <2> QED
    BY <1>2, <2>1, ExitCreators, AppearsCreators, AttachedCreators, LaterStopCreators, ForkCreators
    DEF WaitStep
<1>3. CASE WaitNothing \/ Poll
  <2>1. UNCHANGED <<tracee, procs>> /\ mpc \in Looping
    BY <1>3 DEF WaitNothing, Poll, Looping, kernelVars, tables
  <2> QED
    BY <1>1, <2>1
<1>4. ~ WaitFails /\ ~ Commit /\ ~ Rollback /\ ~ Interrupt
  BY DEF WaitFails, Commit, Rollback, Interrupt, Looping
<1>5. ASSUME NEW t \in Tids, WorkerStep(t) PROVE CreatorsInv'
  <2>1. UNCHANGED tracee /\ SameSlots
    BY <1>5, WorkerTouches, WorkerSlots DEF kernelVars
  <2>2. mpc \in Looping
    BY <1>5 DEF WorkerStep, StopHandled, StopPeeks, BadPointer, PeekAgain, PathRead, InsertFails,
       Answered, Looping
  <2> QED
    BY <2>1, <2>2, StandCreators
<1>6. ASSUME NEW t \in Tids, TraceeStep(t) PROVE CreatorsInv'
  <2>1. mpc \in Looping
    BY <1>6 DEF TraceeStep, tracerVars
  <2> QED
    BY <1>6, <2>1, TraceeCreators
<1>7. CASE UNCHANGED vars
  BY <1>1, <1>7 DEF vars, kernelVars, tracerVars
<1> QED
  BY <1>2, <1>3, <1>4, <1>5, <1>6, <1>7, ServeCreators DEF Next, MainStep, Stops

LEMMA CreatorsAlways ==
  Threadless => (Spec => [](Base /\ PipesInv /\ CallOrder /\ (Unhurt => StillStopped /\ CreatorsInv)))
<1> SUFFICES ASSUME Threadless
             PROVE  Spec => [](Base /\ PipesInv /\ CallOrder /\ (Unhurt => StillStopped /\ CreatorsInv))
  OBVIOUS
<1>1. Init => CreatorsInv
  BY CreatorsInit
<1>2. Base /\ PipesInv /\ CallOrder /\ (Unhurt => StillStopped) /\ (Unhurt => CreatorsInv) /\ [Next]_vars
        => (Unhurt => CreatorsInv)'
  <2> SUFFICES ASSUME Base, PipesInv, CallOrder, Unhurt => StillStopped /\ CreatorsInv, [Next]_vars, Unhurt'
               PROVE  CreatorsInv'
    OBVIOUS
  <2>1. Unhurt
    BY CallOrderStep DEF Unhurt
  <2> QED
    BY <2>1, CreatorsStep DEF Placed, Stopping
<1>3. Spec => [](Base /\ PipesInv /\ CallOrder /\ (Unhurt => StillStopped))
  BY StillStoppedAlways
<1> QED
  BY <1>1, <1>2, <1>3, PTL DEF Spec

\* Whatever is waited for while it is UNKNOWN, a creator that is alive will tell
\* of: the loop is never left with nothing but processes nobody accounts for.
THEOREM UnknownsAreAwaited == SelfExits => (Spec => []UnknownHasCreator)
<1> SUFFICES ASSUME SelfExits PROVE Spec => []UnknownHasCreator
  OBVIOUS
<1>1. ASSUME Base, PipesInv, CreatorsInv, mpc \in Looping,
             NEW i \in InUse(procs), procs[i].status = "UNKNOWN"
      PROVE  \E j \in InUse(procs) : /\ procs[j].status = "ATTACHED"
                                     /\ tracee[procs[j].tid].ev = "spawn"
                                     /\ tracee[procs[j].tid].child = procs[i].tid
  <2>1. PICK p \in Tids : Spawning(p) /\ tracee[p].child = procs[i].tid
    BY <1>1 DEF CreatorsInv, Created, InUse
  <2>2. Attachment(p)
    BY <1>1, <2>1, CreatorStopped DEF CreatorsInv, Place, Newcomer, Children
  <2> QED
    BY <2>1, <2>2 DEF Attachment, Spawning, InUse
<1>2. Base /\ PipesInv /\ CreatorsInv => UnknownHasCreator
  BY <1>1 DEF UnknownHasCreator
<1>3. Unhurt
  BY SelfExitsNoThreads
<1>4. Spec => [](Base /\ PipesInv /\ CallOrder /\ (Unhurt => StillStopped /\ CreatorsInv))
  BY CreatorsAlways, SelfExitsNoThreads
<1>5. Base /\ PipesInv /\ (Unhurt => StillStopped /\ CreatorsInv) => UnknownHasCreator
  BY <1>2, <1>3
<1> QED
  BY <1>4, <1>5, PTL

------------------------------------------------------------------------------
(* No stop is lost.                                                          *)

\* A worker gives up on a process that leaves a call with an execve_info: only
\* one that runs and is inside execve() has any.
InfoFits(s) == s.execve_info # NoInfo => s.status = "ATTACHED" /\ s.in_syscall /\ s.call = "execve"

\* The handler that waits for a path is still the one for its slot.
PeekFits(w) == w.pc = "peek" => IF "execve" \in Calls THEN w.fun = PeekingHandler(procs[w.slot])
                                ELSE w.fun # "execve"

\* A tracee that waits for the tracer waits for a worker that has not given up.
Attended == \A i \in DOMAIN procs :
               procs[i].status = "ATTACHED" /\ Waits(tracee[procs[i].tid]) => Busy(procs[i].tid)

AttendInv ==
    mpc \in Looping =>
       /\ \A i \in DOMAIN procs : InfoFits(procs[i])
       /\ \A t \in Tids : PeekFits(workers[t]) /\ workers[t].pc # "exited"
       /\ Attended

\* What the programs are for which workers never give up.
Attentive == "db" \notin Faults /\ ("execve" \notin Calls \/ SelfExits)
Known == Base /\ PipesInv /\ ("execve" \in Calls => StillStopped)

LEMMA AttentiveSafe == Attentive => NoExecInThreads
BY SelfExitsNoThreads DEF Attentive, NoExecInThreads

\* No tracee comes to wait for the tracer of itself: it has something to report.
LEMMA NoNewWait ==
  ASSUME KernelInv, KernelOrder, NoExecInThreads, NEW t \in Tids, KernelStep(t), NEW u \in Tids
  PROVE  tracee'[u] = tracee[u] \/ tracee'[u].st # "stopped" \/ tracee'[u].ev # "none"
<1> DEFINE New == tracee'[u] = tracee[u] \/ tracee'[u].st # "stopped" \/ tracee'[u].ev # "none"
<1> SUFFICES New
  OBVIOUS
<1>1. tracee[t] \in Tracee /\ tracee \in [Tids -> Tracee] /\ Ordered(t, tracee[t])
  BY DEF KernelInv, KernelOrder
<1>2. ASSUME NEW ts, NEW why \in {"exited", "killed"}, tracee' = KillAll(ts, why) PROVE New
  BY <1>2, KilledOrdered
<1>3. ASSUME NEW s, tracee' = [tracee EXCEPT ![t] = s], s.st # "stopped" \/ s.ev # "none" PROVE New
  BY <1>1, <1>3
<1> HIDE DEF New
<1>4. CASE EnterCall(t)
  <2>1. PICK c \in Calls \cup {"exit_group"} : tracee' = [tracee EXCEPT ![t] =
                    [Stopped(@, "sysin") EXCEPT !.at = "call", !.call = c]]
    BY <1>4 DEF EnterCall
  <2>2. [Stopped(tracee[t], "sysin") EXCEPT !.at = "call", !.call = c].ev # "none"
    BY <1>1 DEF Stopped, Tracee
  <2> QED
    BY <1>3, <2>1, <2>2
<1>5. ASSUME NEW r, ReturnWith(t, r) PROVE New
  <2>1. [Stopped(tracee[t], "sysout") EXCEPT !.at = "user", !.ret = r].ev # "none"
    BY <1>1 DEF Stopped, Tracee
  <2> QED
    BY <1>3, <1>5, <2>1 DEF ReturnWith
<1>6. CASE PathCallSucceeds(t) \/ CallFails(t) \/ FinishCall(t)
  BY <1>5, <1>6 DEF PathCallSucceeds, CallFails, FinishCall
<1>7. CASE Spawn(t)
  <2> DEFINE g(c) == IF tracee[t].call = "fork" THEN c ELSE tracee[t].grp
             s(c) == [Stopped(tracee[t], "spawn") EXCEPT !.at = "return", !.child = c]
  <2>1. PICK c \in Unborn : tracee' = [tracee EXCEPT ![t] = s(c), ![c] = Born(g(c))]
    BY <1>7 DEF Spawn
  <2>2. s(c).ev # "none" /\ Born(g(c)).ev # "none"
    BY <1>1 DEF Stopped, Tracee, Born, NotBorn
  <2> HIDE DEF s, g
  <2>3. tracee'[u] = s(c) \/ tracee'[u] = Born(g(c)) \/ tracee'[u] = tracee[u]
    BY <1>1, <2>1
  <2> QED
    BY <2>2, <2>3 DEF New
<1>8. CASE ExecKills(t)
  BY <1>8, GroupOfOne DEF ExecKills, Running
<1>9. CASE Exec(t)
  <2>1. tracee[t].grp = t
    BY <1>9, GroupOfOne DEF Exec
  <2>2. tracee' = [tracee EXCEPT ![t] = [Stopped(tracee[t], "exec") EXCEPT !.at = "return"]]
    BY <1>1, <1>9, <2>1 DEF Exec
  <2>3. [Stopped(tracee[t], "exec") EXCEPT !.at = "return"].ev # "none"
    BY <1>1 DEF Stopped, Tracee
  <2> QED
    BY <1>3, <2>2, <2>3
<1>10. CASE Exit(t) \/ Kill(t)
  BY <1>2, <1>10 DEF Exit, Kill
<1>11. CASE SignalStop(t)
  <2>1. [Stopped(tracee[t], "signal") EXCEPT !.at = "sig"].ev # "none"
    BY <1>1 DEF Stopped, Tracee
  <2> QED
    BY <1>3, <1>11, <2>1 DEF SignalStop
<1>12. CASE SignalDelivered(t)
  <2>1. [tracee[t] EXCEPT !.at = "user"].st # "stopped"
    BY <1>1, <1>12 DEF SignalDelivered, Running, Tracee
  <2> QED
    BY <1>2, <1>3, <1>12, <2>1 DEF SignalDelivered
<1> QED
  BY <1>4, <1>6, <1>7, <1>8, <1>9, <1>10, <1>11, <1>12 DEF KernelStep

\* What the handlers write.
LEMMA HandledFits ==
  ASSUME NEW s \in Slot(Tids), InfoFits(s)
  PROVE  /\ ~ GivesUp(ExecdIgnored(s)) /\ InfoFits(Toggled(ExecdIgnored(s)))
         /\ ~ GivesUp(Handled(s)) /\ InfoFits(Toggled(Handled(s)))
         /\ s.call # "execve" => ~ GivesUp(s) /\ InfoFits(Toggled(s))
         /\ \A b \in Tids \cup {NoTid} :
               s.status = "ATTACHED" /\ ~ s.in_syscall /\ s.call = "execve" =>
                  /\ ~ GivesUp([s EXCEPT !.execve_info = b])
                  /\ InfoFits(Toggled([s EXCEPT !.execve_info = b]))
<1>1. ASSUME NEW r \in Slot(Tids), r.execve_info = NoInfo PROVE ~ GivesUp(r) /\ InfoFits(Toggled(r))
  BY <1>1 DEF GivesUp, InfoFits, Toggled, Slot
<1>2. ~ GivesUp(ExecdIgnored(s)) /\ InfoFits(Toggled(ExecdIgnored(s)))
  <2>1. ExecdIgnored(s) \in Slot(Tids)
    BY SlotEdits
  <2>2. ExecdIgnored(s).execve_info = NoInfo
    BY DEF ExecdIgnored, Slot
  <2> QED
    BY <1>1, <2>1, <2>2
<1>3. s.execve_info # NoInfo => s.in_syscall /\ s.call = "execve"
  BY DEF InfoFits
<1>4. ~ GivesUp(Handled(s)) /\ InfoFits(Toggled(Handled(s)))
  <2>1. Handled(s).execve_info = NoInfo
    <3>1. CASE s.execve_info = NoInfo
      <4>1. \A f : [s EXCEPT !.flags = f].execve_info = NoInfo
        BY <3>1 DEF Slot
      <4>2. [s EXCEPT !.execve_info = NoInfo].execve_info = NoInfo
        BY DEF Slot
      <4>3. /\ [s EXCEPT !.flags = @ \cup {"FORKING"}].execve_info = NoInfo
            /\ [s EXCEPT !.flags = @ \ {"FORKING"}].execve_info = NoInfo
        BY <4>1
      <4> QED
        BY <3>1, <4>2, <4>3, Zenon DEF Handled
    <3>2. CASE s.execve_info # NoInfo
      BY <1>3, <3>2 DEF Handled, Slot
    <3> QED
      BY <3>1, <3>2
  <2> QED
    BY <1>1, <2>1, SlotEdits
<1>5. ASSUME s.call # "execve" PROVE ~ GivesUp(s) /\ InfoFits(Toggled(s))
  BY <1>1, <1>3, <1>5
<1>6. ASSUME NEW b \in Tids \cup {NoTid}, s.status = "ATTACHED", ~ s.in_syscall, s.call = "execve"
      PROVE  /\ ~ GivesUp([s EXCEPT !.execve_info = b])
             /\ InfoFits(Toggled([s EXCEPT !.execve_info = b]))
  BY <1>6 DEF GivesUp, InfoFits, Toggled, Slot
<1> QED
  BY <1>2, <1>4, <1>5, <1>6

\* Where a worker that waits for a path has execve() to care about, it works on a
\* slot that runs and that is no other worker's.
LEMMA PeekingOwns ==
  ASSUME Known, mpc \in Looping, "execve" \in Calls, NEW t \in Tids, Busy(t)
  PROVE  /\ t \in Listed
         /\ \A i \in Found(procs, t) : procs[i].status = "ATTACHED"
         /\ workers[t].pc = "peek" => workers[t].slot \in Found(procs, t)
<1>1. mpc \in Live /\ Stages /\ Pipes
  BY DEF Known, PipesInv, Live
<1>2. t \in Listed
  BY <1>1 DEF Known, StillStopped
<1>3. PICK m \in DOMAIN procs : procs[m].status = "ATTACHED" /\ procs[m].tid = t
  BY <1>1, <1>2 DEF Stages
<1>4. \A i \in Found(procs, t) : procs[i].status = "ATTACHED"
  BY <1>3 DEF Known, Base, TablesInv, UniqueTids, Found, InUse
<1> QED
  BY <1>1, <1>2, <1>4 DEF Pipes, Owns

\* The handler of a worker whose slot stays as it is.
LEMMA PeekKept ==
  ASSUME Known, mpc \in Looping, NEW u \in Tids, PeekFits(workers[u]), workers'[u] = workers[u],
         "execve" \in Calls /\ Busy(u) => \A i \in Found(procs, u) : procs'[i] = procs[i]
  PROVE  PeekFits(workers[u])'
<1>1. workers[u].pc = "peek" /\ "execve" \in Calls => procs'[workers[u].slot] = procs[workers[u].slot]
  BY PeekingOwns DEF Busy, InHand
<1> QED
  BY <1>1 DEF PeekFits

\* A step that leaves the workers alone, and the slots of those that are busy.
LEMMA StandsAttended ==
  ASSUME Known, AttendInv, mpc \in Looping, UNCHANGED <<workers, toWorker, toTracer>>,
         \A k \in DOMAIN procs' : InfoFits(procs'[k]),
         \A k \in DOMAIN procs' :
            procs'[k].status = "ATTACHED" /\ Waits(tracee[procs[k].tid])' =>
               /\ k \in DOMAIN procs /\ procs[k].status = "ATTACHED"
               /\ procs[k].tid = procs'[k].tid /\ Waits(tracee[procs[k].tid]),
         "execve" \in Calls =>
            \A u \in Tids : Busy(u) => \A k \in Found(procs, u) : procs'[k] = procs[k]
  PROVE  AttendInv'
<1>1. \A u : Busy(u)' <=> Busy(u)
  BY DEF Busy, InHand, Pointed
<1>2. \A u \in Tids : PeekFits(workers[u])' /\ workers'[u].pc # "exited"
  BY PeekKept DEF AttendInv
<1>3. Attended'
  BY <1>1 DEF AttendInv, Attended
<1> QED
  BY <1>2, <1>3 DEF AttendInv

------------------------------------------------------------------------------
(* The workers.                                                              *)

\* A worker's step: it writes its slot at most, and stays busy if it was.
LEMMA WorkerAttends ==
  ASSUME Known, AttendInv, mpc \in Looping, NEW t \in Tids,
         UNCHANGED <<kernelVars, list>>, SameSlots,
         \A u \in Tids : u # t => /\ workers'[u] = workers[u]
                                  /\ toWorker'[u] = toWorker[u] /\ toTracer'[u] = toTracer[u],
         \A k \in DOMAIN procs : InfoFits(procs'[k]),
         "execve" \in Calls => \A k \in DOMAIN procs : k \notin Found(procs, t) => procs'[k] = procs[k],
         workers'[t].pc # "exited", PeekFits(workers[t])', Busy(t) => Busy(t)'
  PROVE  AttendInv'
<1>1. \A u \in Tids : u # t => (Busy(u)' <=> Busy(u))
  BY BusyWith
<1>2. ASSUME NEW u \in Tids, u # t PROVE PeekFits(workers[u])' /\ workers'[u].pc # "exited"
  <2>1. PeekFits(workers[u]) /\ workers[u].pc # "exited"
    BY DEF AttendInv
  <2>2. CASE "execve" \in Calls
    <3>1. \A i \in Found(procs, u) : procs'[i] = procs[i]
      BY <1>2, <2>2 DEF Found, InUse
    <3> QED
      BY <1>2, <2>1, <3>1, PeekKept
  <2>3. CASE "execve" \notin Calls
    BY <1>2, <2>1, <2>3 DEF PeekFits
  <2> QED
    BY <2>2, <2>3
<1>3. \A i \in DOMAIN procs : procs'[i].tid = procs[i].tid /\ procs'[i].status = procs[i].status
  BY DEF SameSlots, SameSlot
<1>4. Attended'
  <2>1. tracee' = tracee /\ DOMAIN procs' = DOMAIN procs
    BY DEF kernelVars, SameSlots
  <2>2. ASSUME NEW i \in DOMAIN procs', procs'[i].status = "ATTACHED", Waits(tracee[procs[i].tid])'
        PROVE  Busy(procs[i].tid)'
    <3>1. procs[i].status = "ATTACHED" /\ Waits(tracee[procs[i].tid]) /\ procs[i].tid = procs'[i].tid
      BY <1>3, <2>1, <2>2
    <3>2. Busy(procs[i].tid)
      BY <2>1, <3>1 DEF AttendInv, Attended
    <3>3. procs[i].tid \in Tids
      BY <2>1, <2>2, <3>1 DEF Known, PipesInv, Stages, InUse
    <3>4. \A u \in Tids : Busy(u) => Busy(u)'
      BY <1>1
    <3>5. PICK v \in Tids : v = procs[i].tid
      BY <3>3
    <3>6. Busy(v)'
      BY <3>2, <3>4, <3>5
    <3> QED
      BY <3>1, <3>5, <3>6
  <2> QED
    BY <2>2 DEF Attended
<1> QED
  BY <1>2, <1>4 DEF AttendInv, SameSlots

LEMMA EndOfStopAttends ==
  ASSUME Known, AttendInv, mpc \in Looping, NEW t \in Tids,
         toTracer[t] = <<>>, Len(toWorker[t]) = 1,
         NEW i \in DOMAIN procs, NEW s, SameSlot(Toggled(s), procs[i]),
         NEW tid \in Tids \cup {NoTid}, EndOfStop(t, i, s, tid), UNCHANGED <<kernelVars, list>>,
         ~ GivesUp(s), InfoFits(Toggled(s)), "execve" \in Calls => i \in Found(procs, t)
  PROVE  AttendInv'
<1>0. /\ workers \in [Tids -> Worker] /\ WellTyped /\ procs \in Seq(Slot(Tids))
  BY DEF Known, Base, TInv, WellTyped
<1>1. SameSlots
  BY <1>0, OneSlotWritten DEF EndOfStop
<1>2. /\ procs' = [procs EXCEPT ![i] = Toggled(s)]
      /\ workers' = [workers EXCEPT ![t] = [pc |-> "resume", slot |-> i, tid |-> tid, fun |-> "none"]]
      /\ Ask(t, "syscall", tid, TRUE)
  BY DEF EndOfStop
<1>3. /\ Len(toTracer'[t]) = 1
      /\ \A u \in Tids : u # t => toWorker'[u] = toWorker[u] /\ toTracer'[u] = toTracer[u]
  BY <1>2, AskedOnce DEF Known, Base
<1>4. workers'[t].pc = "resume" /\ \A u \in Tids : u # t => workers'[u] = workers[u]
  BY <1>0, <1>2
<1>5. toTracer'[t] # <<>>
  BY <1>3
<1>6. Busy(t)' /\ PeekFits(workers[t])' /\ workers'[t].pc # "exited"
  BY <1>4, <1>5 DEF Busy, InHand, PeekFits
<1>7. procs'[i] = Toggled(s) /\ \A k \in DOMAIN procs : k # i => procs'[k] = procs[k]
  BY <1>0, <1>2
<1>8. \A k \in DOMAIN procs : InfoFits(procs'[k])
  BY <1>7 DEF AttendInv
<1>9. "execve" \in Calls => \A k \in DOMAIN procs : k \notin Found(procs, t) => procs'[k] = procs[k]
  BY <1>7
<1> QED
  BY <1>1, <1>3, <1>4, <1>6, <1>8, <1>9, WorkerAttends

\* A worker that receives something in the loop: what it works on.
LEMMA Receiver ==
  ASSUME Known, AttendInv, mpc \in Looping, NEW t \in Tids, Receives(t, "idle") \/ Receives(t, "peek")
  PROVE  /\ toTracer[t] = <<>> /\ Len(toWorker[t]) = 1 /\ Busy(t)
         /\ LET i == IF workers[t].pc = "idle" THEN Head(toWorker[t]).arg ELSE workers[t].slot
            IN  /\ i \in DOMAIN procs /\ procs[i] \in Slot(Tids) /\ InfoFits(procs[i])
                /\ "execve" \in Calls => i \in Found(procs, t) /\ procs[i].status = "ATTACHED"
                /\ "execve" \notin Calls => procs[i].call # "execve"
<1> DEFINE i == IF workers[t].pc = "idle" THEN Head(toWorker[t]).arg ELSE workers[t].slot
<1>1. /\ toTracer[t] = <<>> /\ Len(toWorker[t]) = 1 /\ Busy(t)
      /\ i \in DOMAIN procs /\ procs[i] \in Slot(Tids)
      /\ t \in Listed => i \in Found(procs, t)
  BY StopReceived DEF Known, Base
<1> HIDE DEF i
<1>2. InfoFits(procs[i])
  BY <1>1 DEF AttendInv
<1>3. "execve" \in Calls => i \in Found(procs, t) /\ procs[i].status = "ATTACHED"
  BY <1>1, PeekingOwns
<1>4. "execve" \notin Calls => procs[i].call # "execve"
  BY <1>1 DEF Known, PipesInv, SlotsInOrder, SlotInOrder, MadeCalls, Live
<1> QED
  BY <1>1, <1>2, <1>3, <1>4 DEF i

LEMMA StopHandledAttends ==
  ASSUME Known, AttendInv, mpc \in Looping, NEW t \in Tids, StopHandled(t)
  PROVE  AttendInv'
<1> DEFINE i == Head(toWorker[t]).arg
           s == procs[i]
<1>1. Receives(t, "idle") /\ workers[t].pc = "idle" /\ UNCHANGED <<kernelVars, list>>
  BY DEF StopHandled, Receives, pool
<1>2. /\ toTracer[t] = <<>> /\ Len(toWorker[t]) = 1
      /\ i \in DOMAIN procs /\ s \in Slot(Tids) /\ InfoFits(s)
      /\ "execve" \in Calls => i \in Found(procs, t)
  BY <1>1, Receiver
<1>3. EndOfStop(t, i, ExecdIgnored(s), s.tid) \/ EndOfStop(t, i, Handled(s), s.tid)
  BY DEF StopHandled
<1> HIDE DEF i
<1>4. s.tid \in Tids \cup {NoTid}
  BY <1>2 DEF Slot, NoTid
<1>5. SameSlot(Toggled(ExecdIgnored(s)), s) /\ SameSlot(Toggled(Handled(s)), s)
  BY <1>2, HandlersKeepSlot
<1>6. /\ ~ GivesUp(ExecdIgnored(s)) /\ InfoFits(Toggled(ExecdIgnored(s)))
      /\ ~ GivesUp(Handled(s)) /\ InfoFits(Toggled(Handled(s)))
  BY <1>2, HandledFits
<1>7. CASE EndOfStop(t, i, ExecdIgnored(s), s.tid)
  BY <1>1, <1>2, <1>4, <1>5, <1>6, <1>7, EndOfStopAttends
<1>8. CASE EndOfStop(t, i, Handled(s), s.tid)
  BY <1>1, <1>2, <1>4, <1>5, <1>6, <1>8, EndOfStopAttends
<1> QED
  BY <1>3, <1>7, <1>8

LEMMA PeekAttends ==
  ASSUME Known, AttendInv, mpc \in Looping, NEW t \in Tids, StopPeeks(t) \/ PeekAgain(t)
  PROVE  AttendInv'
<1>0. workers \in [Tids -> Worker] /\ toWorker \in [Tids -> Seq(Word)] /\ toTracer \in [Tids -> Seq(Request)]
  BY DEF Known, Base, TInv, WellTyped
<1>1. /\ UNCHANGED <<kernelVars, list, procs>>
      /\ \A u \in Tids : u # t => /\ workers'[u] = workers[u]
                                  /\ toWorker'[u] = toWorker[u] /\ toTracer'[u] = toTracer[u]
  BY <1>0 DEF StopPeeks, PeekAgain, Ask, pool, tables
<1>2. workers'[t].pc = "peek" /\ PeekFits(workers[t])'
  <2>1. CASE StopPeeks(t)
    <3> DEFINE i == Head(toWorker[t]).arg
    <3>1. Receives(t, "idle") /\ workers[t].pc = "idle"
      BY <2>1 DEF StopPeeks, Receives
    <3>2. /\ workers'[t].pc = "peek" /\ workers'[t].slot = i
          /\ workers'[t].fun = PeekingHandler(procs[i])
      BY <1>0, <2>1 DEF StopPeeks
    <3>3. "execve" \notin Calls => procs[i].call # "execve"
      BY <3>1, Receiver
    <3> HIDE DEF i
    <3>4. "execve" \notin Calls => PeekingHandler(procs[i]) # "execve"
      BY <3>3 DEF PeekingHandler
    <3>5. PeekFits(workers[t])'
      BY <1>1, <3>2, <3>4 DEF PeekFits
    <3> QED
      BY <3>2, <3>5
  <2>2. CASE PeekAgain(t)
    <3>1. workers' = workers /\ workers[t].pc = "peek" /\ PeekFits(workers[t])
      BY <2>2 DEF PeekAgain, Receives, AttendInv
    <3> QED
      BY <1>1, <3>1 DEF PeekFits
  <2> QED
    BY <2>1, <2>2
<1>3. Busy(t)'
  BY <1>2 DEF Busy, InHand
<1>4. SameSlots
  BY <1>1, NothingWritten
<1>5. \A k \in DOMAIN procs : InfoFits(procs'[k]) /\ procs'[k] = procs[k]
  BY <1>1 DEF AttendInv
<1>6. workers'[t].pc # "exited"
  BY <1>2
<1> QED
  BY <1>1, <1>2, <1>3, <1>4, <1>5, <1>6, WorkerAttends

LEMMA PathReadAttends ==
  ASSUME Known, AttendInv, mpc \in Looping, NEW t \in Tids, PathRead(t), mpc' \in Looping
  PROVE  AttendInv'
<1> DEFINE w == workers[t]
           s == procs[w.slot]
           by == IF Head(toWorker[t]).word = "res" THEN w.tid ELSE NoTid
           f == [s EXCEPT !.execve_info = by]
<1>1. /\ Receives(t, "peek") /\ w.pc = "peek" /\ PeekFits(w)
      /\ UNCHANGED <<kernelVars, list>>
  BY DEF PathRead, Receives, AttendInv, pool
<1>2. /\ toTracer[t] = <<>> /\ Len(toWorker[t]) = 1
      /\ w.slot \in DOMAIN procs /\ s \in Slot(Tids) /\ InfoFits(s)
      /\ "execve" \in Calls => w.slot \in Found(procs, t) /\ s.status = "ATTACHED"
      /\ "execve" \notin Calls => s.call # "execve"
  BY <1>1, Receiver
<1>3. \/ w.fun \in {"open", "chdir"} /\ EndOfStop(t, w.slot, s, w.tid)
      \/ w.fun = "execve" /\ EndOfStop(t, w.slot, f, w.tid)
  BY DEF PathRead, syscall_fileopening, syscall_chdir, syscall_execve_in, Looping
<1>4. w.tid \in Tids \cup {NoTid} /\ by \in Tids \cup {NoTid}
  BY DEF Known, Base, TInv, WellTyped, Worker
<1> HIDE DEF by
<1>5. SameSlot(Toggled(s), s) /\ SameSlot(Toggled(f), s)
  BY <1>2, <1>4, HandlersKeepSlot
<1>6. CASE w.fun \in {"open", "chdir"} /\ EndOfStop(t, w.slot, s, w.tid)
  <2>1. s.call # "execve"
    BY <1>1, <1>2, <1>6 DEF PeekFits, PeekingHandler
  <2>2. ~ GivesUp(s) /\ InfoFits(Toggled(s))
    BY <1>2, <2>1, HandledFits
  <2> QED
    BY <1>1, <1>2, <1>4, <1>5, <1>6, <2>2, EndOfStopAttends
<1>7. CASE w.fun = "execve" /\ EndOfStop(t, w.slot, f, w.tid)
  <2>1. "execve" \in Calls /\ ~ s.in_syscall /\ s.call = "execve"
    BY <1>1, <1>7 DEF PeekFits, PeekingHandler
  <2>2. ~ GivesUp(f) /\ InfoFits(Toggled(f))
    BY <1>2, <1>4, <2>1, HandledFits
  <2> HIDE DEF f
  <2> QED
    BY <1>1, <1>2, <1>4, <1>5, <1>7, <2>2, EndOfStopAttends
<1> QED
  BY <1>3, <1>6, <1>7

LEMMA AnsweredAttends ==
  ASSUME Known, AttendInv, mpc \in Looping, NEW t \in Tids, Answered(t)
  PROVE  AttendInv'
<1>0. /\ workers \in [Tids -> Worker] /\ toWorker \in [Tids -> Seq(Word)] /\ WellTyped
      /\ toWorker[t] \in Seq(Word)
  BY DEF Known, Base, TInv, WellTyped
<1>1. /\ mpc \in Live /\ workers[t].pc = "resume" /\ toWorker[t] # <<>>
      /\ UNCHANGED <<kernelVars, list, procs, toTracer>>
      /\ workers' = [workers EXCEPT ![t] = [NoWorker EXCEPT !.pc = "idle"]]
      /\ toWorker' = [toWorker EXCEPT ![t] = Tail(@)]
  BY DEF Answered, Receives, tables, pool
<1>2. /\ workers'[t].pc = "idle" /\ toWorker'[t] = Tail(toWorker[t])
      /\ \A u \in Tids : u # t => /\ workers'[u] = workers[u]
                                  /\ toWorker'[u] = toWorker[u] /\ toTracer'[u] = toTracer[u]
  BY <1>0, <1>1 DEF NoWorker
<1>3. PipesOf(workers[t].pc, toWorker[t], toTracer[t])
  BY <1>1 DEF Known, PipesInv, Pipes
<1>4. Busy(t) => Two(toWorker[t])
  <2>1. toTracer[t] = <<>> /\ (One(toWorker[t], "res") \/ Two(toWorker[t]))
    BY <1>1, <1>3 DEF PipesOf
  <2> QED
    BY <1>0, <1>1, <1>3, <2>1, BusyMeans DEF One
<1>5. Busy(t) => Busy(t)'
  <2> SUFFICES ASSUME Two(toWorker[t]) PROVE Busy(t)'
    BY <1>4
  <2>1. One(toWorker'[t], "ptr")
    BY <1>0, <1>2, PipeContents
  <2>2. toWorker'[t] \in Seq(Word)
    BY <1>0, <1>1, <1>2, HeadTailProperties
  <2>3. DOMAIN toWorker'[t] = {1} /\ toWorker'[t][1].word = "ptr"
    BY <2>1, <2>2 DEF One
  <2>4. Pointed(t)'
    BY <2>3 DEF Pointed
  <2> QED
    BY <2>4 DEF Busy, InHand
<1>6. SameSlots
  BY <1>1, NothingWritten
<1>7. \A k \in DOMAIN procs : InfoFits(procs'[k]) /\ procs'[k] = procs[k]
  BY <1>1 DEF AttendInv
<1>8. workers'[t].pc # "exited" /\ PeekFits(workers[t])'
  BY <1>2 DEF PeekFits
<1> QED
  BY <1>1, <1>2, <1>5, <1>6, <1>7, <1>8, WorkerAttends

------------------------------------------------------------------------------
(* The main thread.                                                          *)

\* A stop answered at once: its slot changes at most, the tracee runs.
LEMMA StopAttends ==
  ASSUME Known, AttendInv, NEW t \in Tids, Waited(t), Event(t) # "exit",
         UNCHANGED <<workers, toWorker, toTracer>>, DOMAIN procs' = DOMAIN procs,
         NEW i \in DOMAIN procs, procs[i].tid = t, procs'[i].tid = t,
         \A k \in DOMAIN procs : k # i => procs'[k] = procs[k],
         InfoFits(procs'[i]), tracee' = [tracee EXCEPT ![t] = Resumed(Reaped(@))]
  PROVE  AttendInv'
<1>1. /\ mpc = "wait" /\ mpc \in Looping /\ Stages /\ ~ Busy(t)
      /\ Resumed(Reaped(tracee[t])).st = "running"
  BY StopTaken DEF Known, Base, Looping
<1>2. ~ Waits(tracee[t])' /\ \A u \in Tids : u # t => tracee'[u] = tracee[u]
  BY <1>1 DEF Waits, Known, Base, TInv, KernelInv
<1>3. \A k \in DOMAIN procs' : InfoFits(procs'[k])
  BY <1>1 DEF AttendInv
<1>4. ASSUME NEW k \in DOMAIN procs', procs'[k].status = "ATTACHED", Waits(tracee[procs[k].tid])'
      PROVE  /\ k \in DOMAIN procs /\ procs[k].status = "ATTACHED"
             /\ procs[k].tid = procs'[k].tid /\ Waits(tracee[procs[k].tid])
  <2>1. k # i
    BY <1>2, <1>4
  <2>2. procs'[k] = procs[k] /\ procs[k].tid \in Tids /\ procs[k].tid # t
    BY <1>1, <1>2, <1>4, <2>1 DEF Stages, InUse
  <2> QED
    BY <1>2, <1>4, <2>2 DEF Waits
<1>5. \A u \in Tids : Busy(u) => \A k \in Found(procs, u) : procs'[k] = procs[k]
  BY <1>1 DEF Found, InUse
<1> QED
  BY <1>1, <1>3, <1>4, <1>5, StandsAttended

LEMMA AppearsAttends ==
  ASSUME Known, AttendInv, NEW t \in Tids, Appears(t)
  PROVE  AttendInv'
<1> USE DEF Known, Base
<1> DEFINE ps == WithRoom(procs)
           j == EmptySlot(procs)
           s == [ps[j] EXCEPT !.status = "UNKNOWN", !.flags = {}, !.tid = t, !.tg = NoGroup,
                              !.in_syscall = FALSE]
<1>0. /\ Waited(t) /\ Event(t) # "exit" /\ Found(procs, t) = {}
      /\ procs' = [ps EXCEPT ![j] = s]
      /\ tracee' = [tracee EXCEPT ![t] = Reaped(@)]
      /\ UNCHANGED <<workers, toWorker, toTracer>>
  BY DEF Appears, pipes
<1>1. mpc \in Looping /\ Stages
  BY <1>0, StopTaken DEF Looping
<1>2. /\ ps \in Seq(Slot(Tids)) /\ DOMAIN procs \subseteq DOMAIN ps
      /\ j \in DOMAIN ps /\ ps[j].status = "FREE"
      /\ \A i \in DOMAIN procs : ps[i] = procs[i]
      /\ \A i \in DOMAIN ps : i \notin DOMAIN procs => ps[i] = FreeSlot
  BY RoomInTable DEF TInv
<1>3. s.status = "UNKNOWN" /\ s.execve_info = ps[j].execve_info
  <2>1. ps[j] \in Slot(Tids)
    BY <1>2
  <2> HIDE DEF ps, j
  <2> QED
    BY <2>1 DEF Slot
<1> HIDE DEF ps, j, s
<1>4. DOMAIN procs' = DOMAIN ps /\ procs'[j] = s /\ \A i \in DOMAIN ps : i # j => procs'[i] = ps[i]
  BY <1>0, <1>2
<1>5. FreeSlot.status = "FREE" /\ FreeSlot.execve_info = NoInfo
  BY DEF FreeSlot
<1>6. \A i \in DOMAIN ps : InfoFits(ps[i])
  BY <1>1, <1>2, <1>5 DEF AttendInv, InfoFits
<1>7. InfoFits(s)
  BY <1>2, <1>3, <1>6 DEF InfoFits
<1>8. \A k \in DOMAIN procs' : InfoFits(procs'[k])
  BY <1>4, <1>6, <1>7
<1>9. \A u \in Tids : u # t => tracee'[u] = tracee[u]
  BY <1>0 DEF TInv, KernelInv
<1>10. ASSUME NEW k \in DOMAIN procs', procs'[k].status = "ATTACHED"
       PROVE  /\ k \in DOMAIN procs /\ procs'[k] = procs[k]
              /\ procs[k].tid \in Tids /\ tracee'[procs[k].tid] = tracee[procs[k].tid]
  <2>1. k # j /\ procs'[k] = ps[k]
    BY <1>3, <1>4, <1>10
  <2>2. k \in DOMAIN procs /\ ps[k] = procs[k]
    BY <1>2, <1>4, <1>5, <1>10, <2>1
  <2>3. k \in InUse(procs) /\ procs[k].tid # t
    BY <1>0, <1>10, <2>1, <2>2 DEF Found, InUse
  <2> QED
    BY <1>1, <1>9, <2>1, <2>2, <2>3 DEF Stages
<1>11. \A k \in DOMAIN procs' :
          procs'[k].status = "ATTACHED" /\ Waits(tracee[procs[k].tid])' =>
               /\ k \in DOMAIN procs /\ procs[k].status = "ATTACHED"
               /\ procs[k].tid = procs'[k].tid /\ Waits(tracee[procs[k].tid])
  BY <1>10 DEF Waits
<1>12. \A u \in Tids : \A k \in Found(procs, u) : procs'[k] = procs[k]
  BY <1>2, <1>4 DEF Found, InUse
<1> QED
  BY <1>0, <1>1, <1>8, <1>11, <1>12, StandsAttended

LEMMA AttachedAttends ==
  ASSUME Known, AttendInv, NEW t \in Tids, Attached(t)
  PROVE  AttendInv'
<1> USE DEF Known, Base
<1> DEFINE i == Find(procs, t)
           s == [procs[i] EXCEPT !.status = "ATTACHED"]
<1>1. /\ Waited(t) /\ Event(t) # "exit" /\ Found(procs, t) # {}
      /\ UNCHANGED <<workers, toWorker, toTracer>>
      /\ tracee' = [tracee EXCEPT ![t] = Resumed(Reaped(@))]
      /\ procs[i].status = "ALLOCATED" /\ procs' = [procs EXCEPT ![i] = s]
  BY DEF Attached, pipes
<1>2. i \in DOMAIN procs /\ procs[i] \in Slot(Tids) /\ procs[i].tid = t
  BY <1>1, FindFinds DEF TInv, WellTyped
<1>3. InfoFits(procs[i])
  BY <1>1, <1>2, StopTaken DEF AttendInv, Looping
<1> HIDE DEF i
<1>4. s.tid = procs[i].tid /\ s.execve_info = procs[i].execve_info
  BY <1>2 DEF Slot
<1> HIDE DEF s
<1>5. InfoFits(s)
  BY <1>1, <1>3, <1>4 DEF InfoFits
<1>6. DOMAIN procs' = DOMAIN procs /\ procs'[i] = s /\ \A k \in DOMAIN procs : k # i => procs'[k] = procs[k]
  BY <1>1, <1>2 DEF TInv, WellTyped
<1> QED
  BY <1>1, <1>2, <1>4, <1>5, <1>6, StopAttends

LEMMA SignalAttends ==
  ASSUME Known, AttendInv, NEW t \in Tids, SignalForwarded(t)
  PROVE  AttendInv'
<1>1. /\ Stop(t, {"signal", "sigstop"}) /\ UNCHANGED <<procs, workers, toWorker, toTracer>>
      /\ tracee' = [tracee EXCEPT ![t] = Resumed(Reaped(@))]
  BY DEF SignalForwarded, tables, pipes
<1>2. /\ Waited(t) /\ Event(t) # "exit" /\ Find(procs, t) \in DOMAIN procs
      /\ procs[Find(procs, t)].tid = t
  BY <1>1, StopSlot DEF Known
<1>3. InfoFits(procs[Find(procs, t)])
  BY <1>2, StopTaken DEF Known, Base, AttendInv, Looping
<1> QED
  BY <1>1, <1>2, <1>3, StopAttends

\* Only a process that had an execve_info stays in the loop with its exec event.
LEMMA ExecAttends ==
  ASSUME Known, NoExecInThreads, AttendInv, NEW t \in Tids, ExecEvent(t), mpc' \in Looping
  PROVE  AttendInv'
<1> USE DEF Known, Base
<1> DEFINE i == Find(procs, t)
           own == procs[i].execve_info # NoInfo
           s == [[procs[i] EXCEPT !.execve_info = NoInfo] EXCEPT !.flags = {"EXECD"}]
<1>1. Stop(t, {"exec"}) /\ UNCHANGED <<workers, toWorker, toTracer>>
  BY DEF ExecEvent, pipes
<1>2. /\ Waited(t) /\ Event(t) # "exit"
      /\ i \in DOMAIN procs /\ procs[i] \in Slot(Tids) /\ procs[i].tid = t
  BY <1>1, StopSlot
<1>3. own
  <2> SUFFICES ASSUME ~ own PROVE FALSE
    OBVIOUS
  <2>1. ExecCallers(i) = {}
    BY <1>1, ExecByItself
  <2>2. mpc' \in {"segv", "failed"}
    BY <2>1 DEF ExecEvent, InsertionFails
  <2> QED
    BY <2>2 DEF Looping
<1>4. /\ procs' = [[procs EXCEPT ![i].execve_info = NoInfo] EXCEPT ![i].flags = {"EXECD"}]
      /\ tracee' = [tracee EXCEPT ![t] = Resumed(Reaped(@))]
  BY <1>3 DEF ExecEvent, InsertionFails, Looping
<1>5. procs' = [procs EXCEPT ![i] = s]
  BY <1>2, <1>4 DEF TInv, WellTyped
<1> HIDE DEF i, own
<1>6. s.tid = t /\ s.execve_info = NoInfo
  BY <1>2 DEF Slot
<1> HIDE DEF s
<1>7. DOMAIN procs' = DOMAIN procs /\ procs'[i] = s /\ \A k \in DOMAIN procs : k # i => procs'[k] = procs[k]
  BY <1>2, <1>5 DEF TInv, WellTyped
<1>8. InfoFits(s)
  BY <1>6 DEF InfoFits
<1> QED
  BY <1>1, <1>2, <1>4, <1>6, <1>7, <1>8, StopAttends

LEMMA ForkAttends ==
  ASSUME Known, AttendInv, NEW t \in Tids, ForkEvent(t), mpc' \in Looping
  PROVE  AttendInv'
<1> USE DEF Known, Base
<1> DEFINE i == Find(procs, t)
<1>1. /\ Stop(t, {"spawn"}) /\ UNCHANGED <<workers, toWorker, toTracer>>
      /\ ~ UNCHANGED <<tracee, tables>>
  BY ForkGoesOn DEF ForkEvent, pipes
<1>2. /\ Waited(t) /\ Event(t) # "exit"
      /\ i \in DOMAIN procs /\ procs[i] \in Slot(Tids) /\ procs[i].tid = t
      /\ procs[i].status = "ATTACHED"
  BY <1>1, StopSlot
<1>3. /\ mpc \in Looping /\ Stages /\ ~ Busy(t) /\ Resumed(Reaped(tracee[t])).st = "running"
  BY <1>2, StopTaken DEF Looping
<1>4. PICK c \in Tids, j \in DOMAIN procs' : ForkTakes(t, c, j) /\ ForkFills(t, c, j)
  BY <1>1, ForkWrites
<1>5. /\ \A k \in DOMAIN procs : InfoFits(procs[k])
      /\ InfoFits(procs[i]) /\ InfoFits(FreeSlot)
  BY <1>2, <1>3 DEF AttendInv, InfoFits, FreeSlot
<1>6. /\ procs'[i] = [procs[i] EXCEPT !.flags = @ \ {"FORKING"}] /\ i # j
      /\ \A k \in DOMAIN procs \ {j} : k # i => procs'[k] = procs[k]
      /\ \A k \in DOMAIN procs' \ {j} : k \notin DOMAIN procs => procs'[k] = FreeSlot
      /\ tracee'[t].st = "running"
  BY <1>3, <1>4 DEF ForkFills, Looping
<1> HIDE DEF i
<1>7. InfoFits(procs'[i]) /\ procs'[i].tid = t
  <2>1. /\ procs'[i].execve_info = procs[i].execve_info /\ procs'[i].status = procs[i].status
        /\ procs'[i].in_syscall = procs[i].in_syscall /\ procs'[i].call = procs[i].call
        /\ procs'[i].tid = procs[i].tid
    BY <1>2, <1>6 DEF Slot
  <2> QED
    BY <1>2, <1>5, <2>1 DEF InfoFits
<1>8. /\ InfoFits(procs'[j]) /\ procs'[j].tid = c
      /\ procs'[j].status = IF Found(procs, c) # {} THEN "ATTACHED" ELSE "ALLOCATED"
  <2>1. j \in DOMAIN procs => procs[j].execve_info = NoInfo
    BY <1>4, <1>5 DEF ForkTakes, InfoFits
  <2>2. procs'[j].execve_info = NoInfo
    BY <1>4, <2>1, ForkSlot
  <2> QED
    BY <1>4, <2>2, ForkSlot DEF InfoFits
<1>9. \A k \in DOMAIN procs' : InfoFits(procs'[k])
  BY <1>5, <1>6, <1>7, <1>8
<1>10. ASSUME NEW k \in DOMAIN procs', procs'[k].status = "ATTACHED", Waits(tracee[procs[k].tid])'
       PROVE  /\ k \in DOMAIN procs /\ procs[k].status = "ATTACHED"
              /\ procs[k].tid = procs'[k].tid /\ Waits(tracee[procs[k].tid])
  <2>1. k # i
    BY <1>6, <1>7, <1>10 DEF Waits
  <2>2. k # j
    <3> SUFFICES ASSUME k = j PROVE FALSE
      OBVIOUS
    <3>1. tracee'[c] = Resumed(tracee[c])
      BY <1>4, <1>8, <1>10 DEF ForkTakes
    <3>2. Waits(Resumed(tracee[c]))
      BY <1>8, <1>10, <3>1 DEF Waits
    <3>3. tracee[c] \in Tracee
      BY DEF TInv, KernelInv
    <3> QED
      BY <3>2, <3>3 DEF Waits, Resumed, Tracee
  <2>3. k \in DOMAIN procs
    BY <1>6, <1>10, <2>2 DEF FreeSlot
  <2>4. procs'[k] = procs[k] /\ k \in InUse(procs) /\ procs[k].tid \in Tids
    BY <1>3, <1>6, <1>10, <2>1, <2>2, <2>3 DEF InUse, Stages
  <2>5. procs[k].tid # t /\ procs[k].tid # c
    <3>1. procs[k].tid # t
      BY <1>6, <1>10, <2>4 DEF Waits
    <3>2. k \in Found(procs, c) => k = j
      BY <1>4 DEF ForkTakes
    <3> QED
      BY <2>2, <2>4, <3>1, <3>2 DEF Found
  <2>6. tracee'[procs[k].tid] = tracee[procs[k].tid]
    BY <1>4, <2>4, <2>5 DEF ForkTakes
  <2> QED
    BY <1>10, <2>3, <2>4, <2>6 DEF Waits
<1>11. ASSUME "execve" \in Calls, NEW u \in Tids, Busy(u), NEW k \in Found(procs, u)
       PROVE  procs'[k] = procs[k]
  <2>1. procs[k].status = "ATTACHED"
    BY <1>3, <1>11, PeekingOwns
  <2>2. k \in DOMAIN procs /\ k # i
    BY <1>2, <1>3, <1>11 DEF Found, InUse
  <2>3. k # j
    BY <1>4, <2>1, <2>2 DEF ForkTakes
  <2> QED
    BY <1>6, <2>2, <2>3
<1> QED
  BY <1>1, <1>3, <1>9, <1>10, <1>11, StandsAttended

LEMMA ExitAttends ==
  ASSUME Known, AttendInv, NEW t \in Tids, ExitReported(t), mpc' \in Looping
  PROVE  AttendInv'
<1> USE DEF Known, Base
<1> DEFINE i == Find(procs, t)
<1>1. /\ mpc = "wait" /\ tracee[t].ev = "exit" /\ UNCHANGED <<workers, toWorker, toTracer>>
      /\ tracee' = [tracee EXCEPT ![t] = Reaped(@)]
  BY DEF ExitReported, Waited, Event, pipes
<1>2. tracee[t].st = "dead" /\ mpc \in Looping /\ Stages
  BY <1>1 DEF PipesInv, KernelOrder, Ordered, Looping
<1>3. /\ \A u \in Tids : u # t => tracee'[u] = tracee[u]
      /\ tracee'[t].st = "gone"
  <2>1. tracee[t] \in Tracee /\ tracee'[t] = Reaped(tracee[t])
    BY <1>1 DEF TInv, KernelInv
  <2>2. tracee'[t].st = "gone"
    BY <1>2, <2>1 DEF Reaped, Tracee
  <2> QED
    BY <1>1, <2>2 DEF TInv, KernelInv
<1>4. \/ procs' = procs
      \/ Found(procs, t) # {} /\ procs' = FreeProcess(procs, i)
  BY DEF ExitReported, tables, InsertionFails
<1>5. Found(procs, t) # {} => i \in DOMAIN procs /\ procs[i].tid = t /\ procs[i] \in Slot(Tids)
  BY FindFinds DEF TInv, WellTyped
<1> HIDE DEF i
<1>6. /\ DOMAIN procs' = DOMAIN procs
      /\ \A k \in DOMAIN procs : \/ procs'[k] = procs[k]
                                 \/ /\ procs[k].tid = t /\ procs'[k].status = "FREE"
                                    /\ procs'[k].execve_info = NoInfo
  <2>1. CASE procs' = procs
    BY <2>1
  <2>2. CASE Found(procs, t) # {} /\ procs' = FreeProcess(procs, i)
    <3> DEFINE s == [procs[i] EXCEPT !.status = "FREE", !.tg = NoGroup, !.execve_info = NoInfo]
    <3>1. s.status = "FREE" /\ s.execve_info = NoInfo
      BY <1>5, <2>2 DEF Slot
    <3>2. procs' = [procs EXCEPT ![i] = s]
      BY <2>2 DEF FreeProcess
    <3> HIDE DEF s
    <3> QED
      BY <1>5, <2>2, <3>1, <3>2 DEF TInv, WellTyped
  <2> QED
    BY <1>4, <2>1, <2>2
<1>7. \A k \in DOMAIN procs' : InfoFits(procs'[k])
  BY <1>2, <1>6 DEF AttendInv, InfoFits
<1>8. ASSUME NEW k \in DOMAIN procs', procs'[k].status = "ATTACHED", Waits(tracee[procs[k].tid])'
      PROVE  /\ k \in DOMAIN procs /\ procs[k].status = "ATTACHED"
             /\ procs[k].tid = procs'[k].tid /\ Waits(tracee[procs[k].tid])
  <2>1. k \in DOMAIN procs /\ procs'[k] = procs[k]
    BY <1>6, <1>8
  <2>2. procs[k].tid # t /\ procs[k].tid \in Tids
    BY <1>2, <1>3, <1>8, <2>1 DEF Waits, Stages, InUse
  <2> QED
    BY <1>3, <1>8, <2>1, <2>2 DEF Waits
<1>9. ASSUME "execve" \in Calls, NEW u \in Tids, Busy(u), NEW k \in Found(procs, u)
      PROVE  procs'[k] = procs[k]
  <2>1. tracee[u].st = "stopped"
    BY <1>2, <1>9 DEF StillStopped, Live
  <2> QED
    BY <1>2, <1>6, <1>9, <2>1 DEF Found, InUse
<1> QED
  BY <1>1, <1>2, <1>7, <1>8, <1>9, StandsAttended

\* A stop handed to its worker: the pointer is in the pipe.
LEMMA SyscallStopAttends ==
  ASSUME Known, AttendInv, NEW t \in Tids, SyscallStop(t)
  PROVE  AttendInv'
<1> USE DEF Known, Base
<1> DEFINE i == Find(procs, t)
           s == WithRegisters(procs[i], tracee[t])
           p == Pointer(i)
<1>0. /\ Stop(t, {"sysin", "sysout"})
      /\ procs' = [procs EXCEPT ![i] = s]
      /\ toWorker' = [toWorker EXCEPT ![t] = Append(@, Pointer(i))]
      /\ tracee' = [tracee EXCEPT ![t] = Reaped(@)]
      /\ mpc' = "poll" /\ UNCHANGED toTracer
  BY DEF SyscallStop
<1>1. /\ Waited(t) /\ Event(t) # "exit"
      /\ i \in DOMAIN procs /\ i \in InUse(procs) /\ i \in Nat /\ procs[i] \in Slot(Tids)
      /\ procs[i].status = "ATTACHED" /\ procs[i].tid = t
  BY <1>0, StopSlot
<1>2. mpc = "wait" /\ mpc \in Looping /\ mpc \in Live /\ Stages /\ ~ Busy(t)
  BY <1>1, StopTaken DEF Looping, Live
<1>3. /\ workers'[t].pc = IF workers[t].pc = "none" THEN "idle" ELSE workers[t].pc
      /\ \A u \in Tids : u # t => workers'[u] = workers[u]
  <2>1. t \in Listed <=> FindTid(list, t) # 0
    BY FindTidFinds, TidsAssumption DEF VInv, NoTid, Listed
  <2>2. workers[t].pc = "none" => t \notin Listed
    BY <1>2 DEF Stages
  <2>3. t \notin Listed => workers[t].pc = "none"
    <3>1. tracee[t].st # "gone"
      BY <1>1, StopTaken
    <3> QED
      BY <1>2, <3>1 DEF Stages
  <2>4. workers \in [Tids -> Worker]
    BY DEF TInv, WellTyped
  <2> QED
    BY <2>1, <2>2, <2>3, <2>4 DEF SyscallStop, NoWorker
<1>4. workers'[t].pc \in {"idle", "resume"}
  BY <1>0, <1>1, <1>2, <1>3, PointerSent
<1>5. Busy(t)'
  <2>1. toWorker[t] \in Seq(Word) /\ toWorker'[t] = Append(toWorker[t], p)
    BY <1>0 DEF TInv, WellTyped
  <2>2. p.word = "ptr"
    BY DEF Pointer
  <2> HIDE DEF p
  <2>3. Len(toWorker[t]) + 1 \in DOMAIN toWorker'[t] /\ toWorker'[t][Len(toWorker[t]) + 1] = p
    BY <2>1
  <2> QED
    BY <2>2, <2>3 DEF Busy, InHand, Pointed
<1>6. \A u \in Tids : u # t => /\ Busy(u)' <=> Busy(u)
                               /\ tracee'[u] = tracee[u]
  <2>1. \A u \in Tids : u # t => toWorker'[u] = toWorker[u] /\ toTracer'[u] = toTracer[u]
    BY <1>0 DEF TInv, WellTyped
  <2> QED
    BY <1>0, <1>3, <2>1, BusyWith DEF TInv, KernelInv
<1>7. InfoFits(procs[i])
  BY <1>1, <1>2 DEF AttendInv
<1> HIDE DEF i, p
<1>8. InfoFits(s) /\ s.tid = t
  <2>1. tracee[t] \in Tracee
    BY DEF TInv, KernelInv
  <2>2. /\ s.execve_info = procs[i].execve_info /\ s.status = procs[i].status
        /\ s.in_syscall = procs[i].in_syscall /\ s.tid = procs[i].tid
        /\ procs[i].in_syscall => s.call = procs[i].call
    BY <1>1, <2>1 DEF WithRegisters, Slot
  <2> QED
    BY <1>1, <1>7, <2>2 DEF InfoFits
<1> HIDE DEF s
<1>9. DOMAIN procs' = DOMAIN procs /\ procs'[i] = s /\ \A k \in DOMAIN procs : k # i => procs'[k] = procs[k]
  BY <1>0, <1>1 DEF TInv, WellTyped
<1>10. \A k \in DOMAIN procs' : InfoFits(procs'[k])
  BY <1>2, <1>8, <1>9 DEF AttendInv
<1>11. ASSUME NEW u \in Tids PROVE PeekFits(workers[u])' /\ workers'[u].pc # "exited"
  <2>1. CASE u = t
    BY <1>4, <2>1 DEF PeekFits
  <2>2. CASE u # t
    <3>1. \A k \in Found(procs, u) : procs'[k] = procs[k]
      BY <1>1, <1>9, <2>2 DEF Found, InUse
    <3>2. workers'[u] = workers[u] /\ PeekFits(workers[u]) /\ workers[u].pc # "exited"
      BY <1>2, <1>3, <2>2 DEF AttendInv
    <3> QED
      BY <1>2, <3>1, <3>2, PeekKept
  <2> QED
    BY <2>1, <2>2
<1>12. Attended'
  <2>1. ASSUME NEW k \in DOMAIN procs', procs'[k].status = "ATTACHED", Waits(tracee[procs[k].tid])'
        PROVE  Busy(procs[k].tid)'
    <3>1. CASE k = i
      BY <1>5, <1>8, <1>9, <3>1
    <3>2. CASE k # i
      <4>1. procs'[k] = procs[k] /\ k \in InUse(procs)
        BY <1>9, <2>1, <3>2 DEF InUse
      <4>2. PICK v \in Tids : v = procs[k].tid /\ v = procs'[k].tid
        BY <1>2, <4>1 DEF Stages
      <4>3. v # t => Waits(tracee[v])
        BY <1>6, <2>1, <4>2 DEF Waits
      <4>4. v # t => Busy(v)
        BY <1>2, <1>9, <2>1, <4>1, <4>2, <4>3 DEF AttendInv, Attended
      <4>5. Busy(v)'
        BY <1>5, <1>6, <4>4
      <4> QED
        BY <4>2, <4>5
    <3> QED
      BY <3>1, <3>2
  <2> QED
    BY <2>1 DEF Attended
<1> QED
  BY <1>10, <1>11, <1>12 DEF AttendInv

\* A request for the tracee's memory leaves the worker at work, one to run it lets
\* it run.
LEMMA ServeAttends ==
  ASSUME Known, AttendInv, Serve
  PROVE  AttendInv'
<1> USE DEF Known, Base
<1>1. PICK w \in Tids :
           /\ mpc = "serve" /\ workers[w].pc \in {"peek", "resume"}
           /\ \A u \in Tids : u # w => toTracer'[u] = toTracer[u] /\ toWorker'[u] = toWorker[u]
           /\ tracee' = IF workers[w].pc = "resume" /\ tracee[w].st = "stopped"
                        THEN [tracee EXCEPT ![w] = Resumed(@)] ELSE tracee
           /\ UNCHANGED <<procs, workers>>
  BY Served
<1>2. mpc \in Looping /\ Stages
  BY <1>1 DEF Looping, PipesInv
<1>3. \A u \in Tids : u # w => (Busy(u)' <=> Busy(u)) /\ tracee'[u] = tracee[u]
  BY <1>1, BusyWith DEF TInv, KernelInv
<1>4. workers[w].pc = "peek" => Busy(w)'
  BY <1>1 DEF Busy, InHand
<1>5. workers[w].pc = "resume" => tracee'[w].st # "stopped"
  BY <1>1 DEF Resumed, TInv, KernelInv, Tracee
<1>6. \A u \in Tids : PeekFits(workers[u])' /\ workers'[u].pc # "exited"
  BY <1>1, <1>2, PeekKept DEF AttendInv
<1>7. Attended'
  <2>1. ASSUME NEW k \in DOMAIN procs', procs'[k].status = "ATTACHED", Waits(tracee[procs[k].tid])'
        PROVE  Busy(procs[k].tid)'
    <3>1. procs' = procs /\ k \in InUse(procs)
      BY <1>1, <2>1 DEF InUse
    <3>2. PICK v \in Tids : v = procs[k].tid /\ v = procs'[k].tid
      BY <1>2, <3>1 DEF Stages
    <3>3. CASE v = w
      BY <1>1, <1>4, <1>5, <2>1, <3>2, <3>3 DEF Waits
    <3>4. CASE v # w
      <4>1. Waits(tracee[v])
        BY <1>3, <2>1, <3>2, <3>4 DEF Waits
      <4>2. Busy(v)
        BY <1>2, <2>1, <3>1, <3>2, <4>1 DEF AttendInv, Attended
      <4>3. Busy(v)'
        BY <1>3, <3>4, <4>2
      <4> QED
        BY <3>2, <4>3
    <3> QED
      BY <3>3, <3>4
  <2> QED
    BY <2>1 DEF Attended
<1> QED
  BY <1>1, <1>2, <1>6, <1>7 DEF AttendInv

LEMMA TraceeAttends ==
  ASSUME Known, NoExecInThreads, AttendInv, mpc \in Looping, NEW t \in Tids, TraceeStep(t)
  PROVE  AttendInv'
<1> USE DEF Known, Base
<1>1. KernelStep(t) /\ UNCHANGED <<procs, workers, toWorker, toTracer>>
  BY DEF TraceeStep, tracerVars
<1>2. Stages /\ KernelOrder
  BY DEF PipesInv
<1>3. ASSUME NEW k \in DOMAIN procs', procs'[k].status = "ATTACHED", Waits(tracee[procs[k].tid])'
      PROVE  Waits(tracee[procs[k].tid])
  <2>1. PICK v \in Tids : v = procs[k].tid /\ v = procs'[k].tid
    BY <1>1, <1>2, <1>3 DEF Stages, InUse
  <2>2. tracee'[v].st = "stopped" /\ tracee'[v].ev = "none"
    BY <1>3, <2>1 DEF Waits
  <2>3. tracee'[v] = tracee[v]
    BY <1>1, <1>2, <2>2, NoNewWait DEF TInv
  <2> QED
    BY <2>1, <2>2, <2>3 DEF Waits
<1> QED
  BY <1>1, <1>3, StandsAttended DEF AttendInv

------------------------------------------------------------------------------

LEMMA AttendInit == Init => AttendInv
<1> SUFFICES ASSUME Init PROVE AttendInv
  OBVIOUS
<1>1. /\ \A i \in DOMAIN procs : procs[i].execve_info = NoInfo /\ procs[i].status # "ATTACHED"
      /\ \A t \in Tids : workers[t].pc = "none"
  BY DEF Init, NoWorker, FreeSlot
<1> QED
  BY <1>1 DEF AttendInv, InfoFits, PeekFits, Attended

LEMMA AttendStep == Attentive /\ Known /\ AttendInv /\ [Next]_vars => AttendInv'
<1> SUFFICES ASSUME Attentive, Known, AttendInv, [Next]_vars, mpc' \in Looping PROVE AttendInv'
  BY DEF AttendInv
<1>1. NoExecInThreads /\ "db" \notin Faults
  BY AttentiveSafe DEF Attentive
<1>2. ASSUME UNCHANGED <<tracee, procs, workers, toWorker, toTracer>>, mpc \in Looping PROVE AttendInv'
  BY <1>2, StandsAttended DEF AttendInv
<1>3. ASSUME NEW t \in Tids, WaitStep(t) PROVE AttendInv'
  <2>1. ~ ExitWithoutWorker(t)
    BY DEF ExitWithoutWorker, Looping
  <2> QED
    BY <1>1, <1>3, <2>1, ExitAttends, AppearsAttends, AttachedAttends, SyscallStopAttends,
       ExecAttends, ForkAttends, SignalAttends DEF WaitStep
<1>4. CASE WaitNothing \/ Poll
  <2>1. UNCHANGED <<tracee, procs, workers, toWorker, toTracer>> /\ mpc \in Looping
    BY <1>4 DEF WaitNothing, Poll, Looping, kernelVars, tables, pipes
  <2> QED
    BY <1>2, <2>1
<1>5. ~ WaitFails /\ ~ Commit /\ ~ Rollback /\ ~ Interrupt
  BY DEF WaitFails, Commit, Rollback, Interrupt, Looping
<1>6. ASSUME NEW t \in Tids, WorkerStep(t) PROVE AttendInv'
  <2>1. ~ BadPointer(t) /\ ~ InsertFails(t)
    BY <1>1 DEF BadPointer, InsertFails, Looping
  <2>2. mpc \in Looping
    BY <1>6, <2>1 DEF WorkerStep, StopHandled, StopPeeks, PeekAgain, PathRead, Answered, Looping
  <2> QED
    BY <1>6, <2>1, <2>2, StopHandledAttends, PeekAttends, PathReadAttends, AnsweredAttends DEF WorkerStep
<1>7. ASSUME NEW t \in Tids, TraceeStep(t) PROVE AttendInv'
  BY <1>1, <1>7, TraceeAttends DEF TraceeStep, tracerVars
<1>8. CASE UNCHANGED vars
  BY <1>2, <1>8 DEF vars, kernelVars, tracerVars
<1> QED
  BY <1>3, <1>4, <1>5, <1>6, <1>7, <1>8, ServeAttends DEF Next, MainStep, Stops

LEMMA AttendAlways == Attentive => (Spec => [](Known /\ AttendInv))
<1> SUFFICES ASSUME Attentive PROVE Spec => [](Known /\ AttendInv)
  OBVIOUS
<1>1. Spec => [](Base /\ PipesInv)
  BY PipesAlways, AttentiveSafe
<1>2. "execve" \in Calls => (Spec => []StillStopped)
  <2> SUFFICES ASSUME "execve" \in Calls PROVE Spec => []StillStopped
    OBVIOUS
  <2>1. Threadless /\ Unhurt
    BY SelfExitsNoThreads DEF Attentive
  <2>2. Spec => [](Base /\ PipesInv /\ CallOrder /\ (Unhurt => StillStopped))
    BY <2>1, StillStoppedAlways
  <2>3. Spec => [](Unhurt => StillStopped)
    BY <2>2, PTL
  <2>4. "kill" \notin Faults
    BY DEF Attentive, SelfExits
  <2>5. (Unhurt => StillStopped) => StillStopped
    BY <2>4 DEF Unhurt
  <2> QED
    BY <2>3, <2>5, PTL
<1>3. Spec => []Known
  <2>1. CASE "execve" \in Calls
    <3>1. Base /\ PipesInv /\ StillStopped => Known
      BY DEF Known
    <3>2. Spec => []StillStopped
      BY <1>2, <2>1
    <3> QED
      BY <1>1, <3>1, <3>2, PTL
  <2>2. CASE "execve" \notin Calls
    <3>1. Base /\ PipesInv => Known
      BY <2>2 DEF Known
    <3> QED
      BY <1>1, <3>1, PTL
  <2> QED
    BY <2>1, <2>2
<1>4. Init => AttendInv
  BY AttendInit
<1>5. Known /\ AttendInv /\ [Next]_vars => AttendInv'
  BY AttendStep
<1> QED
  BY <1>3, <1>4, <1>5, PTL DEF Spec

\* Every stop that wait3() reported of a process that is followed is in the hands
\* of a worker until that worker asks for the process to run: none is forgotten,
\* and no process runs while its worker reads its registers or memory. Programs
\* that call execve() must be without threads and not be killed, and the database
\* must take what is inserted: otherwise a worker gives up, with its stop.
THEOREM StopsInHand == Attentive => (Spec => []StopInHand)
<1> SUFFICES ASSUME Attentive PROVE Spec => []StopInHand
  OBVIOUS
<1>1. ASSUME Known, AttendInv PROVE StopInHand
  <2> SUFFICES ASSUME mpc \in Looping, NEW i \in InUse(procs), procs[i].status = "ATTACHED"
               PROVE  /\ Waits(tracee[procs[i].tid]) => InHand(procs[i].tid)
                      /\ InHand(procs[i].tid) => tracee[procs[i].tid].st # "running"
    BY DEF StopInHand, Waits
  <2>1. Stages /\ Pipes /\ i \in DOMAIN procs
    BY <1>1 DEF Known, PipesInv, Live, InUse
  <2>2. PICK t \in Tids : t = procs[i].tid
    BY <2>1 DEF Stages
  <2>3. Waits(tracee[t]) => InHand(t)
    BY <1>1, <2>1, <2>2 DEF AttendInv, Attended, Busy
  <2>4. InHand(t) => tracee[t].st # "running"
    BY <2>1 DEF Pipes, Busy, Parked, Waits
  <2> QED
    BY <2>2, <2>3, <2>4
<1> QED
  BY <1>1, AttendAlways, PTL

=============================================================================
