------------------------------- MODULE Linux -------------------------------
(***************************************************************************)
(* The environment of the tracer: tracees and the part of ptrace(2) and    *)
(* wait(2) that src/reprozip/native uses. External: nothing here is code   *)
(* of the repository; the stops, their order, and what a request does are  *)
(* the ones tracer.c and syscalls.c rely on, and which ptrace(2) defines.  *)
(*                                                                         *)
(* Abstractions: thread ids are not reused; a directory is its depth       *)
(* below the initial one, every path is relative, and chdir goes one level *)
(* down; vfork is fork; CLONE_FS between processes is left out.            *)
(***************************************************************************)
EXTENDS Naturals, Sequences, FiniteSets

CONSTANTS
    Tids,      \* thread ids, handed out in increasing order
    First,     \* the tracee that fork_and_trace() creates
    Calls,     \* system calls the tracees make, besides exit_group
    Faults,    \* what else may happen: see FaultKinds
    MaxCalls   \* bound: calls, signals and kills in a behaviour

CallKinds == {"open", "chdir", "fork", "clone", "execve", "exit"}

(* "error": calls may fail; "efault": open() with a bad pointer;           *)
(* "kill": SIGKILL from outside; "signal": any other signal;               *)
(* "interrupt": ^C twice at the tracer; "db": a database insertion fails.  *)
FaultKinds == {"error", "efault", "kill", "signal", "interrupt", "db"}

NoTid == 0

ASSUME TidsAssumption  == Tids \subseteq Nat \ {NoTid} /\ IsFiniteSet(Tids)
ASSUME FirstAssumption == First \in Tids
ASSUME CallsAssumption == Calls \subseteq CallKinds /\ Faults \subseteq FaultKinds
ASSUME BoundAssumption == MaxCalls \in Nat

VARIABLES
    tracee,   \* tid -> state of the thread, see Tracee
    cwd,      \* thread group -> its current directory
    did,      \* tid -> history: what it did that a trace must show
    left      \* calls, signals and kills left, of MaxCalls

kernelVars == <<tracee, cwd, did, left>>

States == {"unborn", "running", "stopped", "execwait", "dead", "gone"}
Events == {"none", "sigstop", "sysin", "sysout", "spawn", "exec", "signal", "exit"}
Status == {"ok", "error", "efault", "exited", "killed"}

Tracee == [st: States,
           ev: Events,              \* stop or exit that wait() has not reported
           at: {"user", "call", "return", "sig"},
           call: CallKinds \cup {"none", "exit_group"},
           ret: Status,             \* of the call; of the exit once dead
           child: Tids \cup {NoTid},
           grp: Tids \cup {NoTid}]  \* tid of the thread group's leader

Row == [kind: {"wd", "open", "exec"}, dir: Nat, by: Tids \cup {NoTid}]

\* The directory the first tracee starts in, which a trace shows twice: see Init
\* of Tracer.
StartRow == [kind |-> "wd", dir |-> 0, by |-> NoTid]

NotBorn == [st |-> "unborn", ev |-> "none", at |-> "user", call |-> "none",
            ret |-> "ok", child |-> NoTid, grp |-> NoTid]

\* A new tracee starts in a stop that no call explains (SIGSTOP).
Born(g) == [NotBorn EXCEPT !.st = "stopped", !.ev = "sigstop", !.grp = g]

KernelInit ==
    /\ tracee = [t \in Tids |-> IF t = First THEN Born(First) ELSE NotBorn]
    /\ cwd = [t \in Tids |-> 0]
    /\ did = [t \in Tids |-> IF t = First THEN <<StartRow, StartRow>> ELSE <<>>]
    /\ left = MaxCalls

Unborn    == {t \in Tids : tracee[t].st = "unborn"}
Group(t)  == {u \in Tids : tracee[u].grp = tracee[t].grp}
Alive(t)  == tracee[t].st \in {"running", "stopped", "execwait"}
Others(t) == {u \in Group(t) : u /= t /\ tracee[u].st /= "gone"}
Here(t)   == cwd[tracee[t].grp]

Running(t, at) == tracee[t].st = "running" /\ tracee[t].at = at

Stopped(s, e)     == [s EXCEPT !.st = "stopped", !.ev = e]
Dead(s, why)      == [s EXCEPT !.st = "dead", !.ev = "exit", !.ret = why]
KillAll(ts, why)  == [t \in Tids |-> IF t \in ts /\ Alive(t)
                                     THEN Dead(tracee[t], why) ELSE tracee[t]]

Did(t, kind, dir, by) ==
    did' = [did EXCEPT ![t] = Append(@, [kind |-> kind, dir |-> dir, by |-> by])]

------------------------------------------------------------------------------
(* System calls. *)

\* A tracee in user mode enters a call: syscall-entry stop.
EnterCall(t) ==
    /\ Running(t, "user")
    /\ \E c \in Calls \cup {"exit_group"} :
          /\ c \in {"exit", "exit_group"} \/ left > 0
          /\ tracee' = [tracee EXCEPT ![t] =
                [Stopped(@, "sysin") EXCEPT !.at = "call", !.call = c]]
          /\ left' = IF c \in {"exit", "exit_group"} THEN left ELSE left - 1
    /\ UNCHANGED <<cwd, did>>

ReturnWith(t, r) ==
    tracee' = [tracee EXCEPT ![t] =
                  [Stopped(@, "sysout") EXCEPT !.at = "user", !.ret = r]]

\* open() or chdir() succeeds: syscall-exit stop.
PathCallSucceeds(t) ==
    /\ Running(t, "call")
    /\ \/ /\ tracee[t].call = "open"
          /\ Did(t, "open", Here(t), t)
          /\ UNCHANGED cwd
       \/ /\ tracee[t].call = "chdir"
          /\ Did(t, "wd", Here(t) + 1, t)
          /\ cwd' = [cwd EXCEPT ![tracee[t].grp] = @ + 1]
    /\ ReturnWith(t, "ok")
    /\ UNCHANGED left

\* A call fails; a failed call leaves nothing behind.
CallFails(t) ==
    /\ Running(t, "call")
    /\ \/ /\ tracee[t].call \in {"open", "chdir", "fork", "clone", "execve"}
          /\ "error" \in Faults \/ (tracee[t].call \in {"fork", "clone"} /\ Unborn = {})
          /\ ReturnWith(t, "error")
       \/ /\ tracee[t].call = "open"
          /\ "efault" \in Faults
          /\ ReturnWith(t, "efault")
    /\ UNCHANGED <<cwd, did, left>>

\* fork() or clone(CLONE_THREAD) makes a child; both are stopped.
Spawn(t) ==
    /\ Running(t, "call")
    /\ tracee[t].call \in {"fork", "clone"}
    /\ \E c \in Unborn :
          /\ \A u \in Unborn : c <= u
          /\ LET g == IF tracee[t].call = "fork" THEN c ELSE tracee[t].grp
             IN  tracee' = [tracee EXCEPT
                    ![t] = [Stopped(@, "spawn") EXCEPT !.at = "return", !.child = c],
                    ![c] = Born(g)]
          /\ cwd' = IF tracee[t].call = "fork"
                    THEN [cwd EXCEPT ![c] = Here(t)] ELSE cwd
          /\ Did(c, "wd", Here(t), t)
    /\ UNCHANGED left

\* execve() first kills the other threads of the group...
ExecKills(t) ==
    /\ Running(t, "call")
    /\ tracee[t].call = "execve"
    /\ \E u \in Others(t) : Alive(u)
    /\ tracee' = [KillAll(Others(t), "exited") EXCEPT ![t].st = "execwait"]
    /\ UNCHANGED <<cwd, did, left>>

\* ...and completes when they are gone: the caller takes the leader's tid, and
\* its own tid is never heard of again.
Exec(t) ==
    LET leader == tracee[t].grp IN
    /\ tracee[t].call = "execve" /\ tracee[t].at = "call"
    /\ tracee[t].st \in {"running", "execwait"}
    /\ Others(t) \subseteq {leader}
    /\ \A u \in Others(t) : ~Alive(u)
    /\ tracee' = [u \in Tids |->
          CASE u = leader -> [Stopped(tracee[t], "exec") EXCEPT !.at = "return"]
            [] u = t /\ t /= leader -> [tracee[t] EXCEPT !.st = "gone"]
            [] OTHER -> tracee[u]]
    /\ Did(leader, "exec", Here(t), t)
    /\ UNCHANGED <<cwd, left>>

\* Resumed from the fork or exec event, the call returns.
FinishCall(t) ==
    /\ Running(t, "return")
    /\ ReturnWith(t, "ok")
    /\ UNCHANGED <<cwd, did, left>>

Exit(t) ==
    /\ Running(t, "call")
    /\ tracee[t].call \in {"exit", "exit_group"}
    /\ tracee' = KillAll(IF tracee[t].call = "exit" THEN {t} ELSE Group(t), "exited")
    /\ UNCHANGED <<cwd, did, left>>

------------------------------------------------------------------------------
(* Signals. *)

\* SIGKILL kills a whole group, whatever it is doing, without a stop.
Kill(t) ==
    /\ "kill" \in Faults /\ left > 0
    /\ Alive(t)
    /\ tracee' = KillAll(Group(t), "killed")
    /\ left' = left - 1
    /\ UNCHANGED <<cwd, did>>

\* Any other signal stops the thread before it is delivered...
SignalStop(t) ==
    /\ "signal" \in Faults /\ left > 0
    /\ Running(t, "user")
    /\ tracee' = [tracee EXCEPT ![t] = [Stopped(@, "signal") EXCEPT !.at = "sig"]]
    /\ left' = left - 1
    /\ UNCHANGED <<cwd, did>>

\* ...and is handled, or kills the group, when the tracer forwards it.
SignalDelivered(t) ==
    /\ Running(t, "sig")
    /\ \/ tracee' = [tracee EXCEPT ![t].at = "user"]
       \/ tracee' = KillAll(Group(t), "killed")
    /\ UNCHANGED <<cwd, did, left>>

KernelStep(t) ==
    \/ EnterCall(t) \/ PathCallSucceeds(t) \/ CallFails(t) \/ Spawn(t)
    \/ ExecKills(t) \/ Exec(t) \/ FinishCall(t) \/ Exit(t)
    \/ Kill(t) \/ SignalStop(t) \/ SignalDelivered(t)

\* What a program does of itself when it is scheduled (not the faults).
Scheduled(t) ==
    \/ EnterCall(t) \/ PathCallSucceeds(t) \/ CallFails(t) \/ Spawn(t)
    \/ ExecKills(t) \/ Exec(t) \/ FinishCall(t) \/ Exit(t) \/ SignalDelivered(t)

------------------------------------------------------------------------------
(* What the tracer can ask. *)

\* wait3(__WALL | WNOHANG): the children there are, and those with something to
\* report. The exit of a leader is reported after every other thread's.
Children   == {t \in Tids : tracee[t].st \notin {"unborn", "gone"}}
Reportable == {t \in Children :
                 /\ tracee[t].ev /= "none"
                 /\ tracee[t].ev = "exit" /\ t = tracee[t].grp => Others(t) = {}}

\* wait3() returns t: the event is consumed, a dead tracee is reaped.
Reaped(s) == [s EXCEPT !.ev = "none", !.st = IF @ = "dead" THEN "gone" ELSE @]

\* ptrace(PTRACE_SYSCALL): runs a stopped tracee, dropping an event that was
\* not reported; fails on any other.
Resumed(s) == IF s.st = "stopped" THEN [s EXCEPT !.st = "running", !.ev = "none"]
                                  ELSE s
==============================================================================
