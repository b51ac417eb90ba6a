---------------------------- MODULE GraphProofs -----------------------------
(***************************************************************************)
(* The programs that read_events() makes form one tree per run, whose      *)
(* arrows say what happened, for every number of processes and rows.       *)
(***************************************************************************)
EXTENDS Graph, TLAPS, SequenceTheorems, NaturalsInduction, WellFoundedInduction

N == Len(all_programs)
P == Len(processes)

\* A program whose binary no later exec changes.
Settled(g, forks) == g.acted = TRUE \/ forks = TRUE

Shape ==
  /\ all_forks \in BOOLEAN /\ run \in Nat
  /\ all_programs \in Seq(Program)
  /\ processes \in Seq(Nat) /\ P <= MaxProcs
  /\ edges \subseteq Edge /\ \A e \in edges : e.prog \in 1 .. N
  /\ alive \subseteq 1 .. P

\* Where each process is.
Places ==
  /\ \A p \in 1 .. P : processes[p] \in 1 .. N /\ all_programs[processes[p]].pid = p
  /\ \A p \in alive : all_programs[processes[p]].run = run

\* What Arrows says of one program.
Arrow(i) ==
  /\ all_programs[i].parent \in 0 .. i - 1
  /\ all_programs[i].run \in 1 .. run /\ all_programs[i].pid \in 1 .. P
  /\ all_programs[i].created = "exec" => all_programs[i].acted = TRUE
  /\ all_programs[i].parent # 0 =>
       LET g == all_programs[i]
           q == all_programs[g.parent]
       IN  /\ g.run = q.run
           /\ g.pid = q.pid <=> g.created = "exec"
           /\ g.created = "fork" /\ q.pid \notin hasty => g.binary = q.binary /\ Settled(q, all_forks)

Arrows == \A i \in 1 .. N : Arrow(i)

Roots ==
  \A r \in 1 .. run : \E i \in 1 .. N :
    /\ all_programs[i].run = r /\ all_programs[i].parent = 0
    /\ \A j \in 1 .. N : all_programs[j].run = r /\ all_programs[j].parent = 0 => j = i

GraphInv == Shape /\ Places /\ Arrows /\ Roots

-----------------------------------------------------------------------------
LEMMA GraphInit == Init => GraphInv
BY GraphAssumption DEF Init, GraphInv, Shape, Places, Arrows, Roots, N, P

LEMMA GraphIsTyped == GraphInv => TypeOK
<1> SUFFICES ASSUME GraphInv PROVE TypeOK
  OBVIOUS
<1>1. DOMAIN all_programs = 1 .. N /\ DOMAIN processes = 1 .. P /\ N \in Nat /\ P \in Nat
  BY DEF GraphInv, Shape, N, P
<1> QED BY <1>1, GraphAssumption DEF GraphInv, Shape, Places, Arrows, Arrow, TypeOK, Procs

LEMMA GraphShowsLineage == GraphInv => LineageShown
<1> SUFFICES ASSUME GraphInv PROVE LineageShown
  OBVIOUS
<1>1. DOMAIN all_programs = 1 .. N
  BY DEF GraphInv, Shape, N
<1>2. ASSUME NEW i \in DOMAIN all_programs, all_programs[i].parent # 0
      PROVE  LET g == all_programs[i]
                 q == all_programs[g.parent]
             IN  /\ g.run = q.run /\ (g.pid = q.pid <=> g.created = "exec")
                 /\ g.created = "fork" /\ q.pid \notin hasty => g.binary = q.binary
  <2>1. i \in 1 .. N
    BY <1>1
  <2> QED BY <1>2, <2>1 DEF GraphInv, Arrows, Arrow
<1>3. Roots
  BY DEF GraphInv
<1> QED BY <1>1, <1>2, <1>3 DEF Roots, LineageShown

\* Adding a program to the list.
LEMMA Added ==
  ASSUME Shape, NEW g \in Program, Adds(g)
  PROVE  /\ all_programs' \in Seq(Program) /\ N' = N + 1 /\ N \in Nat
         /\ all_programs'[N + 1] = g
         /\ \A i \in 1 .. N : all_programs'[i] = all_programs[i]
BY DEF Shape, N, Adds

LEMMA AppendedProcess ==
  ASSUME Shape, NEW n \in Nat, processes' = Append(processes, n)
  PROVE  /\ processes' \in Seq(Nat) /\ P' = P + 1 /\ P \in Nat
         /\ processes'[P + 1] = n
         /\ \A q \in 1 .. P : processes'[q] = processes[q]
BY DEF Shape, P

LEMMA FunctionIsSequence ==
  ASSUME NEW n \in Nat, NEW S, NEW f \in [1 .. n -> S]
  PROVE  f \in Seq(S) /\ Len(f) = n
<1>1. f \in Seq(S)
  BY SeqDef
<1> QED BY <1>1

\* Folding an exec into the program of a process that has not been in one.
LEMMA Folded ==
  ASSUME Shape, NEW i \in 1 .. N, NEW binary \in Binaries,
         all_programs' = [all_programs EXCEPT ![i].binary = binary,
                                              ![i].created = "fork+exec", ![i].acted = TRUE]
  PROVE  /\ all_programs' \in Seq(Program) /\ N' = N
         /\ all_programs'[i] = [all_programs[i] EXCEPT !.binary = binary,
                                              !.created = "fork+exec", !.acted = TRUE]
         /\ \A j \in 1 .. N : j # i => all_programs'[j] = all_programs[j]
<1>1. all_programs \in Seq(Program) /\ DOMAIN all_programs = 1 .. N /\ all_programs[i] \in Program
  BY DEF Shape, N
<1> DEFINE h == [all_programs[i] EXCEPT !.binary = binary, !.created = "fork+exec", !.acted = TRUE]
<1>2. h \in Program
  BY <1>1 DEF Program, Images
<1>3. all_programs' = [all_programs EXCEPT ![i] = h]
  BY <1>1
<1> HIDE DEF h
<1>4. all_programs' \in Seq(Program) /\ Len(all_programs') = Len(all_programs)
  <2>1. i \in 1 .. Len(all_programs)
    BY DEF N
  <2>2. N \in Nat /\ \A j \in 1 .. N : [all_programs EXCEPT ![i] = h][j] \in Program
    BY <1>1, <1>2, <2>1 DEF N
  <2>3. all_programs' \in [1 .. N -> Program]
    BY <1>1, <1>2, <1>3, <2>2
  <2>4. all_programs' \in Seq(Program) /\ Len(all_programs') = N
    BY <2>2, <2>3, FunctionIsSequence, ZenonT(60)
  <2> QED BY <2>4 DEF N
<1>5. all_programs'[i] = h /\ \A j \in 1 .. N : j # i => all_programs'[j] = all_programs[j]
  BY <1>1, <1>3
<1> QED BY <1>4, <1>5 DEF N, h

-----------------------------------------------------------------------------
\* One more run, process or program.
LEMMA OneMore == ASSUME NEW n \in Nat, NEW i PROVE i \in 1 .. n + 1 <=> i \in 1 .. n \/ i = n + 1
OBVIOUS

\* Nothing that was said of a program changes when more is said.
LEMMA ArrowKept ==
  ASSUME GraphInv, NEW i \in 1 .. N, UNCHANGED all_forks,
         run' \in Nat, run <= run', P' \in Nat, P <= P', hasty \subseteq hasty',
         \A j \in 1 .. N : all_programs'[j] = all_programs[j]
  PROVE  Arrow(i)'
<1>1. Arrow(i) /\ run \in Nat /\ P \in Nat /\ N \in Nat
  BY DEF GraphInv, Arrows, Shape, N, P
<1>2. all_programs'[i] = all_programs[i]
  OBVIOUS
<1> DEFINE j == all_programs[i].parent
<1>3. j # 0 => all_programs'[j] = all_programs[j]
  <2>1. j \in 0 .. i - 1
    BY <1>1 DEF Arrow
  <2>2. j # 0 => j \in 1 .. N
    BY <1>1, <2>1
  <2> QED BY <2>2
<1>4. /\ all_programs'[i].parent \in 0 .. i - 1
      /\ all_programs'[i].created = "exec" => all_programs'[i].acted = TRUE
  BY <1>1, <1>2 DEF Arrow
<1>5. all_programs'[i].run \in 1 .. run' /\ all_programs'[i].pid \in 1 .. P'
  <2>1. all_programs[i].run \in 1 .. run /\ all_programs[i].pid \in 1 .. P
    BY <1>1 DEF Arrow
  <2> QED BY <1>1, <1>2, <2>1
<1>6. ASSUME all_programs'[i].parent # 0
      PROVE  LET g == all_programs'[i]
                 q == all_programs'[g.parent]
             IN  /\ g.run = q.run
                 /\ g.pid = q.pid <=> g.created = "exec"
                 /\ g.created = "fork" /\ q.pid \notin hasty' => g.binary = q.binary /\ Settled(q, all_forks')
  <2>1. all_programs'[i].parent = j /\ all_programs'[j] = all_programs[j] /\ j # 0
    BY <1>2, <1>3, <1>6
  <2> HIDE DEF j
  <2>2. /\ all_programs[i].run = all_programs[j].run
        /\ all_programs[i].pid = all_programs[j].pid <=> all_programs[i].created = "exec"
        /\ all_programs[i].created = "fork" /\ all_programs[j].pid \notin hasty =>
              all_programs[i].binary = all_programs[j].binary /\ Settled(all_programs[j], all_forks)
    BY <1>1, <2>1 DEF Arrow, j
  <2> QED BY <1>2, <2>1, <2>2 DEF Settled
<1> QED BY <1>4, <1>5, <1>6 DEF Arrow, Settled

\* Programs that are not added as roots leave each run its root.
LEMMA RootsKept ==
  ASSUME GraphInv, run' = run, N' \in {N, N + 1},
         N' = N + 1 => all_programs'[N + 1].parent # 0,
         \A j \in 1 .. N : all_programs'[j].run = all_programs[j].run
                           /\ all_programs'[j].parent = all_programs[j].parent
  PROVE  Roots'
<1>1. N \in Nat
  BY DEF GraphInv, Shape, N
<1>2. ASSUME NEW r \in 1 .. run
      PROVE  \E i \in 1 .. N' :
               /\ all_programs'[i].run = r /\ all_programs'[i].parent = 0
               /\ \A j \in 1 .. N' : all_programs'[j].run = r
                                    /\ all_programs'[j].parent = 0 => j = i
  <2>1. PICK i \in 1 .. N :
          /\ all_programs[i].run = r /\ all_programs[i].parent = 0
          /\ \A j \in 1 .. N : all_programs[j].run = r /\ all_programs[j].parent = 0 => j = i
    BY DEF GraphInv, Roots
  <2>2. i \in 1 .. N' /\ all_programs'[i].run = r /\ all_programs'[i].parent = 0
    BY <1>1, <2>1
  <2>3. ASSUME NEW j \in 1 .. N', all_programs'[j].run = r, all_programs'[j].parent = 0
        PROVE  j = i
    <3>1. j \in 1 .. N \/ (j = N + 1 /\ N' = N + 1)
      BY <1>1
    <3> QED BY <2>1, <2>3, <3>1
  <2> QED BY <2>2, <2>3
<1> QED BY <1>2 DEF Roots

LEMMA RunStartsKeeps == GraphInv /\ RunStarts /\ UNCHANGED all_forks => GraphInv'
<1> SUFFICES ASSUME GraphInv, RunStarts, UNCHANGED all_forks PROVE GraphInv'
  OBVIOUS
<1> DEFINE g == [pid |-> P + 1, run |-> run + 1, parent |-> 0, thread |-> FALSE,
                 acted |-> FALSE, binary |-> "none", created |-> "initial"]
<1>1. /\ P < MaxProcs /\ Adds(g) /\ processes' = Append(processes, N + 1)
      /\ alive' = {P + 1} /\ run' = run + 1 /\ UNCHANGED <<edges, hasty>>
  BY DEF RunStarts, P, N
<1>2. P \in Nat /\ N \in Nat /\ run \in Nat /\ Shape /\ N + 1 \in Nat
  BY DEF GraphInv, Shape, P, N
<1>3. g \in Program
  BY <1>1, <1>2, GraphAssumption DEF Program, Procs, Images
<1>4. /\ all_programs' \in Seq(Program) /\ N' = N + 1 /\ all_programs'[N + 1] = g
      /\ \A i \in 1 .. N : all_programs'[i] = all_programs[i]
  BY <1>1, <1>2, <1>3, Added
<1>5. /\ processes' \in Seq(Nat) /\ P' = P + 1 /\ processes'[P + 1] = N + 1
      /\ \A q \in 1 .. P : processes'[q] = processes[q]
  BY <1>1, <1>2, AppendedProcess
<1>6. /\ all_programs'[N + 1].pid = P + 1 /\ all_programs'[N + 1].run = run + 1
      /\ all_programs'[N + 1].parent = 0 /\ all_programs'[N + 1].created = "initial"
  BY <1>4
<1> HIDE DEF g
<1>7. Shape'
  BY <1>1, <1>2, <1>4, <1>5, GraphAssumption DEF Shape
<1>8. Places'
  <2>1. ASSUME NEW p \in 1 .. P'
        PROVE  processes'[p] \in 1 .. N' /\ all_programs'[processes'[p]].pid = p
    <3>1. CASE p \in 1 .. P
      <4>1. processes[p] \in 1 .. N /\ all_programs[processes[p]].pid = p
        BY <3>1 DEF GraphInv, Places
      <4> QED BY <1>2, <1>4, <1>5, <3>1, <4>1
    <3>2. CASE p = P + 1
      BY <1>2, <1>4, <1>5, <1>6, <3>2
    <3> QED BY <1>2, <1>5, <3>1, <3>2, OneMore
  <2>2. \A p \in alive' : all_programs'[processes'[p]].run = run'
    BY <1>1, <1>5, <1>6
  <2> QED BY <2>1, <2>2 DEF Places
<1>9. Arrows'
  <2>1. ASSUME NEW i \in 1 .. N' PROVE Arrow(i)'
    <3>1. CASE i \in 1 .. N
      BY <1>1, <1>2, <1>4, <1>5, <3>1, ArrowKept
    <3>2. CASE i = N + 1
      <4>1. i \in Nat \ {0} /\ P + 1 \in 1 .. P' /\ run + 1 \in 1 .. run'
        BY <1>1, <1>2, <1>5, <3>2
      <4>2. all_programs'[i].parent = 0 /\ 0 \in 0 .. i - 1
        BY <1>6, <3>2, <4>1
      <4> QED BY <1>6, <3>2, <4>1, <4>2 DEF Arrow
    <3> QED BY <1>2, <1>4, <3>1, <3>2, OneMore
  <2> QED BY <2>1 DEF Arrows
<1>10. Roots'
  <2>1. \A j \in 1 .. N : all_programs[j].run \in 1 .. run
    BY DEF GraphInv, Arrows, Arrow
  <2>2. ASSUME NEW r \in 1 .. run + 1
        PROVE  \E i \in 1 .. N + 1 :
                 /\ all_programs'[i].run = r /\ all_programs'[i].parent = 0
                 /\ \A j \in 1 .. N + 1 : all_programs'[j].run = r
                                          /\ all_programs'[j].parent = 0 => j = i
    <3>1. CASE r = run + 1
      <4>1. \A j \in 1 .. N : all_programs'[j].run # r
        BY <1>2, <1>4, <2>1, <3>1
      <4> QED BY <1>2, <1>6, <3>1, <4>1, OneMore
    <3>2. CASE r \in 1 .. run
      <4>1. PICK i \in 1 .. N :
              /\ all_programs[i].run = r /\ all_programs[i].parent = 0
              /\ \A j \in 1 .. N : all_programs[j].run = r /\ all_programs[j].parent = 0 => j = i
        BY <3>2 DEF GraphInv, Roots
      <4>2. i \in 1 .. N + 1 /\ all_programs'[N + 1].run # r
        BY <1>2, <1>6, <3>2
      <4>3. \A j \in 1 .. N : all_programs'[j] = all_programs[j]
        BY <1>2, <1>4
      <4>4. \A j \in 1 .. N + 1 : all_programs'[j].run = r /\ all_programs'[j].parent = 0 => j = i
        <5> TAKE j \in 1 .. N + 1
        <5>1. j \in 1 .. N \/ j = N + 1
          BY <1>2, OneMore
        <5> QED BY <4>1, <4>2, <4>3, <5>1
      <4>5. all_programs'[i].run = r /\ all_programs'[i].parent = 0
        BY <4>1, <4>3
      <4> QED BY <4>2, <4>4, <4>5
    <3> QED BY <1>2, <3>1, <3>2, OneMore
  <2> QED BY <1>1, <1>4, <2>2 DEF Roots
<1> QED BY <1>7, <1>8, <1>9, <1>10 DEF GraphInv

LEMMA ProcessCreatedKeeps ==
  ASSUME GraphInv, UNCHANGED all_forks, NEW parent \in alive, NEW thread \in BOOLEAN,
         ProcessCreated(parent, thread)
  PROVE  GraphInv'
<1> DEFINE f == processes[parent]
           g == [pid |-> P + 1, run |-> run, parent |-> f, thread |-> thread, acted |-> FALSE,
                 binary |-> all_programs[f].binary, created |-> "fork"]
<1>1. /\ P < MaxProcs /\ Adds(g) /\ processes' = Append(processes, N + 1)
      /\ alive' = alive \cup {P + 1} /\ hasty' = Hurries(parent) /\ UNCHANGED <<run, edges>>
  BY DEF ProcessCreated, P, N
<1>2. P \in Nat /\ N \in Nat /\ run \in Nat /\ Shape /\ N + 1 \in Nat /\ parent \in 1 .. P
  BY DEF GraphInv, Shape, P, N
<1>3. f \in 1 .. N /\ all_programs[f].pid = parent /\ all_programs[f].run = run
  BY <1>2 DEF GraphInv, Places
<1>4. all_programs[f] \in Program /\ run \in 1 .. run
  <2>1. all_programs[f] \in Program
    BY <1>2, <1>3 DEF Shape, N
  <2>2. all_programs[f].run \in 1 .. run
    BY <1>3 DEF GraphInv, Arrows, Arrow
  <2> QED BY <1>3, <2>1, <2>2
<1> HIDE DEF f
<1>5. g \in Program
  BY <1>1, <1>2, <1>3, <1>4, GraphAssumption DEF Program, Procs, Images
<1>6. /\ all_programs' \in Seq(Program) /\ N' = N + 1 /\ all_programs'[N + 1] = g
      /\ \A i \in 1 .. N : all_programs'[i] = all_programs[i]
  BY <1>1, <1>2, <1>5, Added
<1>7. /\ processes' \in Seq(Nat) /\ P' = P + 1 /\ processes'[P + 1] = N + 1
      /\ \A q \in 1 .. P : processes'[q] = processes[q]
  BY <1>1, <1>2, AppendedProcess
<1>8. /\ all_programs'[N + 1].pid = P + 1 /\ all_programs'[N + 1].run = run
      /\ all_programs'[N + 1].parent = f /\ all_programs'[N + 1].created = "fork"
      /\ all_programs'[N + 1].binary = all_programs[f].binary
  BY <1>6
<1>9. hasty \subseteq hasty' /\ (parent \notin hasty' => Settled(all_programs[f], all_forks))
  BY <1>1, <1>4 DEF Hurries, Settled, f, Program, GraphInv, Shape
<1> HIDE DEF g
<1>10. Shape'
  <2>1. P' <= MaxProcs /\ alive' \subseteq 1 .. P' /\ run' \in Nat
    BY <1>1, <1>2, <1>7, GraphAssumption DEF Shape
  <2>2. edges' \subseteq Edge /\ \A e \in edges' : e.prog \in 1 .. N'
    BY <1>1, <1>2, <1>6 DEF Shape
  <2> QED BY <1>2, <1>6, <1>7, <2>1, <2>2 DEF Shape
<1>11. Places'
  <2>1. ASSUME NEW p \in 1 .. P'
        PROVE  processes'[p] \in 1 .. N' /\ all_programs'[processes'[p]].pid = p
    <3>1. CASE p \in 1 .. P
      <4>1. processes[p] \in 1 .. N /\ all_programs[processes[p]].pid = p
        BY <3>1 DEF GraphInv, Places
      <4>2. processes'[p] = processes[p] /\ all_programs'[processes[p]] = all_programs[processes[p]]
        BY <1>6, <1>7, <3>1, <4>1
      <4> QED BY <1>2, <1>6, <4>1, <4>2
    <3>2. CASE p = P + 1
      BY <1>2, <1>6, <1>7, <1>8, <3>2
    <3> QED BY <1>2, <1>7, <3>1, <3>2, OneMore
  <2>2. ASSUME NEW p \in alive' PROVE all_programs'[processes'[p]].run = run'
    <3>1. CASE p \in alive
      <4>1. p \in 1 .. P /\ processes[p] \in 1 .. N /\ all_programs[processes[p]].run = run
        BY <3>1 DEF GraphInv, Shape, Places
      <4> QED BY <1>1, <1>6, <1>7, <4>1
    <3>2. CASE p = P + 1
      BY <1>1, <1>7, <1>8, <3>2
    <3> QED BY <1>1, <3>1, <3>2
  <2> QED BY <2>1, <2>2 DEF Places
<1>12. Arrows'
  <2>1. ASSUME NEW i \in 1 .. N' PROVE Arrow(i)'
    <3>1. CASE i \in 1 .. N
      <4>1. /\ run' \in Nat /\ run <= run' /\ P' \in Nat /\ P <= P' /\ hasty \subseteq hasty'
            /\ \A j \in 1 .. N : all_programs'[j] = all_programs[j]
        BY <1>1, <1>2, <1>6, <1>7, <1>9
      <4> QED BY <3>1, <4>1, ArrowKept
    <3>2. CASE i = N + 1
      <4>1. i - 1 = N /\ f \in 0 .. i - 1 /\ f # 0 /\ P + 1 \in 1 .. P' /\ run' = run
        BY <1>1, <1>2, <1>3, <1>7, <3>2
      <4>2. all_programs'[f] = all_programs[f] /\ parent # P + 1
        BY <1>2, <1>3, <1>6
      <4>3. Settled(all_programs[f], all_forks) => Settled(all_programs'[f], all_forks')
        BY <4>2 DEF Settled
      <4> QED BY <1>3, <1>4, <1>8, <1>9, <3>2, <4>1, <4>2, <4>3 DEF Arrow, Settled
    <3> QED BY <1>2, <1>6, <3>1, <3>2, OneMore
  <2> QED BY <2>1 DEF Arrows
<1>13. Roots'
  <2>1. N' = N + 1 => all_programs'[N + 1].parent # 0
    BY <1>2, <1>3, <1>8
  <2>2. \A j \in 1 .. N : all_programs'[j].run = all_programs[j].run
                           /\ all_programs'[j].parent = all_programs[j].parent
    BY <1>6
  <2> QED BY <1>1, <1>6, <2>1, <2>2, RootsKept
<1> QED BY <1>10, <1>11, <1>12, <1>13 DEF GraphInv

LEMMA FileOpenedKeeps ==
  ASSUME GraphInv, UNCHANGED all_forks, NEW p \in alive, NEW file \in Files \ Binaries,
         NEW mode \in {"read", "write"}, FileOpened(p, file, mode)
  PROVE  GraphInv'
<1>1. /\ edges' = edges \cup {[prog |-> processes[p], file |-> file, mode |-> mode]}
      /\ hasty' = Hurries(p) /\ UNCHANGED <<all_programs, processes, run, alive>>
  BY DEF FileOpened
<1>2. /\ P \in Nat /\ N \in Nat /\ run \in Nat /\ P' = P /\ N' = N
      /\ processes[p] \in 1 .. N /\ hasty \subseteq hasty'
  BY <1>1 DEF GraphInv, Shape, Places, P, N, Hurries
<1>3. Shape'
  <2>1. [prog |-> processes[p], file |-> file, mode |-> mode] \in Edge
    BY <1>2 DEF Edge, Modes
  <2>2. edges' \subseteq Edge /\ \A e \in edges' : e.prog \in 1 .. N'
    BY <1>1, <1>2, <2>1 DEF GraphInv, Shape
  <2> QED BY <1>1, <1>2, <2>2 DEF GraphInv, Shape
<1>4. Places'
  BY <1>1, <1>2 DEF GraphInv, Places
<1>5. Arrows'
  <2>1. ASSUME NEW i \in 1 .. N PROVE Arrow(i)'
    BY <1>1, <1>2, ArrowKept
  <2> QED BY <1>2, <2>1 DEF Arrows
<1>6. Roots'
  BY <1>1, <1>2, RootsKept
<1> QED BY <1>3, <1>4, <1>5, <1>6 DEF GraphInv

\* A process in an exec for the first time: its program becomes that of the binary.
LEMMA FoldedKeeps ==
  ASSUME GraphInv, UNCHANGED all_forks, NEW p \in alive, NEW binary \in Binaries,
         FileExecuted(p, binary), ~all_forks, ~all_programs[processes[p]].acted
  PROVE  GraphInv'
<1> DEFINE i == processes[p]
<1>1. /\ all_programs' = [all_programs EXCEPT ![i].binary = binary,
                                 ![i].created = "fork+exec", ![i].acted = TRUE]
      /\ UNCHANGED <<processes, run, hasty>> /\ alive' \subseteq alive
      /\ edges' = edges \cup {[prog |-> i, file |-> binary, mode |-> "exec"]}
  BY DEF FileExecuted, Executed
<1>2. P \in Nat /\ N \in Nat /\ run \in Nat /\ Shape /\ p \in 1 .. P /\ P' = P
  BY <1>1 DEF GraphInv, Shape, P, N
<1>3. i \in 1 .. N /\ all_programs[i].pid = p
  BY <1>2 DEF GraphInv, Places
<1>4. ~all_programs[i].acted
  OBVIOUS
<1> HIDE DEF i
<1>5. /\ all_programs' \in Seq(Program) /\ N' = N
      /\ all_programs'[i] = [all_programs[i] EXCEPT !.binary = binary,
                                         !.created = "fork+exec", !.acted = TRUE]
      /\ \A j \in 1 .. N : j # i => all_programs'[j] = all_programs[j]
  BY <1>1, <1>2, <1>3, Folded
<1>6. \A j \in 1 .. N : all_programs[j] \in Program
  BY <1>2 DEF Shape, N
<1>7. /\ all_programs'[i].pid = all_programs[i].pid /\ all_programs'[i].run = all_programs[i].run
      /\ all_programs'[i].parent = all_programs[i].parent
      /\ all_programs'[i].created = "fork+exec" /\ all_programs'[i].acted = TRUE
  BY <1>3, <1>5, <1>6 DEF Program
<1>8. \A j \in 1 .. N : /\ all_programs'[j].pid = all_programs[j].pid
                        /\ all_programs'[j].run = all_programs[j].run
                        /\ all_programs'[j].parent = all_programs[j].parent
  BY <1>5, <1>7
<1>9. Shape'
  <2>1. [prog |-> i, file |-> binary, mode |-> "exec"] \in Edge
    BY <1>2, <1>3, GraphAssumption DEF Edge, Modes
  <2>2. edges' \subseteq Edge /\ \A e \in edges' : e.prog \in 1 .. N'
    BY <1>1, <1>2, <1>3, <1>5, <2>1 DEF Shape
  <2>3. alive' \subseteq 1 .. P'
    BY <1>1, <1>2 DEF Shape
  <2> QED BY <1>1, <1>2, <1>5, <2>2, <2>3 DEF Shape
<1>10. Places'
  <2>1. ASSUME NEW q \in 1 .. P
        PROVE  processes'[q] \in 1 .. N' /\ all_programs'[processes'[q]].pid = q
    <3>1. processes[q] \in 1 .. N /\ all_programs[processes[q]].pid = q
      BY DEF GraphInv, Places
    <3> QED BY <1>1, <1>5, <1>8, <3>1
  <2>2. ASSUME NEW q \in alive' PROVE all_programs'[processes'[q]].run = run'
    <3>1. q \in alive /\ processes[q] \in 1 .. N /\ all_programs[processes[q]].run = run
      BY <1>1 DEF GraphInv, Shape, Places
    <3> QED BY <1>1, <1>8, <3>1
  <2> QED BY <1>2, <2>1, <2>2 DEF Places
<1>11. Arrows'
  <2>1. ASSUME NEW k \in 1 .. N PROVE Arrow(k)'
    <3> DEFINE j == all_programs[k].parent
    <3>1. Arrow(k)
      BY DEF GraphInv, Arrows
    <3>2. /\ j \in 0 .. k - 1
          /\ j # 0 => j \in 1 .. N
      BY <1>2, <3>1 DEF Arrow
    <3>3. /\ all_programs'[k].parent = j
          /\ all_programs'[k].created = "exec" => all_programs'[k].acted = TRUE
      BY <1>5, <1>7, <1>8, <3>1 DEF Arrow
    <3>4. all_programs'[k].run \in 1 .. run' /\ all_programs'[k].pid \in 1 .. P'
      BY <1>1, <1>2, <1>8, <3>1 DEF Arrow
    <3>5. ASSUME j # 0
          PROVE  /\ all_programs'[k].run = all_programs'[j].run
                 /\ all_programs'[k].pid = all_programs'[j].pid <=> all_programs'[k].created = "exec"
                 /\ all_programs'[k].created = "fork" /\ all_programs'[j].pid \notin hasty' =>
                       all_programs'[k].binary = all_programs'[j].binary
                       /\ Settled(all_programs'[j], all_forks')
      <4>1. /\ all_programs[k].run = all_programs[j].run
            /\ all_programs[k].pid = all_programs[j].pid <=> all_programs[k].created = "exec"
            /\ all_programs[k].created = "fork" /\ all_programs[j].pid \notin hasty =>
                  all_programs[k].binary = all_programs[j].binary
                  /\ Settled(all_programs[j], all_forks)
            /\ all_programs[k].created = "exec" => all_programs[k].acted = TRUE
        BY <3>1, <3>5 DEF Arrow
      <4> HIDE DEF j
      <4>2. j \in 1 .. N
        BY <3>2, <3>5
      <4>3. all_programs'[k].run = all_programs'[j].run
        BY <1>8, <4>1, <4>2
      <4>4. all_programs'[k].pid = all_programs'[j].pid <=> all_programs'[k].created = "exec"
        <5>1. CASE k = i
          BY <1>4, <1>7, <1>8, <4>1, <4>2, <5>1
        <5>2. CASE k # i
          BY <1>5, <1>8, <4>1, <4>2, <5>2
        <5> QED BY <5>1, <5>2
      <4>5. ASSUME all_programs'[k].created = "fork", all_programs'[j].pid \notin hasty'
            PROVE  all_programs'[k].binary = all_programs'[j].binary
                   /\ Settled(all_programs'[j], all_forks')
        <5>1. k # i /\ all_programs'[k] = all_programs[k]
          BY <1>5, <1>7, <4>5
        <5>2. all_programs[j].pid \notin hasty
          BY <1>1, <1>8, <4>2, <4>5
        <5>3. all_programs[k].binary = all_programs[j].binary /\ Settled(all_programs[j], all_forks)
          BY <4>1, <4>5, <5>1, <5>2
        <5>4. j # i
          BY <1>4, <5>3 DEF Settled
        <5>5. all_programs'[j] = all_programs[j]
          BY <1>5, <4>2, <5>4
        <5> QED BY <5>1, <5>3, <5>5 DEF Settled
      <4> QED BY <4>3, <4>4, <4>5
    <3> HIDE DEF j
    <3> QED BY <3>2, <3>3, <3>4, <3>5 DEF Arrow
  <2> QED BY <1>5, <2>1 DEF Arrows
<1>12. Roots'
  <2>1. N' = N + 1 => all_programs'[N + 1].parent # 0
    BY <1>2, <1>5
  <2> QED BY <1>1, <1>5, <1>8, <2>1, RootsKept
<1> QED BY <1>9, <1>10, <1>11, <1>12 DEF GraphInv

\* Any other exec splits the process in two programs.
LEMMA SplitKeeps ==
  ASSUME GraphInv, UNCHANGED all_forks, NEW p \in alive, NEW binary \in Binaries,
         FileExecuted(p, binary), all_forks \/ all_programs[processes[p]].acted
  PROVE  GraphInv'
<1> DEFINE i == processes[p]
           g == [pid |-> p, run |-> run, parent |-> i, thread |-> FALSE,
                 acted |-> TRUE, binary |-> binary, created |-> "exec"]
<1>1. /\ Adds(g) /\ processes' = [processes EXCEPT ![p] = N + 1]
      /\ UNCHANGED <<run, hasty>> /\ alive' \subseteq alive
      /\ edges' = edges \cup {[prog |-> processes'[p], file |-> binary, mode |-> "exec"]}
  BY DEF FileExecuted, Executed, N
<1>2. /\ P \in Nat /\ N \in Nat /\ run \in Nat /\ Shape /\ N + 1 \in Nat /\ p \in 1 .. P
      /\ processes \in [1 .. P -> Nat] /\ P <= MaxProcs
  BY DEF GraphInv, Shape, P, N
<1>3. i \in 1 .. N /\ all_programs[i].pid = p /\ all_programs[i].run = run
  BY <1>2 DEF GraphInv, Places
<1>4. run \in 1 .. run
  <2>1. all_programs[i].run \in 1 .. run
    BY <1>3 DEF GraphInv, Arrows, Arrow
  <2> QED BY <1>3, <2>1
<1> HIDE DEF i
<1>5. g \in Program
  BY <1>2, <1>3, GraphAssumption DEF Program, Procs, Images
<1>6. /\ all_programs' \in Seq(Program) /\ N' = N + 1 /\ all_programs'[N + 1] = g
      /\ \A k \in 1 .. N : all_programs'[k] = all_programs[k]
  BY <1>1, <1>2, <1>5, Added
<1>7. /\ all_programs'[N + 1].pid = p /\ all_programs'[N + 1].run = run
      /\ all_programs'[N + 1].parent = i /\ all_programs'[N + 1].created = "exec"
      /\ all_programs'[N + 1].acted = TRUE
  BY <1>6
<1> HIDE DEF g
<1>8. /\ processes' \in Seq(Nat) /\ P' = P /\ processes'[p] = N + 1
      /\ \A q \in 1 .. P : q # p => processes'[q] = processes[q]
  <2>1. processes' \in [1 .. P -> Nat]
    BY <1>1, <1>2
  <2>2. processes' \in Seq(Nat) /\ Len(processes') = P
    BY <1>2, <2>1, FunctionIsSequence
  <2> QED BY <1>1, <1>2, <2>2 DEF P
<1>9. Shape'
  <2>1. [prog |-> N + 1, file |-> binary, mode |-> "exec"] \in Edge
    BY <1>2, GraphAssumption DEF Edge, Modes
  <2>2. edges' \subseteq Edge /\ \A e \in edges' : e.prog \in 1 .. N'
    BY <1>1, <1>2, <1>6, <1>8, <2>1 DEF Shape
  <2>3. alive' \subseteq 1 .. P'
    BY <1>1, <1>2, <1>8 DEF Shape
  <2> QED BY <1>1, <1>2, <1>6, <1>8, <2>2, <2>3 DEF Shape
<1>10. Places'
  <2>1. ASSUME NEW q \in 1 .. P
        PROVE  processes'[q] \in 1 .. N' /\ all_programs'[processes'[q]].pid = q
    <3>1. processes[q] \in 1 .. N /\ all_programs[processes[q]].pid = q
      BY DEF GraphInv, Places
    <3>2. CASE q = p
      BY <1>2, <1>6, <1>7, <1>8, <3>2
    <3>3. CASE q # p
      <4>1. processes'[q] = processes[q] /\ all_programs'[processes[q]] = all_programs[processes[q]]
        BY <1>6, <1>8, <3>1, <3>3
      <4> QED BY <1>2, <1>6, <3>1, <4>1
    <3> QED BY <3>2, <3>3
  <2>2. ASSUME NEW q \in alive' PROVE all_programs'[processes'[q]].run = run'
    <3>1. q \in 1 .. P /\ processes[q] \in 1 .. N /\ all_programs[processes[q]].run = run
      BY <1>1 DEF GraphInv, Shape, Places
    <3>2. CASE q = p
      BY <1>1, <1>7, <1>8, <3>2
    <3>3. CASE q # p
      BY <1>1, <1>6, <1>8, <3>1, <3>3
    <3> QED BY <3>2, <3>3
  <2> QED BY <1>8, <2>1, <2>2 DEF Places
<1>11. Arrows'
  <2>1. ASSUME NEW k \in 1 .. N' PROVE Arrow(k)'
    <3>1. CASE k \in 1 .. N
      <4>1. /\ run' \in Nat /\ run <= run' /\ P' \in Nat /\ P <= P' /\ hasty \subseteq hasty'
            /\ \A j \in 1 .. N : all_programs'[j] = all_programs[j]
        BY <1>1, <1>2, <1>6, <1>8
      <4> QED BY <3>1, <4>1, ArrowKept
    <3>2. CASE k = N + 1
      <4>1. k - 1 = N /\ i \in 0 .. k - 1 /\ p \in 1 .. P' /\ run' = run
        BY <1>1, <1>2, <1>3, <1>8, <3>2
      <4>2. all_programs'[i] = all_programs[i]
        BY <1>3, <1>6
      <4> QED BY <1>3, <1>4, <1>7, <3>2, <4>1, <4>2 DEF Arrow
    <3> QED BY <1>2, <1>6, <3>1, <3>2, OneMore
  <2> QED BY <2>1 DEF Arrows
<1>12. Roots'
  <2>1. N' = N + 1 => all_programs'[N + 1].parent # 0
    BY <1>2, <1>3, <1>7
  <2>2. \A j \in 1 .. N : all_programs'[j].run = all_programs[j].run
                           /\ all_programs'[j].parent = all_programs[j].parent
    BY <1>6
  <2> QED BY <1>1, <1>6, <2>1, <2>2, RootsKept
<1> QED BY <1>9, <1>10, <1>11, <1>12 DEF GraphInv

-----------------------------------------------------------------------------
LEMMA GraphStep == GraphInv /\ [Next]_vars => GraphInv'
<1> SUFFICES ASSUME GraphInv, [Next]_vars PROVE GraphInv'
  OBVIOUS
<1>1. CASE UNCHANGED vars
  BY <1>1 DEF vars, shown, truth, GraphInv, Shape, Places, Arrows, Arrow, Settled, Roots, N, P
<1>2. CASE Next
  <2>1. UNCHANGED all_forks
    BY <1>2 DEF Next
  <2>2. CASE RunStarts
    BY <2>1, <2>2, RunStartsKeeps
  <2>3. ASSUME NEW p \in alive, NEW thread \in BOOLEAN, ProcessCreated(p, thread)
        PROVE  GraphInv'
    BY <2>1, <2>3, ProcessCreatedKeeps
  <2>4. ASSUME NEW p \in alive, NEW file \in Files \ Binaries, NEW mode \in {"read", "write"},
               FileOpened(p, file, mode)
        PROVE  GraphInv'
    BY <2>1, <2>4, FileOpenedKeeps
  <2>5. ASSUME NEW p \in alive, NEW binary \in Binaries, FileExecuted(p, binary)
        PROVE  GraphInv'
    BY <2>1, <2>5, FoldedKeeps, SplitKeeps
  <2> QED BY <1>2, <2>2, <2>3, <2>4, <2>5 DEF Next
<1> QED BY <1>1, <1>2

-----------------------------------------------------------------------------
(* The edges.  While a process is alive its program has the binary it runs;  *)
(* an edge of a process that did not act before its exec leaves a program    *)
(* whose binary no later exec changes, and so says what was done for ever.   *)

Says(e) ==
  [pid |-> all_programs[e.prog].pid, binary |-> all_programs[e.prog].binary,
   run |-> all_programs[e.prog].run, file |-> e.file, mode |-> e.mode]

Runs ==
  /\ running \in Seq(Images) /\ Len(running) = P
  /\ \A p \in alive : all_programs[processes[p]].binary = running[p]

Shown ==
  \A e \in edges : all_programs[e.prog].pid \notin hasty =>
    Says(e) \in did /\ Settled(all_programs[e.prog], all_forks)

Done == \A d \in did : d.pid \notin hasty => \E e \in edges : Says(e) = d

EdgeInv == GraphInv /\ Runs /\ Shown /\ Done

LEMMA EdgeInit == Init => EdgeInv
<1>1. Init => Runs /\ Shown /\ Done
  BY DEF Init, Runs, Shown, Done, P
<1> QED BY <1>1, GraphInit DEF EdgeInv

LEMMA EdgesSay == EdgeInv => EdgesOfPrograms
<1> SUFFICES ASSUME EdgeInv PROVE EdgesOfPrograms
  OBVIOUS
<1> DEFINE calm == {x \in edges : all_programs[x.prog].pid \notin hasty}
<1>1. ASSUME NEW e \in calm PROVE Says(e) \in {d \in did : d.pid \notin hasty}
  <2>1. Says(e) \in did /\ Says(e).pid \notin hasty
    BY DEF EdgeInv, Shown, Says
  <2> QED BY <2>1
<1>2. ASSUME NEW d \in did, d.pid \notin hasty PROVE \E e \in calm : Says(e) = d
  <2>1. PICK e \in edges : Says(e) = d
    BY <1>2 DEF EdgeInv, Done
  <2>2. all_programs[e.prog].pid = d.pid
    BY <2>1 DEF Says
  <2> QED BY <1>2, <2>1, <2>2
<1>3. {Says(e) : e \in calm} = {d \in did : d.pid \notin hasty}
  BY <1>1, <1>2
<1> QED BY <1>3 DEF EdgesOfPrograms, Says

\* What was shown and done stays so, when only a program that is not settled changes.
LEMMA EdgesKept ==
  ASSUME EdgeInv, UNCHANGED all_forks, hasty \subseteq hasty',
         edges \subseteq edges', did \subseteq did',
         \A j \in 1 .. N :
            /\ all_programs'[j].pid = all_programs[j].pid
            /\ Settled(all_programs[j], all_forks) => all_programs'[j] = all_programs[j],
         \A e \in edges' : e \notin edges =>
            Says(e)' \in did' /\ (all_programs'[e.prog].pid \notin hasty' =>
                                     Settled(all_programs'[e.prog], all_forks')),
         \A d \in did' : d \notin did => \E e \in edges' : Says(e)' = d
  PROVE  Shown' /\ Done'
<1>1. ASSUME NEW e \in edges, all_programs[e.prog].pid \notin hasty
      PROVE  Says(e)' = Says(e) /\ all_programs'[e.prog] = all_programs[e.prog]
             /\ Says(e) \in did /\ Settled(all_programs[e.prog], all_forks)
  <2>1. e.prog \in 1 .. N
    BY DEF EdgeInv, GraphInv, Shape
  <2>2. Says(e) \in did /\ Settled(all_programs[e.prog], all_forks)
    BY <1>1 DEF EdgeInv, Shown
  <2>3. all_programs'[e.prog] = all_programs[e.prog]
    BY <2>1, <2>2
  <2> QED BY <2>2, <2>3 DEF Says
<1>2. ASSUME NEW e \in edges', all_programs'[e.prog].pid \notin hasty'
      PROVE  Says(e)' \in did' /\ Settled(all_programs'[e.prog], all_forks')
  <2>1. CASE e \notin edges
    BY <1>2, <2>1
  <2>2. CASE e \in edges
    <3>1. e.prog \in 1 .. N
      BY <2>2 DEF EdgeInv, GraphInv, Shape
    <3>2. all_programs[e.prog].pid \notin hasty
      BY <1>2, <3>1
    <3>3. Says(e)' = Says(e) /\ all_programs'[e.prog] = all_programs[e.prog]
          /\ Says(e) \in did /\ Settled(all_programs[e.prog], all_forks)
      BY <1>1, <2>2, <3>2
    <3> QED BY <3>3
  <2> QED BY <2>1, <2>2
<1>3. ASSUME NEW d \in did', d.pid \notin hasty' PROVE \E e \in edges' : Says(e)' = d
  <2>1. CASE d \notin did
    BY <2>1
  <2>2. CASE d \in did
    <3>1. PICK e \in edges : Says(e) = d
      BY <1>3, <2>2 DEF EdgeInv, Done
    <3>2. all_programs[e.prog].pid \notin hasty
      BY <1>3, <3>1 DEF Says
    <3> QED BY <1>1, <3>1, <3>2
  <2> QED BY <2>1, <2>2
<1> QED BY <1>2, <1>3 DEF Shown, Done

LEMMA RunStartsShows ==
  ASSUME EdgeInv, UNCHANGED all_forks, RunStarts
  PROVE  Runs' /\ Shown' /\ Done'
<1> DEFINE g == [pid |-> P + 1, run |-> run + 1, parent |-> 0, thread |-> FALSE,
                 acted |-> FALSE, binary |-> "none", created |-> "initial"]
<1>1. /\ P < MaxProcs /\ Adds(g) /\ processes' = Append(processes, N + 1)
      /\ alive' = {P + 1} /\ running' = Append(running, "none")
      /\ UNCHANGED <<edges, did, hasty>>
  BY DEF RunStarts, P, N
<1>2. Shape /\ P \in Nat /\ N \in Nat /\ run \in Nat /\ N + 1 \in Nat
  BY DEF EdgeInv, GraphInv, Shape, P, N
<1>3. g \in Program
  BY <1>1, <1>2, GraphAssumption DEF Program, Procs, Images
<1>4. /\ all_programs'[N + 1] = g /\ \A i \in 1 .. N : all_programs'[i] = all_programs[i]
  BY <1>1, <1>2, <1>3, Added
<1>5. P' = P + 1 /\ processes'[P + 1] = N + 1
  BY <1>1, <1>2, AppendedProcess
<1>6. all_programs'[N + 1].binary = "none"
  BY <1>4
<1> HIDE DEF g
<1>7. Runs'
  <2>1. /\ running' \in Seq(Images) /\ Len(running') = P + 1 /\ running'[P + 1] = "none"
    BY <1>1, <1>2 DEF EdgeInv, Runs, Images
  <2> QED BY <1>1, <1>5, <1>6, <2>1 DEF Runs
<1> QED BY <1>1, <1>4, <1>7, EdgesKept

LEMMA ProcessCreatedShows ==
  ASSUME EdgeInv, UNCHANGED all_forks, NEW parent \in alive, NEW thread \in BOOLEAN,
         ProcessCreated(parent, thread)
  PROVE  Runs' /\ Shown' /\ Done'
<1> DEFINE f == processes[parent]
           g == [pid |-> P + 1, run |-> run, parent |-> f, thread |-> thread, acted |-> FALSE,
                 binary |-> all_programs[f].binary, created |-> "fork"]
<1>1. /\ P < MaxProcs /\ Adds(g) /\ processes' = Append(processes, N + 1)
      /\ alive' = alive \cup {P + 1} /\ running' = Append(running, running[parent])
      /\ hasty \subseteq hasty' /\ UNCHANGED <<edges, did>>
  BY DEF ProcessCreated, P, N, Hurries
<1>2. Shape /\ P \in Nat /\ N \in Nat /\ run \in Nat /\ N + 1 \in Nat /\ parent \in 1 .. P
  BY DEF EdgeInv, GraphInv, Shape, P, N
<1>3. f \in 1 .. N /\ all_programs[f].binary = running[parent] /\ all_programs[f] \in Program
  BY <1>2 DEF EdgeInv, GraphInv, Places, Runs, Shape, N
<1> HIDE DEF f
<1>4. g \in Program
  BY <1>1, <1>2, <1>3, GraphAssumption DEF Program, Procs, Images
<1>5. /\ all_programs'[N + 1] = g /\ \A i \in 1 .. N : all_programs'[i] = all_programs[i]
  BY <1>1, <1>2, <1>4, Added
<1>6. P' = P + 1 /\ processes'[P + 1] = N + 1 /\ \A q \in 1 .. P : processes'[q] = processes[q]
  BY <1>1, <1>2, AppendedProcess
<1>7. all_programs'[N + 1].binary = running[parent] /\ running[parent] \in Images
  BY <1>3, <1>5 DEF Program
<1> HIDE DEF g
<1>8. Runs'
  <2>1. /\ running' \in Seq(Images) /\ Len(running') = P + 1
        /\ running'[P + 1] = running[parent] /\ \A q \in 1 .. P : running'[q] = running[q]
    <3>1. running \in Seq(Images) /\ Len(running) = P
      BY DEF EdgeInv, Runs
    <3> QED BY <1>1, <1>2, <1>7, <3>1
  <2>2. ASSUME NEW p \in alive' PROVE all_programs'[processes'[p]].binary = running'[p]
    <3>1. CASE p = P + 1
      BY <1>6, <1>7, <2>1, <3>1
    <3>2. CASE p \in alive
      <4>1. p \in 1 .. P /\ processes[p] \in 1 .. N /\ all_programs[processes[p]].binary = running[p]
        BY <3>2 DEF EdgeInv, GraphInv, Shape, Places, Runs
      <4> QED BY <1>5, <1>6, <2>1, <4>1
    <3> QED BY <1>1, <3>1, <3>2
  <2> QED BY <1>6, <2>1, <2>2 DEF Runs
<1> QED BY <1>1, <1>5, <1>8, EdgesKept

LEMMA FileOpenedShows ==
  ASSUME EdgeInv, UNCHANGED all_forks, NEW p \in alive, NEW file \in Files \ Binaries,
         NEW mode \in {"read", "write"}, FileOpened(p, file, mode)
  PROVE  Runs' /\ Shown' /\ Done'
<1> DEFINE new == [prog |-> processes[p], file |-> file, mode |-> mode]
<1>1. /\ edges' = edges \cup {new} /\ did' = did \cup {Doing(p, file, mode)}
      /\ hasty' = Hurries(p) /\ UNCHANGED <<all_programs, processes, run, alive, running>>
  BY DEF FileOpened
<1>2. /\ processes[p] \in 1 .. N /\ all_programs[processes[p]].pid = p
      /\ all_programs[processes[p]].run = run /\ all_programs[processes[p]].binary = running[p]
      /\ all_programs[processes[p]] \in Program /\ all_forks \in BOOLEAN
  <2>1. processes[p] \in 1 .. N /\ all_programs[processes[p]].pid = p
        /\ all_programs[processes[p]].run = run /\ all_programs[processes[p]].binary = running[p]
    BY DEF EdgeInv, GraphInv, Shape, Places, Runs
  <2>2. all_forks \in BOOLEAN /\ all_programs \in Seq(Program)
    BY DEF EdgeInv, GraphInv, Shape
  <2> QED BY <2>1, <2>2 DEF N
<1>3. ASSUME NEW e, e = new PROVE Says(e)' = Doing(p, file, mode)
  BY <1>1, <1>2, <1>3 DEF Says, Doing
<1>4. ASSUME NEW e, e = new, all_programs'[e.prog].pid \notin hasty'
      PROVE  Settled(all_programs'[e.prog], all_forks')
  BY <1>1, <1>2, <1>4 DEF Hurries, Settled, Program
<1>5. hasty \subseteq hasty'
  BY <1>1 DEF Hurries
<1>6. Runs'
  BY <1>1 DEF EdgeInv, Runs, P
<1> HIDE DEF new
<1>7. \A e \in edges' : e \notin edges =>
        Says(e)' \in did' /\ (all_programs'[e.prog].pid \notin hasty' =>
                                 Settled(all_programs'[e.prog], all_forks'))
  BY <1>1, <1>3, <1>4
<1>8. \A d \in did' : d \notin did => \E e \in edges' : Says(e)' = d
  <2>1. PICK e \in edges' : e = new
    BY <1>1
  <2> QED BY <1>1, <1>3, <2>1
<1> QED BY <1>1, <1>5, <1>6, <1>7, <1>8, EdgesKept

LEMMA FileExecutedShows ==
  ASSUME EdgeInv, UNCHANGED all_forks, NEW p \in alive, NEW binary \in Binaries,
         FileExecuted(p, binary)
  PROVE  Runs' /\ Shown' /\ Done'
<1> DEFINE i == processes[p]
           k == processes'[p]
           new == [prog |-> k, file |-> binary, mode |-> "exec"]
           deed == [pid |-> p, binary |-> binary, run |-> run, file |-> binary, mode |-> "exec"]
<1>1. /\ edges' = edges \cup {new} /\ did' = did \cup {deed}
      /\ running' = [running EXCEPT ![p] = binary] /\ alive' \subseteq alive
      /\ UNCHANGED <<run, hasty>>
  BY DEF FileExecuted, Doing
<1>2. Shape /\ P \in Nat /\ N \in Nat /\ N + 1 \in Nat /\ p \in 1 .. P /\ run \in Nat
      /\ processes \in [1 .. P -> Nat]
  BY DEF EdgeInv, GraphInv, Shape, P, N
<1>3. i \in 1 .. N /\ all_programs[i].pid = p /\ all_programs[i].run = run
      /\ all_programs[i] \in Program /\ all_forks \in BOOLEAN
  BY <1>2 DEF EdgeInv, GraphInv, Places, Shape, N
<1>4. /\ all_programs'[k].pid = p /\ all_programs'[k].run = run
      /\ all_programs'[k].binary = binary /\ all_programs'[k].acted = TRUE
      /\ \A j \in 1 .. N :
           /\ all_programs'[j].pid = all_programs[j].pid
           /\ j # i \/ Settled(all_programs[j], all_forks) => all_programs'[j] = all_programs[j]
      /\ \A q \in 1 .. P : q # p => processes'[q] = processes[q]
      /\ P' = P
  <2>1. CASE ~all_forks /\ ~all_programs[i].acted
    <3>1. /\ all_programs' = [all_programs EXCEPT ![i].binary = binary,
                                   ![i].created = "fork+exec", ![i].acted = TRUE]
          /\ UNCHANGED processes
      BY <2>1 DEF FileExecuted, Executed
    <3>2. ~Settled(all_programs[i], all_forks)
      BY <1>3, <2>1 DEF Settled
    <3> HIDE DEF i
    <3>3. /\ all_programs'[i] = [all_programs[i] EXCEPT !.binary = binary,
                                       !.created = "fork+exec", !.acted = TRUE]
          /\ \A j \in 1 .. N : j # i => all_programs'[j] = all_programs[j]
      BY <1>2, <1>3, <3>1, Folded
    <3>4. /\ all_programs'[i].pid = p /\ all_programs'[i].run = run
          /\ all_programs'[i].binary = binary /\ all_programs'[i].acted = TRUE
      BY <1>3, <3>3 DEF Program
    <3>5. k = i
      BY <3>1 DEF i
    <3> QED BY <1>3, <3>1, <3>2, <3>3, <3>4, <3>5 DEF P
  <2>2. CASE all_forks \/ all_programs[i].acted
    <3> DEFINE g == [pid |-> p, run |-> run, parent |-> i, thread |-> FALSE,
                     acted |-> TRUE, binary |-> binary, created |-> "exec"]
    <3>1. Adds(g) /\ processes' = [processes EXCEPT ![p] = N + 1]
      BY <2>2 DEF FileExecuted, Executed, N
    <3>2. g \in Program
      BY <1>2, <1>3, GraphAssumption DEF Program, Procs, Images, Shape
    <3>3. all_programs'[N + 1] = g /\ \A j \in 1 .. N : all_programs'[j] = all_programs[j]
      BY <1>2, <3>1, <3>2, Added
    <3>4. k = N + 1 /\ \A q \in 1 .. P : q # p => processes'[q] = processes[q]
      BY <1>2, <3>1
    <3>5. P' = P
      <4>1. processes' \in [1 .. P -> Nat]
        BY <1>2, <3>1
      <4> QED BY <1>2, <4>1, FunctionIsSequence DEF P
    <3> QED BY <3>3, <3>4, <3>5
  <2> QED BY <2>1, <2>2
<1> HIDE DEF i, k
<1>5. Runs'
  <2>1. running \in [1 .. P -> Images] /\ binary \in Images
    BY <1>2 DEF EdgeInv, Runs, Images
  <2>2. running' \in [1 .. P -> Images] /\ running'[p] = binary
        /\ \A q \in 1 .. P : q # p => running'[q] = running[q]
    BY <1>1, <1>2, <2>1
  <2>3. running' \in Seq(Images) /\ Len(running') = P
    BY <1>2, <2>2, FunctionIsSequence
  <2>4. ASSUME NEW q \in alive' PROVE all_programs'[processes'[q]].binary = running'[q]
    <3>1. q \in 1 .. P /\ processes[q] \in 1 .. N /\ all_programs[processes[q]].pid = q
          /\ all_programs[processes[q]].binary = running[q]
      BY <1>1 DEF EdgeInv, GraphInv, Shape, Places, Runs
    <3>2. CASE q = p
      BY <1>4, <2>2, <3>2 DEF k
    <3>3. CASE q # p
      <4>1. processes[q] # i
        BY <1>3, <3>1, <3>3
      <4> QED BY <1>4, <2>2, <3>1, <3>3, <4>1
    <3> QED BY <3>2, <3>3
  <2> QED BY <1>4, <2>3, <2>4 DEF Runs
<1>6. ASSUME NEW e, e = new PROVE Says(e)' = deed
  BY <1>4, <1>6 DEF Says
<1>7. ASSUME NEW e, e = new PROVE Settled(all_programs'[e.prog], all_forks')
  BY <1>4, <1>7 DEF Settled
<1> HIDE DEF new, deed
<1>8. \A e \in edges' : e \notin edges =>
        Says(e)' \in did' /\ (all_programs'[e.prog].pid \notin hasty' =>
                                 Settled(all_programs'[e.prog], all_forks'))
  BY <1>1, <1>6, <1>7
<1>9. \A d \in did' : d \notin did => \E e \in edges' : Says(e)' = d
  <2>1. PICK e \in edges' : e = new
    BY <1>1
  <2> QED BY <1>1, <1>6, <2>1
<1> QED BY <1>1, <1>4, <1>5, <1>8, <1>9, EdgesKept

LEMMA EdgeStep == EdgeInv /\ [Next]_vars => EdgeInv'
<1> SUFFICES ASSUME EdgeInv, [Next]_vars PROVE EdgeInv'
  OBVIOUS
<1>1. GraphInv'
  BY GraphStep DEF EdgeInv
<1>2. CASE UNCHANGED vars
  BY <1>1, <1>2 DEF vars, shown, truth, EdgeInv, Runs, Shown, Done, Says, P
<1>3. CASE Next
  <2>1. UNCHANGED all_forks
    BY <1>3 DEF Next
  <2>2. ASSUME NEW p \in alive, NEW file \in Files \ Binaries, NEW mode \in {"read", "write"},
               FileOpened(p, file, mode)
        PROVE  Runs' /\ Shown' /\ Done'
    BY <2>1, <2>2, FileOpenedShows
  <2>3. Runs' /\ Shown' /\ Done'
    BY <1>3, <2>1, <2>2, RunStartsShows, ProcessCreatedShows, FileExecutedShows DEF Next
  <2> QED BY <1>1, <2>3 DEF EdgeInv
<1> QED BY <1>2, <1>3

-----------------------------------------------------------------------------
(* Threads: the program of a thread comes from one of its own thread group, *)
(* so that the arrows lead from it to a program of the leader.              *)

Follows(i) ==
  /\ all_programs[i].thread = TRUE <=> leader[all_programs[i].pid] # all_programs[i].pid
  /\ all_programs[i].thread = TRUE =>
       /\ all_programs[i].parent # 0
       /\ leader[all_programs[i].pid] = leader[all_programs[all_programs[i].parent].pid]

Leaders ==
  /\ leader \in Seq(Nat) /\ Len(leader) = P
  /\ \A p \in 1 .. P : leader[p] \in 1 .. p
  /\ \A i \in 1 .. N : Follows(i)

ThreadInv == GraphInv /\ Leaders

LEMMA ThreadInit == Init => ThreadInv
<1> SUFFICES ASSUME Init PROVE Leaders
  BY GraphInit DEF ThreadInv
<1>1. leader = <<>> /\ P = 0 /\ N = 0
  BY DEF Init, P, N
<1> QED BY <1>1 DEF Leaders

LEMMA LeadersKept ==
  ASSUME GraphInv, GraphInv', Leaders, P <= P', N <= N',
         leader' \in Seq(Nat), Len(leader') = P',
         \A q \in 1 .. P : leader'[q] = leader[q],
         \A q \in 1 .. P' : q \notin 1 .. P => leader'[q] \in 1 .. q,
         \A j \in 1 .. N : /\ all_programs'[j].pid = all_programs[j].pid
                           /\ all_programs'[j].thread = all_programs[j].thread
                           /\ all_programs'[j].parent = all_programs[j].parent,
         \A j \in 1 .. N' : j \notin 1 .. N => Follows(j)'
  PROVE  Leaders'
<1>1. \A q \in 1 .. P' : leader'[q] \in 1 .. q
  BY DEF Leaders
<1>2. ASSUME NEW i \in 1 .. N PROVE Follows(i)'
  <2>1. Follows(i) /\ Arrow(i) /\ N \in Nat
    BY DEF Leaders, GraphInv, Shape, Arrows, N
  <2>2. all_programs[i].pid \in 1 .. P
    BY <2>1 DEF Arrow
  <2>3. leader'[all_programs'[i].pid] = leader[all_programs[i].pid]
    BY <2>2
  <2>4. all_programs[i].parent # 0 => all_programs[i].parent \in 1 .. N
    BY <2>1 DEF Arrow
  <2>5. ASSUME all_programs[i].parent # 0
        PROVE  leader'[all_programs'[all_programs'[i].parent].pid]
                    = leader[all_programs[all_programs[i].parent].pid]
    <3>1. Arrow(all_programs[i].parent)
      BY <2>4, <2>5 DEF GraphInv, Arrows
    <3>2. all_programs[all_programs[i].parent].pid \in 1 .. P
      BY <3>1 DEF Arrow
    <3> QED BY <2>4, <2>5, <3>2
  <2> QED BY <2>1, <2>3, <2>5 DEF Follows
<1> QED BY <1>1, <1>2 DEF Leaders

LEMMA LeaderAppended ==
  ASSUME Leaders, NEW n \in Nat, leader' = Append(leader, n)
  PROVE  /\ leader' \in Seq(Nat) /\ Len(leader') = P + 1 /\ leader'[P + 1] = n /\ P \in Nat
         /\ \A q \in 1 .. P : leader'[q] = leader[q]
<1>1. leader \in Seq(Nat) /\ Len(leader) = P
  BY DEF Leaders
<1> QED BY <1>1

LEMMA ThreadStep == ThreadInv /\ [Next]_vars => ThreadInv'
<1> SUFFICES ASSUME ThreadInv, [Next]_vars PROVE Leaders'
  BY GraphStep DEF ThreadInv
<1>1. GraphInv /\ Leaders /\ GraphInv' /\ P \in Nat /\ N \in Nat /\ Shape
  BY GraphStep DEF ThreadInv, GraphInv, Shape, P, N
<1>2. CASE UNCHANGED vars
  BY <1>1, <1>2 DEF vars, shown, truth, Leaders, Follows, P, N
<1>4. ASSUME NEW g \in Program, Adds(g), NEW l \in Nat, NEW n, processes' = Append(processes, n),
             n \in Nat, leader' = Append(leader, l), l \in 1 .. P + 1, g.pid = P + 1,
             g.thread = TRUE <=> l # P + 1,
             g.thread = TRUE => g.parent \in 1 .. N /\ l = leader[all_programs[g.parent].pid]
      PROVE  Leaders'
  <2>1. N' = N + 1 /\ all_programs'[N + 1] = g
        /\ \A i \in 1 .. N : all_programs'[i] = all_programs[i]
    BY <1>1, <1>4, Added
  <2>2. P' = P + 1
    BY <1>1, <1>4, AppendedProcess
  <2>3. /\ leader' \in Seq(Nat) /\ Len(leader') = P + 1 /\ leader'[P + 1] = l
        /\ \A q \in 1 .. P : leader'[q] = leader[q]
    BY <1>1, <1>4, LeaderAppended
  <2> PICK m \in Nat : m = N + 1
    BY <1>1
  <2>4. Follows(m)'
    <3>0. all_programs'[m] = g
      BY <2>1
    <3>1. ASSUME g.thread = TRUE
          PROVE  /\ all_programs'[m].parent # 0
                 /\ leader'[all_programs'[m].pid]
                      = leader'[all_programs'[all_programs'[m].parent].pid]
      <4>1. Arrow(g.parent) /\ g.parent \in 1 .. N /\ g.parent # 0
        BY <1>1, <1>4, <3>1 DEF GraphInv, Arrows
      <4>2. all_programs[g.parent].pid \in 1 .. P
        BY <4>1 DEF Arrow
      <4>3. all_programs'[all_programs'[m].parent] = all_programs[g.parent]
        BY <2>1, <3>0, <4>1
      <4>4. leader'[all_programs[g.parent].pid] = leader[all_programs[g.parent].pid]
        BY <2>3, <4>2
      <4>5. leader'[all_programs'[m].pid] = l /\ l = leader[all_programs[g.parent].pid]
        BY <1>4, <2>3, <3>0, <3>1
      <4>6. all_programs'[m].parent # 0
        BY <3>0, <4>1
      <4> QED BY <4>3, <4>4, <4>5, <4>6
    <3>2. all_programs'[m].thread = TRUE
            <=> leader'[all_programs'[m].pid] # all_programs'[m].pid
      BY <1>4, <2>1, <2>3, <3>0
    <3> QED BY <3>0, <3>1, <3>2 DEF Follows
  <2>5. \A q \in 1 .. P + 1 : q \notin 1 .. P => leader'[q] \in 1 .. q
    BY <1>1, <1>4, <2>3, OneMore
  <2>6. \A j \in 1 .. N' : j \notin 1 .. N => Follows(j)'
    <3>1. \A j \in 1 .. N' : j \notin 1 .. N => j = m
      BY <1>1, <2>1, OneMore
    <3> QED BY <2>4, <3>1
  <2> QED BY <1>1, <2>1, <2>2, <2>3, <2>5, <2>6, LeadersKept
<1>5. CASE RunStarts
  <2> DEFINE g == [pid |-> P + 1, run |-> run + 1, parent |-> 0, thread |-> FALSE,
                   acted |-> FALSE, binary |-> "none", created |-> "initial"]
  <2>1. /\ P < MaxProcs /\ Adds(g) /\ processes' = Append(processes, N + 1)
        /\ leader' = Append(leader, P + 1)
    BY <1>5 DEF RunStarts, P, N
  <2>2. g \in Program
    BY <1>1, <2>1, GraphAssumption DEF Program, Procs, Images, Shape
  <2>3. g.pid = P + 1 /\ g.thread = FALSE
    OBVIOUS
  <2> HIDE DEF g
  <2>4. P + 1 \in Nat /\ N + 1 \in Nat /\ P + 1 \in 1 .. P + 1 /\ ~(g.thread = TRUE)
    BY <1>1, <2>3
  <2> QED BY <1>4, <2>1, <2>2, <2>3, <2>4
<1>6. ASSUME NEW parent \in alive, NEW thread \in BOOLEAN, ProcessCreated(parent, thread)
      PROVE  Leaders'
  <2> DEFINE f == processes[parent]
             g == [pid |-> P + 1, run |-> run, parent |-> f, thread |-> thread, acted |-> FALSE,
                   binary |-> all_programs[f].binary, created |-> "fork"]
             l == IF thread THEN leader[parent] ELSE P + 1
  <2>1. /\ P < MaxProcs /\ Adds(g) /\ processes' = Append(processes, N + 1)
        /\ leader' = Append(leader, l)
    BY <1>6 DEF ProcessCreated, P, N
  <2>2. parent \in 1 .. P /\ f \in 1 .. N /\ all_programs[f].pid = parent
    BY <1>1, <1>6 DEF GraphInv, Shape, Places
  <2>3. all_programs[f] \in Program
    BY <1>1, <2>2 DEF Shape, N
  <2> HIDE DEF f
  <2>4. g \in Program
    BY <1>1, <2>1, <2>2, <2>3, GraphAssumption DEF Program, Procs, Images, Shape
  <2>5. g.pid = P + 1 /\ g.thread = thread /\ g.parent = f
    OBVIOUS
  <2>6. leader[parent] \in 1 .. parent
    BY <1>1, <2>2 DEF Leaders
  <2>7. l \in 1 .. P + 1 /\ (thread = TRUE <=> l # P + 1)
    BY <1>1, <1>6, <2>2, <2>6
  <2>8. thread = TRUE => l = leader[all_programs[f].pid]
    BY <2>2
  <2>9. l \in Nat /\ N + 1 \in Nat
    BY <1>1, <2>7
  <2> HIDE DEF g, l
  <2> QED BY <1>4, <2>1, <2>2, <2>4, <2>5, <2>7, <2>8, <2>9
<1>7. ASSUME NEW p \in alive, NEW binary \in Binaries, FileExecuted(p, binary)
      PROVE  Leaders'
  <2> DEFINE i == processes[p]
  <2>1. p \in 1 .. P /\ i \in 1 .. N /\ all_programs[i].pid = p /\ leader[p] = p /\ UNCHANGED leader
        /\ all_programs[i].run = run
    BY <1>1, <1>7 DEF GraphInv, Shape, Places, FileExecuted
  <2>2. CASE ~all_forks /\ ~all_programs[i].acted
    <3>1. all_programs' = [all_programs EXCEPT ![i].binary = binary,
                                    ![i].created = "fork+exec", ![i].acted = TRUE]
          /\ UNCHANGED processes
      BY <1>7, <2>2 DEF FileExecuted, Executed
    <3>2. all_programs[i] \in Program
      BY <1>1, <2>1 DEF Shape, N
    <3> HIDE DEF i
    <3>3. N' = N /\ all_programs'[i] = [all_programs[i] EXCEPT !.binary = binary,
                                          !.created = "fork+exec", !.acted = TRUE]
          /\ \A j \in 1 .. N : j # i => all_programs'[j] = all_programs[j]
      BY <1>1, <1>7, <2>1, <3>1, Folded
    <3>4. /\ all_programs'[i].pid = all_programs[i].pid
          /\ all_programs'[i].thread = all_programs[i].thread
          /\ all_programs'[i].parent = all_programs[i].parent
      BY <3>2, <3>3 DEF Program
    <3>5. P' = P /\ leader' \in Seq(Nat) /\ Len(leader') = P'
      BY <1>1, <2>1, <3>1 DEF P, Leaders
    <3>6. \A j \in 1 .. N : /\ all_programs'[j].pid = all_programs[j].pid
                            /\ all_programs'[j].thread = all_programs[j].thread
                            /\ all_programs'[j].parent = all_programs[j].parent
      BY <3>3, <3>4
    <3> QED BY <1>1, <2>1, <3>3, <3>5, <3>6, LeadersKept
  <2>3. CASE ~(~all_forks /\ ~all_programs[i].acted)
    <3> DEFINE g == [pid |-> p, run |-> run, parent |-> i, thread |-> FALSE,
                     acted |-> TRUE, binary |-> binary, created |-> "exec"]
    <3>1. Adds(g) /\ processes' = [processes EXCEPT ![p] = N + 1]
      BY <1>7, <2>3 DEF FileExecuted, Executed, N
    <3>2. g \in Program
      <4>1. p \in Procs /\ i \in Nat /\ binary \in Images /\ run \in Nat
        BY <1>1, <1>7, <2>1, GraphAssumption DEF Procs, Shape, Images
      <4> HIDE DEF i
      <4> QED BY <4>1 DEF Program
    <3>3. g.pid = p /\ g.thread = FALSE
      OBVIOUS
    <3> HIDE DEF g
    <3>4. P' = P
      BY <1>1, <3>1 DEF P, Shape
    <3>5. N' = N + 1 /\ all_programs'[N + 1] = g
          /\ \A j \in 1 .. N : all_programs'[j] = all_programs[j]
      BY <1>1, <3>1, <3>2, Added
    <3> PICK m \in Nat : m = N + 1
      BY <1>1
    <3>8. all_programs'[m] = g
      BY <3>5
    <3>9. Follows(m)'
      BY <2>1, <3>3, <3>8 DEF Follows
    <3>6. \A j \in 1 .. N' : j \notin 1 .. N => Follows(j)'
      <4>1. \A j \in 1 .. N' : j \notin 1 .. N => j = m
        BY <1>1, <3>5, OneMore
      <4> QED BY <3>9, <4>1
    <3>7. leader' \in Seq(Nat) /\ Len(leader') = P'
      BY <1>1, <2>1, <3>4 DEF Leaders
    <3> QED BY <1>1, <2>1, <3>4, <3>5, <3>6, <3>7, LeadersKept
  <2> QED BY <2>2, <2>3
<1>8. ASSUME NEW p \in alive, NEW file \in Files \ Binaries, NEW mode \in {"read", "write"},
             FileOpened(p, file, mode)
      PROVE  Leaders'
  <2>1. UNCHANGED <<all_programs, processes, leader>>
    BY <1>8 DEF FileOpened
  <2> QED BY <1>1, <2>1 DEF Leaders, Follows, P, N
<1> QED BY <1>2, <1>5, <1>6, <1>7, <1>8 DEF Next

-----------------------------------------------------------------------------
(* The program that NonThread finds.  Induction on the list of programs is  *)
(* that on the least number outside a set.                                  *)

LEMMA Induction ==
  ASSUME NEW S, \A n \in Nat : (\A k \in 0 .. n - 1 : k \in S) => n \in S
  PROVE  Nat \subseteq S
<1> DEFINE T == Nat \ S
<1> SUFFICES ASSUME T # {} PROVE FALSE
  OBVIOUS
<1>1. \E n \in T : \A y \in T : <<y, n>> \notin OpToRel(<, Nat)
  <2>1. IsWellFoundedOn(OpToRel(<, Nat), Nat)
    BY NatLessThanWellFounded, Zenon
  <2>2. T \subseteq Nat
    OBVIOUS
  <2> HIDE DEF T
  <2>3. IsWellFoundedOn(OpToRel(<, Nat), T)
    BY <2>1, <2>2, IsWellFoundedOnSubset, Zenon
  <2> QED BY <2>1, <2>2, WFMin, Zenon
<1>2. \A x, y \in Nat : <<y, x>> \in OpToRel(<, Nat) <=> y < x
  BY Zenon DEF OpToRel
<1>3. PICK n \in T : \A y \in T : ~(y < n)
  BY <1>1, <1>2
<1>4. \A k \in 0 .. n - 1 : k \in S
  BY <1>3
<1> QED BY <1>3, <1>4

\* What NonThread is defined to be.
Led(f, n) ==
  \A i \in 1 .. n : f[i] = IF all_programs[i].thread THEN f[all_programs[i].parent] ELSE i

LEMMA ThreadsComeLater ==
  ASSUME ThreadInv, NEW i \in 1 .. N, all_programs[i].thread
  PROVE  all_programs[i].parent \in 1 .. i - 1
<1>1. Arrow(i) /\ Follows(i) /\ N \in Nat
  BY DEF ThreadInv, GraphInv, Shape, N, Arrows, Leaders
<1>2. all_programs[i].thread = TRUE
  BY DEF ThreadInv, GraphInv, Shape, N, Program
<1> QED BY <1>1, <1>2 DEF Arrow, Follows

LEMMA NonThreadExists ==
  ASSUME ThreadInv
  PROVE  \E f \in [1 .. N -> Nat] : Led(f, N)
<1> DEFINE Exists(n) == \E f \in [1 .. n -> Nat] : Led(f, n)
           S == {n \in Nat : n <= N => Exists(n)}
<1>1. N \in Nat
  BY DEF ThreadInv, GraphInv, Shape, N
<1>2. ASSUME NEW n \in Nat, \A k \in 0 .. n - 1 : k \in S, n <= N
      PROVE  Exists(n)
  <2>1. CASE n = 0
    <3>1. [i \in 1 .. 0 |-> 0] \in [1 .. n -> Nat] /\ Led([i \in 1 .. 0 |-> 0], n)
      BY <2>1 DEF Led
    <3> QED BY <3>1
  <2>2. CASE n # 0
    <3>1. Exists(n - 1)
      <4> HIDE DEF Exists
      <4>1. n - 1 \in 0 .. n - 1 /\ n - 1 \in Nat /\ n - 1 <= N
        BY <1>1, <1>2, <2>2
      <4> QED BY <1>2, <4>1
    <3>2. PICK f \in [1 .. n - 1 -> Nat] : Led(f, n - 1)
      BY <3>1
    <3> DEFINE v == IF all_programs[n].thread THEN f[all_programs[n].parent] ELSE n
               g == [i \in 1 .. n |-> IF i = n THEN v ELSE f[i]]
    <3>3. n \in 1 .. N /\ (all_programs[n].thread => all_programs[n].parent \in 1 .. n - 1)
      BY <1>1, <1>2, <2>2, ThreadsComeLater
    <3>4. v \in Nat
      BY <3>2, <3>3
    <3>5. g \in [1 .. n -> Nat]
      <4> HIDE DEF v
      <4> QED BY <3>2, <3>4
    <3>6. \A i \in 1 .. n - 1 : i \in 1 .. N /\ g[i] = f[i]
      BY <1>1, <1>2
    <3>7. g[n] = v
      BY <3>3
    <3> HIDE DEF g
    <3>8. ASSUME NEW i \in 1 .. n
          PROVE  g[i] = IF all_programs[i].thread THEN g[all_programs[i].parent] ELSE i
      <4>1. CASE i = n
        BY <3>3, <3>6, <3>7, <4>1
      <4>2. CASE i # n
        <5>1. i \in 1 .. n - 1 /\ i \in 1 .. N
          BY <1>1, <1>2, <4>2
        <5>2. all_programs[i].thread => all_programs[i].parent \in 1 .. n - 1
          BY <5>1, <1>2, ThreadsComeLater
        <5>3. f[i] = IF all_programs[i].thread THEN f[all_programs[i].parent] ELSE i
          BY <3>2, <5>1 DEF Led
        <5> QED BY <3>6, <5>1, <5>2, <5>3
      <4> QED BY <4>1, <4>2
    <3> QED BY <3>5, <3>8 DEF Led
  <2> QED BY <2>1, <2>2
<1>3. Nat \subseteq S
  <2>1. \A n \in Nat : (\A k \in 0 .. n - 1 : k \in S) => n \in S
    <3> HIDE DEF Exists
    <3> QED BY <1>2
  <2> HIDE DEF S
  <2> QED BY <2>1, Induction
<1>4. Exists(N)
  <2> HIDE DEF Exists
  <2> QED BY <1>1, <1>3
<1> QED BY <1>4

LEMMA NonThreadLed ==
  ASSUME ThreadInv
  PROVE  Led(NonThread, N)
<1>1. DOMAIN all_programs = 1 .. N
  BY DEF ThreadInv, GraphInv, Shape, N
<1> DEFINE Is(f) == f = [i \in DOMAIN all_programs |->
                 IF all_programs[i].thread THEN f[all_programs[i].parent] ELSE i]
<1>2. \E f : Is(f)
  <2>1. PICK f \in [1 .. N -> Nat] : Led(f, N)
    BY NonThreadExists
  <2>2. f = [i \in 1 .. N |-> IF all_programs[i].thread THEN f[all_programs[i].parent] ELSE i]
    BY <2>1 DEF Led
  <2> QED BY <1>1, <2>2
<1>3. NonThread = CHOOSE f : Is(f)
  BY DEF NonThread
<1> HIDE DEF Is
<1>4. Is(NonThread)
  BY <1>2, <1>3
<1> QED BY <1>1, <1>4 DEF Is, Led

\* The program of the leader of the thread group, in the same run.
Leads(i) ==
  /\ NonThread[i] \in 1 .. N /\ ~all_programs[NonThread[i]].thread
  /\ all_programs[NonThread[i]].run = all_programs[i].run
  /\ all_programs[NonThread[i]].pid = leader[all_programs[i].pid]

LEMMA NonThreadLeads ==
  ASSUME ThreadInv
  PROVE  \A i \in 1 .. N : Leads(i)
<1> DEFINE S == {n \in Nat : n \in 1 .. N => Leads(n)}
<1>1. N \in Nat /\ Led(NonThread, N)
  BY NonThreadLed DEF ThreadInv, GraphInv, Shape, N
<1>2. ASSUME NEW n \in Nat, \A k \in 0 .. n - 1 : k \in S, n \in 1 .. N
      PROVE  Leads(n)
  <2>1. Arrow(n) /\ Follows(n) /\ all_programs[n].thread \in BOOLEAN
    <3>1. Arrow(n) /\ Follows(n)
      BY <1>2 DEF ThreadInv, GraphInv, Arrows, Leaders
    <3>2. all_programs[n] \in Program
      BY <1>2 DEF ThreadInv, GraphInv, Shape, N
    <3> QED BY <3>1, <3>2 DEF Program
  <2>2. CASE all_programs[n].thread
    <3> DEFINE j == all_programs[n].parent
    <3>1. j \in 1 .. n - 1 /\ NonThread[n] = NonThread[j]
      BY <1>1, <1>2, <2>2, ThreadsComeLater DEF Led
    <3>2. Leads(j)
      BY <1>1, <1>2, <3>1
    <3>3. all_programs[j].run = all_programs[n].run
          /\ leader[all_programs[n].pid] = leader[all_programs[j].pid]
      BY <2>1, <2>2 DEF Arrow, Follows
    <3> QED BY <3>1, <3>2, <3>3 DEF Leads
  <2>3. CASE ~all_programs[n].thread
    <3>1. NonThread[n] = n
      BY <1>1, <1>2, <2>3 DEF Led
    <3>2. leader[all_programs[n].pid] = all_programs[n].pid
      BY <2>1, <2>3 DEF Follows
    <3> QED BY <1>2, <2>3, <3>1, <3>2 DEF Leads
  <2> QED BY <2>2, <2>3
<1>3. Nat \subseteq S
  <2>1. \A n \in Nat : (\A k \in 0 .. n - 1 : k \in S) => n \in S
    BY <1>2
  <2> HIDE DEF S
  <2> QED BY <2>1, Induction
<1> QED BY <1>1, <1>3

-----------------------------------------------------------------------------
(* What is drawn and written. *)

LEMMA ProgramsDrawn ==
  ASSUME ThreadInv, NEW level \in Levels.processes, NEW e \in edges
  PROVE  LET n == dot_endpoint(e.prog, level)
         IN  /\ n \in ProgramNodes(level)
             /\ level = "run" \/ all_programs[n[2]].run = all_programs[e.prog].run
             /\ level = "process" => all_programs[n[2]].pid = leader[all_programs[e.prog].pid]
<1>1. e.prog \in 1 .. N /\ DOMAIN all_programs = 1 .. N
  BY DEF ThreadInv, GraphInv, Shape, N
<1>2. Leads(e.prog)
  BY <1>1, NonThreadLeads
<1>3. all_programs[e.prog].run \in 1 .. run
  BY <1>1 DEF ThreadInv, GraphInv, Arrows, Arrow
<1>4. CASE level = "run"
  BY <1>3, <1>4 DEF dot_endpoint, ProgramNodes
<1>5. CASE level = "process"
  BY <1>1, <1>2, <1>5 DEF dot_endpoint, ProgramNodes, Leads
<1>6. CASE level = "thread"
  BY <1>1, <1>6 DEF dot_endpoint, ProgramNodes
<1> QED BY <1>4, <1>5, <1>6 DEF Levels

LEMMA FilesDrawn ==
  ASSUME ThreadInv, NEW filter \in Filters, NEW level_pkgs \in Levels.pkgs,
         NEW level_other_files \in Levels.other
  PROVE  LET g == generate(filter, level_pkgs, level_other_files)
         IN  \A e \in graph_dot(g, level_pkgs) :
                file_endpoint(e.file, g, level_pkgs) \in FileNodes(g, level_pkgs)
<1> DEFINE g == generate(filter, level_pkgs, level_other_files)
           kept == {[e EXCEPT !.file = filter[e.file]] :
                       e \in {x \in edges : filter[x.file] # "none"}}
           files == {e.file : e \in kept}
           packaged == {f \in files : level_pkgs # "ignore" /\ PackageOf[f] # "none"}
           Shorter(e) == IF e.file \in packaged THEN e ELSE [e EXCEPT !.file = Truncated[@]]
<1> SUFFICES ASSUME NEW e \in graph_dot(g, level_pkgs)
             PROVE  file_endpoint(e.file, g, level_pkgs) \in FileNodes(g, level_pkgs)
  OBVIOUS
<1>1. e \in g.edges /\ (level_pkgs = "drop" => e.file \notin g.packaged)
  BY DEF graph_dot
<1>2. g.packaged = packaged
  BY DEF generate
<1>3. e.file \in packaged \cup g.other_files
  <2>1. CASE level_other_files = "depth"
    <3>1. g.edges = {Shorter(x) : x \in kept}
          /\ g.other_files = {Truncated[f] : f \in files \ packaged}
      BY <2>1 DEF generate
    <3>2. PICK x \in kept : e = Shorter(x)
      BY <1>1, <3>1
    <3>3. x.file \in files
      BY <3>2
    <3>4. \E y : x = [y EXCEPT !.file = filter[y.file]] /\ y \in Edge
      BY <3>2 DEF ThreadInv, GraphInv, Shape
    <3>5. "file" \in DOMAIN x
      BY <3>4 DEF Edge
    <3> HIDE DEF files, kept, packaged, g
    <3>6. CASE x.file \in packaged
      BY <3>2, <3>6
    <3>7. CASE x.file \notin packaged
      <4>1. e.file = Truncated[x.file]
        BY <3>2, <3>5, <3>7
      <4> QED BY <3>1, <3>3, <3>7, <4>1
    <3> QED BY <3>6, <3>7
  <2>2. CASE level_other_files # "depth"
    BY <1>1, <2>2 DEF generate
  <2> QED BY <2>1, <2>2
<1> HIDE DEF g, kept, files
<1>4. level_pkgs \in {"file", "package", "ignore", "drop"}
  BY DEF Levels
<1>5. CASE e.file \in packaged /\ level_pkgs = "package"
  BY <1>2, <1>5 DEF file_endpoint, FileNodes
<1>6. CASE e.file \in packaged /\ level_pkgs = "file"
  BY <1>2, <1>6 DEF file_endpoint, FileNodes
<1>7. ~(e.file \in packaged /\ level_pkgs \in {"ignore", "drop"})
  BY <1>1, <1>2
<1>8. CASE e.file \notin packaged
  <2>1. e.file \in g.other_files
    BY <1>3, <1>8
  <2>2. file_endpoint(e.file, g, level_pkgs) = <<"file", e.file>>
    BY <1>2, <1>8 DEF file_endpoint
  <2>3. <<"file", e.file>> \in {<<"file", f>> : f \in g.other_files}
    BY <2>1
  <2> QED BY <2>2, <2>3 DEF FileNodes
<1> QED BY <1>4, <1>5, <1>6, <1>7, <1>8

LEMMA ThreadsDraw == ThreadInv => EndpointsDrawn
<1> SUFFICES ASSUME ThreadInv PROVE EndpointsDrawn
  OBVIOUS
<1>1. ASSUME NEW level \in Levels.processes, NEW e \in edges
      PROVE  LET n == dot_endpoint(e.prog, level)
             IN  /\ n \in ProgramNodes(level)
                 /\ level = "run" \/ all_programs[n[2]].run = all_programs[e.prog].run
                 /\ level = "process" => all_programs[n[2]].pid = leader[all_programs[e.prog].pid]
  BY ProgramsDrawn
<1>2. ASSUME NEW filter \in Filters, NEW level_pkgs \in Levels.pkgs,
             NEW level_other_files \in Levels.other
      PROVE  LET g == generate(filter, level_pkgs, level_other_files)
             IN  \A e \in graph_dot(g, level_pkgs) :
                    file_endpoint(e.file, g, level_pkgs) \in FileNodes(g, level_pkgs)
  BY FilesDrawn
<1> QED BY <1>1, <1>2 DEF EndpointsDrawn

\* A program that is no entry and is not missing is that of a thread.
LEMMA NoEntry ==
  ASSUME ThreadInv, NEW i \in Entries("process"),
         all_programs[i].parent \notin Entries("process") \cup {0}
  PROVE  /\ i \in DOMAIN all_programs /\ all_programs[i].parent \in DOMAIN all_programs
         /\ ~all_programs[i].thread
         /\ leader[all_programs[all_programs[i].parent].pid]
              # all_programs[all_programs[i].parent].pid
<1> DEFINE j == all_programs[i].parent
<1>1. i \in DOMAIN all_programs /\ ~all_programs[i].thread /\ DOMAIN all_programs = 1 .. N /\ N \in Nat
  BY DEF ThreadInv, GraphInv, Shape, N, Entries
<1>2. j \in 0 .. i - 1 /\ j # 0
  BY <1>1 DEF ThreadInv, GraphInv, Arrows, Arrow
<1>3. j \in 1 .. N
  BY <1>1, <1>2
<1>4. all_programs[j].thread
  BY <1>1, <1>3 DEF Entries
<1>5. Follows(j) /\ all_programs[j] \in Program
  BY <1>3 DEF ThreadInv, Leaders, GraphInv, Shape, N
<1>6. all_programs[j].thread = TRUE
  BY <1>4, <1>5 DEF Program
<1> QED BY <1>1, <1>3, <1>5, <1>6 DEF Follows

LEMMA ThreadsWrite == ThreadInv => JsonWritten
<1> SUFFICES ASSUME ThreadInv PROVE JsonWritten
  OBVIOUS
<1> DEFINE g == generate([f \in Files |-> f], "file", "all")
           Leader(i) == [pid |-> leader[all_programs[i].pid], run |-> all_programs[i].run]
           Is(i)     == [pid |-> all_programs[i].pid, run |-> all_programs[i].run]
           ThreadForked == \E i, j \in DOMAIN all_programs :
             /\ all_programs[i].parent = j /\ ~all_programs[i].thread
             /\ leader[all_programs[j].pid] # all_programs[j].pid
<1>1. DOMAIN all_programs = 1 .. N /\ N \in Nat /\ edges \subseteq Edge
  BY DEF ThreadInv, GraphInv, Shape, N
<1>2. ~JsonFails(g, "thread", "file")
  <2>1. Entries("thread") = 1 .. N
    BY <1>1 DEF Entries
  <2>2. \A i \in 1 .. N : all_programs[i].parent \in 1 .. N \cup {0}
    BY <1>1 DEF ThreadInv, GraphInv, Arrows, Arrow
  <2> QED BY <2>1, <2>2 DEF JsonFails
<1>3. JsonFails(g, "process", "file") => ThreadForked
  <2> HAVE JsonFails(g, "process", "file")
  <2>1. PICK i \in Entries("process") : all_programs[i].parent \notin Entries("process") \cup {0}
    BY DEF JsonFails
  <2> QED BY <2>1, NoEntry
<1>4. \A e \in g.edges : e.prog \in 1 .. N /\ e.mode \in Modes
  <2>1. \A e \in g.edges : \E x \in edges : e = [x EXCEPT !.file = [f \in Files |-> f][x.file]]
    BY DEF generate
  <2>2. \A x \in edges : x.prog \in 1 .. N /\ x.mode \in Modes
    BY <1>1 DEF Edge, ThreadInv, GraphInv, Shape
  <2>3. ASSUME NEW x \in edges
        PROVE  [x EXCEPT !.file = [f \in Files |-> f][x.file]].prog = x.prog
               /\ [x EXCEPT !.file = [f \in Files |-> f][x.file]].mode = x.mode
    BY <1>1, <2>3 DEF Edge
  <2> HIDE DEF g
  <2>4. ASSUME NEW e \in g.edges PROVE e.prog \in 1 .. N /\ e.mode \in Modes
    <3>1. PICK x \in edges : e = [x EXCEPT !.file = [f \in Files |-> f][x.file]]
      BY <2>1
    <3>2. e.prog = x.prog /\ e.mode = x.mode
      BY <2>3, <3>1, Zenon
    <3> QED BY <2>2, <3>2
  <2> QED BY <2>4
<1> HIDE DEF g
<1>5. ASSUME NEW level \in {"thread", "process"}, NEW e \in g.edges
      PROVE  \E i \in DOMAIN graph_json(g, level) :
               /\ Is(i) = (IF level = "process" THEN Leader(e.prog) ELSE Is(e.prog))
               /\ e.file \in (IF e.mode = "write" THEN graph_json(g, level)[i].writes
                              ELSE graph_json(g, level)[i].reads)
  <2> DEFINE i == prog_map(level)[e.prog]
             Of(k, modes) == {x.file : x \in {y \in g.edges :
                                prog_map(level)[y.prog] = k /\ y.mode \in modes}}
  <2>1. i \in Entries(level) /\ Is(i) = (IF level = "process" THEN Leader(e.prog) ELSE Is(e.prog))
    <3>1. e.prog \in 1 .. N
      BY <1>4, <1>5
    <3>2. Leads(e.prog)
      BY <3>1, NonThreadLeads
    <3>3. CASE level = "thread"
      BY <1>1, <3>1, <3>3 DEF prog_map, Entries
    <3>4. CASE level = "process"
      <4>1. i = NonThread[e.prog]
        BY <1>1, <3>1, <3>4 DEF prog_map
      <4> QED BY <1>1, <3>2, <3>4, <4>1 DEF Leads, Entries
    <3> QED BY <3>3, <3>4
  <2>2. /\ DOMAIN graph_json(g, level) = Entries(level)
        /\ graph_json(g, level)[i].writes = Of(i, {"write"})
        /\ graph_json(g, level)[i].reads = Of(i, {"read", "exec"})
    <3> HIDE DEF i
    <3> QED BY <2>1 DEF graph_json
  <2>3. e.mode \in {"read", "write", "exec"}
    BY <1>4, <1>5 DEF Modes
  <2>4. e.mode = "write" => e.file \in Of(i, {"write"})
    BY <1>5
  <2>5. e.mode # "write" => e.file \in Of(i, {"read", "exec"})
    BY <1>5, <2>3
  <2> HIDE DEF i, Of
  <2>6. e.file \in (IF e.mode = "write" THEN graph_json(g, level)[i].writes
                    ELSE graph_json(g, level)[i].reads)
    BY <2>2, <2>4, <2>5
  <2> HIDE DEF Is, Leader
  <2> QED BY <2>1, <2>2, <2>6
<1> QED BY <1>2, <1>3, <1>5 DEF JsonWritten, g

-----------------------------------------------------------------------------
\* The state of read_events() is what the code takes it to be: every process
\* is in a program of the list, every edge leaves one, and a program is made
\* after the one it comes from.
THEOREM GraphTyped == Spec => []TypeOK
<1> QED BY GraphInit, GraphStep, GraphIsTyped, PTL DEF Spec

\* The comment of read_events(), "forking creates a new program (with the same
\* binary) and exec'ing creates a new program as well (with the same process)":
\* the arrows between programs say what happened, and make one tree per run.
THEOREM Lineage == Spec => []LineageShown
<1> QED BY GraphInit, GraphStep, GraphShowsLineage, PTL DEF Spec

\* The edges of the graph are what the processes did: no file access or
\* execution is dropped, made up, or shown as done by another process, run or
\* binary, but of a process that acted before its first exec.
THEOREM EdgesHold == Spec => []EdgesOfPrograms
<1> QED BY EdgeInit, EdgeStep, EdgesSay, PTL DEF Spec

\* At every level of detail, of packages and of other files, the edges that
\* graph_dot() writes join nodes that it draws, and where threads are not shown
\* the program is one of the thread's leader in the same run.
THEOREM Drawn == Spec => []EndpointsDrawn
<1> QED BY ThreadInit, ThreadStep, ThreadsDraw, PTL DEF Spec

\* graph_json() finds the entry of each program it writes files for, and does
\* not fail but on a process that a thread made, where threads are not shown.
THEOREM Written == Spec => []JsonWritten
<1> QED BY ThreadInit, ThreadStep, ThreadsWrite, PTL DEF Spec
=============================================================================
