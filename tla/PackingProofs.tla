--------------------------- MODULE PackingProofs ----------------------------
(***************************************************************************)
(* From the trace to the pack, for every set of files, packages, programs  *)
(* and faults, and however long the sequence of commands, edits, kills and *)
(* reboots:                                                                *)
(*   - a pack that opens lists exactly what it holds;                      *)
(*   - the state is well typed;                                            *)
(*   - the runs of the configuration are those of the trace;               *)
(*   - each file is an input of the runs that only read it and an output   *)
(*     of those that write it first, although the code sees only           *)
(*     timestamps and counters;                                            *)
(*   - a pack made of a configuration as it was written holds what its     *)
(*     runs needed.                                                        *)
(***************************************************************************)
EXTENDS Packing, FiniteSetTheorems, SequenceTheorems, NaturalsInduction, WellFoundedInduction, TLAPS

CKeys     == {"exists", "valid", "asWritten", "runs", "files", "packages", "packed",
              "patterns", "iofiles", "use", "disk"}
Fields(c) == c = [k \in CKeys |-> c[k]] /\ c.packed \subseteq Packages

\* What the configuration on disk, the one a command holds and the one in the
\* pack are at each place.
PackInv ==
  /\ config = NoConfig \/ Fields(config)
  /\ pc = "saving" => Fields(loc.config)
  /\ pc = "packing" => Fields(loc) /\ CanonicalLoads(loc)
  /\ pc = "packed data" => CanonicalLoads(loc.config) /\ loc.data = Listed(loc.config)
  /\ PackListsItsData

-----------------------------------------------------------------------------
LEMMA ConfigurationFields ==
  ASSUME NEW overwrite, NEW sort PROVE Fields(Configuration(overwrite, sort))
BY DEF Configuration, Fields, CKeys

LEMMA TornFields == ASSUME NEW c, Fields(c), NEW d \in Torn(c) PROVE Fields(d)
BY DEF Torn, Fields, CKeys

\* canonicalize_config() resolves every pattern, and leaves a configuration that
\* load_config() accepts.
LEMMA CanonicalFields ==
  ASSUME NEW c, Fields(c), Loads(c), NEW sort
  PROVE  Fields(Canonical(c, sort)) /\ CanonicalLoads(Canonical(c, sort))
<1> DEFINE add  == c.patterns \cap disk
           new  == IF sort THEN identify_packages(add)
                   ELSE [files |-> add, packages |-> [p \in Packages |-> {}]]
           both == combine_files(new, c)
<1>1. Canonical(c, sort) =
        [c EXCEPT !.files = both.files, !.packages = both.packages, !.patterns = {}]
  BY DEF Canonical
<1> HIDE DEF both
<1> QED BY <1>1 DEF Fields, CKeys, Loads, CanonicalLoads

\* Dropping the missing files from the lists keeps what is listed and there.
LEMMA ListedAndThere ==
  ASSUME NEW c, Fields(c), CanonicalLoads(c), NEW d,
         d = [c EXCEPT !.files = c.files \cap disk,
                       !.packages = [p \in Packages |-> IF p \in c.packed THEN c.packages[p] \cap disk
                                                                      ELSE c.packages[p]]]
  PROVE  CanonicalLoads(d) /\ Listed(c) \cap disk = Listed(d)
<1>1. /\ d.files = c.files \cap disk /\ d.packed = c.packed
      /\ d.packages = [p \in Packages |-> IF p \in c.packed THEN c.packages[p] \cap disk
                                                           ELSE c.packages[p]]
      /\ d.exists = c.exists /\ d.valid = c.valid /\ d.patterns = c.patterns
  BY DEF Fields, CKeys
<1>2. CanonicalLoads(d)
  BY <1>1 DEF CanonicalLoads, Loads
<1>3. \A p \in c.packed : d.packages[p] = c.packages[p] \cap disk
  BY <1>1 DEF Fields
<1>4. Listed(c) \cap disk = Listed(d)
  <2>1. \A f : f \in Listed(c) <=> f \in c.files \/ \E p \in c.packed : f \in c.packages[p]
    BY DEF Listed
  <2>2. \A f : f \in Listed(d) <=> f \in d.files \/ \E p \in d.packed : f \in d.packages[p]
    BY DEF Listed
  <2>3. \A f : f \in Listed(c) \cap disk <=> f \in Listed(d)
    <3> TAKE f
    <3>1. f \in d.files <=> f \in c.files /\ f \in disk
      BY <1>1
    <3>2. (\E p \in d.packed : f \in d.packages[p])
            <=> \E p \in c.packed : f \in c.packages[p] /\ f \in disk
      <4>1. \A p \in c.packed : f \in d.packages[p] <=> f \in c.packages[p] /\ f \in disk
        BY <1>3
      <4>2. d.packed = c.packed
        BY <1>1
      <4> QED BY <4>1, <4>2
    <3> QED BY <2>1, <2>2, <3>1, <3>2
  <2> QED BY <2>3
<1> QED BY <1>2, <1>4

-----------------------------------------------------------------------------
LEMMA PackInit == Init => PackInv
BY DEF Init, PackInv, PackListsItsData, Opens, NoPack

\* A command that is not 'pack' leaves the pack as it is.
LEMMA KeepsPack ==
  ASSUME PackListsItsData, UNCHANGED target PROVE PackListsItsData'
BY DEF PackListsItsData, Opens, RPZPack, CanonicalLoads, Loads, Listed

LEMMA LoadedFields == ASSUME PackInv, Loads(config) PROVE Fields(config)
<1>1. ~NoConfig.exists
  BY DEF NoConfig
<1> QED BY <1>1 DEF PackInv, Loads

LEMMA NothingChanged ==
  ASSUME PackInv, UNCHANGED <<config, target, pc, loc>> PROVE PackInv'
<1>1. /\ Fields(config)' <=> Fields(config)
      /\ Fields(loc)' <=> Fields(loc)
      /\ Fields(loc.config)' <=> Fields(loc.config)
  BY DEF Fields, CKeys
<1>2. /\ CanonicalLoads(loc)' <=> CanonicalLoads(loc)
      /\ CanonicalLoads(loc.config)' <=> CanonicalLoads(loc.config)
      /\ Listed(loc.config)' = Listed(loc.config)
  BY DEF CanonicalLoads, Loads, Listed
<1>3. PackListsItsData'
  BY KeepsPack DEF PackInv
<1> QED BY <1>1, <1>2, <1>3 DEF PackInv, NoConfig

LEMMA PackStep == PackInv /\ [Next]_vars => PackInv'
<1> SUFFICES ASSUME PackInv, [Next]_vars PROVE PackInv'
  OBVIOUS
<1>a. (Fields(config)' <=> Fields(config')) /\ (config' = config => (Fields(config)' <=> Fields(config)))
  BY DEF Fields, CKeys
<1>b. UNCHANGED target => PackListsItsData'
  BY KeepsPack DEF PackInv
<1>1. ASSUME UNCHANGED target, pc' \notin {"saving", "packing", "packed data"},
             config' = config \/ config' = NoConfig \/ Fields(config')
      PROVE  PackInv'
  BY <1>1, <1>a, <1>b DEF PackInv, NoConfig
<1>2. CASE Trace \/ TracerCommits \/ TracerFails \/ Reset \/ Combine
  BY <1>1, <1>2 DEF Trace, TracerCommits, TracerFails, Reset, Combine, Step, Return
<1>3. CASE Configure
  <2>1. CASE UNCHANGED config /\ Return
    BY <1>1, <1>3, <2>1 DEF Configure, Return, Step
  <2>2. ASSUME NEW sort \in BOOLEAN, NEW all,
               Step("saving", [all |-> all, config |-> Configuration(loc.overwrite, sort)]),
               config' \in Torn(Configuration(loc.overwrite, sort))
        PROVE  PackInv'
    <3> DEFINE c == Configuration(loc.overwrite, sort)
    <3>1. Fields(c) /\ Fields(config')
      BY <2>2, ConfigurationFields, TornFields
    <3>2. pc' = "saving" /\ loc'.config = c
      BY <2>2 DEF Step
    <3>3. Fields(loc'.config)
      BY <3>1, <3>2
    <3>4. Fields(loc.config)'
      BY <3>3 DEF Fields, CKeys
    <3>5. UNCHANGED target
      BY <1>3 DEF Configure
    <3> QED BY <1>a, <1>b, <3>1, <3>2, <3>4, <3>5 DEF PackInv
  <2> QED BY <1>3, <2>1, <2>2 DEF Configure
<1>4. CASE Save
  BY <1>1, <1>4 DEF Save, Return, Step, PackInv
<1>5. CASE PackStarts
  <2>1. /\ pc' = "packing" /\ UNCHANGED config /\ Loads(config)
        /\ target' = Partial /\ \E sort : loc' = Canonical(config, sort)
    BY <1>5 DEF PackStarts, Step
  <2>2. Fields(config)
    BY <2>1, LoadedFields
  <2>3. Fields(loc') /\ CanonicalLoads(loc')
    BY <2>1, <2>2, CanonicalFields
  <2>4. Fields(loc)' /\ CanonicalLoads(loc)'
    BY <2>3 DEF Fields, CKeys, CanonicalLoads, Loads
  <2>5. PackListsItsData'
    BY <2>1 DEF PackListsItsData, Opens, Partial
  <2> QED BY <1>a, <2>1, <2>2, <2>4, <2>5 DEF PackInv
<1>6. CASE PackAdds
  <2> DEFINE d == [loc EXCEPT !.files = loc.files \cap disk,
                              !.packages = [p \in Packages |-> IF p \in loc.packed
                                              THEN loc.packages[p] \cap disk
                                              ELSE loc.packages[p]]]
  <2>1. /\ pc = "packing" /\ pc' = "packed data" /\ UNCHANGED <<config, target>>
        /\ loc' = [data |-> Listed(loc) \cap disk, disk |-> disk, config |-> d]
    BY <1>6 DEF PackAdds, Step
  <2>2. Fields(loc) /\ CanonicalLoads(loc)
    BY <2>1 DEF PackInv
  <2>3. CanonicalLoads(d) /\ Listed(loc) \cap disk = Listed(d)
    BY <2>2, ListedAndThere
  <2> HIDE DEF d
  <2>4. loc'.config = d /\ loc'.data = Listed(loc) \cap disk
    BY <2>1
  <2>5. CanonicalLoads(loc'.config) /\ loc'.data = Listed(loc'.config)
    BY <2>3, <2>4
  <2>6. (CanonicalLoads(loc.config) /\ loc.data = Listed(loc.config))'
    BY <2>5 DEF CanonicalLoads, Loads, Listed
  <2> QED BY <1>a, <1>b, <2>1, <2>6 DEF PackInv
<1>7. CASE PackEnds
  <2>1. /\ pc = "packed data" /\ pc' = "idle" /\ UNCHANGED config
        /\ target'.config = loc.config /\ target'.data = loc.data
    BY <1>7 DEF PackEnds, Return, Step
  <2>2. CanonicalLoads(target'.config) /\ target'.data = Listed(target'.config)
    BY <2>1 DEF PackInv
  <2>3. PackListsItsData'
    BY <2>2 DEF PackListsItsData, RPZPack, CanonicalLoads, Loads, Listed
  <2> QED BY <1>a, <2>1, <2>3 DEF PackInv
<1>8. CASE PackFails \/ Kill
  BY <1>1, <1>8 DEF PackFails, Kill, Return, Step
<1>9. CASE EditConfig
  <2>1. Idle /\ UNCHANGED <<pc, target>> /\ Loads(config)
    BY <1>9 DEF EditConfig
  <2>2. Fields(config)
    BY <2>1, LoadedFields
  <2>3. Fields(config')
    <3>1. CASE \E p \in Packages :
                 config' = [config EXCEPT !.asWritten = FALSE, !.packed = config.packed \ {p}]
      BY <2>2, <3>1 DEF Fields, CKeys
    <3>2. CASE \E v : config' = [config EXCEPT !.asWritten = FALSE, !.files = v]
      BY <2>2, <3>2 DEF Fields, CKeys
    <3>3. CASE \E v : config' = [config EXCEPT !.asWritten = FALSE, !.patterns = v]
      BY <2>2, <3>3 DEF Fields, CKeys
    <3>4. CASE config' = [config EXCEPT !.asWritten = FALSE, !.valid = FALSE]
      BY <2>2, <3>4 DEF Fields, CKeys
    <3> QED BY <1>9, <3>1, <3>2, <3>3, <3>4 DEF EditConfig
  <2> QED BY <1>1, <2>1, <2>3 DEF Idle
<1>10. CASE RemoveFile
  <2>1. UNCHANGED <<config, target, pc, loc>>
    BY <1>10 DEF RemoveFile
  <2> QED BY <2>1, NothingChanged
<1>11. CASE RemovePack
  <2>1. UNCHANGED <<config, pc, loc>> /\ target' = NoPack /\ pc = "idle"
    BY <1>11 DEF RemovePack, Idle
  <2>2. PackListsItsData'
    BY <2>1 DEF PackListsItsData, Opens, NoPack
  <2> QED BY <1>a, <2>1, <2>2 DEF PackInv
<1>12. CASE Reboot
  BY <1>1, <1>12 DEF Reboot, Idle
<1>13. CASE UNCHANGED vars
  <2>1. UNCHANGED <<config, target, pc, loc>>
    BY <1>13 DEF vars
  <2> QED BY <2>1, NothingChanged
<1> QED BY <1>2, <1>3, <1>4, <1>5, <1>6, <1>7, <1>8, <1>9, <1>10, <1>11, <1>12, <1>13 DEF Next

\* Whatever was traced, combined, edited, removed or killed, a pack that opens
\* has a configuration every unpacker accepts, and holds exactly what it lists.
THEOREM PacksListTheirData == Spec => []PackListsItsData
<1>1. PackInv => PackListsItsData
  BY DEF PackInv
<1> QED BY <1>1, PackInit, PackStep, PTL DEF Spec

-----------------------------------------------------------------------------
(* The loops: a loop on a sequence is FoldLeft, which is a function on the  *)
(* sets of places.  Induction is on the least number outside a set.         *)

LEMMA Induction ==
  ASSUME NEW S, \A n \in Nat : (\A k \in 0 .. n - 1 : k \in S) => n \in S
  PROVE  Nat \subseteq S
<1> DEFINE T == Nat \ S
<1> SUFFICES ASSUME T # {} PROVE FALSE
  OBVIOUS
<1>1. \E n \in T : \A y \in T : <<y, n>> \notin OpToRel(<, Nat)
  <2>1. IsWellFoundedOn(OpToRel(<, Nat), Nat)
    BY NatLessThanWellFounded, Zenon
  <2>2. T \subseteq Nat
    OBVIOUS
  <2> HIDE DEF T
  <2>3. IsWellFoundedOn(OpToRel(<, Nat), T)
    BY <2>1, <2>2, IsWellFoundedOnSubset, Zenon
  <2> QED BY <2>1, <2>2, WFMin, Zenon
<1>2. \A x, y \in Nat : <<y, x>> \in OpToRel(<, Nat) <=> y < x
  BY Zenon DEF OpToRel
<1>3. PICK n \in T : \A y \in T : ~(y < n)
  BY <1>1, <1>2
<1>4. \A k \in 0 .. n - 1 : k \in S
  BY <1>3
<1> QED BY <1>3, <1>4

\* From 0 up to n, one by one.
LEMMA UpTo ==
  ASSUME NEW n \in Nat, NEW S, 0 \in S, \A k \in 1 .. n : k - 1 \in S => k \in S
  PROVE  0 .. n \subseteq S
<1> DEFINE T == {k \in Nat : k <= n => k \in S}
<1>1. ASSUME NEW m \in Nat, \A k \in 0 .. m - 1 : k \in T PROVE m \in T
  <2>1. CASE m = 0
    BY <2>1
  <2>2. CASE m # 0 /\ m <= n
    <3>1. m - 1 \in 0 .. m - 1 /\ m \in 1 .. n /\ m - 1 <= n
      BY <2>2
    <3> QED BY <1>1, <3>1
  <2>3. CASE ~(m <= n)
    BY <2>3
  <2> QED BY <2>1, <2>2, <2>3
<1> HIDE DEF T
<1>2. Nat \subseteq T
  BY <1>1, Induction
<1> QED BY <1>2 DEF T

LEMMA MaxIs ==
  ASSUME NEW S \in SUBSET Nat, NEW m \in S, \A y \in S : y <= m
  PROVE  Max(S) = m
<1>1. \E x \in S : \A y \in S : x >= y
  BY ONLY m \in S, S \in SUBSET Nat, \A y \in S : y <= m
<1>2. Max(S) \in S /\ \A y \in S : Max(S) >= y
  BY <1>1 DEF Max
<1>3. Max(S) \in Nat /\ m \in Nat /\ m >= Max(S) /\ m <= Max(S)
  BY <1>2
<1> QED BY <1>3

LEMMA MinIs ==
  ASSUME NEW S \in SUBSET Nat, NEW m \in S, \A y \in S : m <= y
  PROVE  Min(S) = m
<1>1. \E x \in S : \A y \in S : x =< y
  BY ONLY m \in S, S \in SUBSET Nat, \A y \in S : m <= y
<1>2. Min(S) \in S /\ \A y \in S : Min(S) =< y
  BY <1>1 DEF Min
<1>3. Min(S) \in Nat /\ m \in Nat /\ m >= Min(S) /\ m <= Min(S)
  BY <1>2
<1> QED BY <1>3

\* F[k] is what turn k of a loop makes of the state before it.
FoldsTo(g, n, b, F) ==
  /\ g[{}] = b
  /\ \A s \in SUBSET (1 .. n) : s # {} => g[s] = F[Max(s)][g[s \ {Max(s)}]]

LEMMA FoldExists ==
  ASSUME NEW n \in Nat, NEW S, NEW b \in S, NEW F \in [1 .. n -> [S -> S]]
  PROVE  \E g \in [SUBSET (1 .. n) -> S] : FoldsTo(g, n, b, F)
<1> DEFINE Exists(m) == \E g \in [SUBSET (1 .. m) -> S] : FoldsTo(g, m, b, F)
           T == {m \in Nat : Exists(m)}
<1>1. Exists(0)
  <2>1. SUBSET (1 .. 0) = {{}}
    OBVIOUS
  <2>2. [s \in {{}} |-> b] \in [{{}} -> S] /\ FoldsTo([s \in {{}} |-> b], 0, b, F)
    BY <2>1 DEF FoldsTo
  <2> QED BY <2>1, <2>2
<1>2. ASSUME NEW m \in 1 .. n, Exists(m - 1) PROVE Exists(m)
  <2>1. PICK g \in [SUBSET (1 .. m - 1) -> S] : FoldsTo(g, m - 1, b, F)
    BY <1>2
  <2> DEFINE h == [s \in SUBSET (1 .. m) |-> IF m \in s THEN F[m][g[s \ {m}]] ELSE g[s]]
  <2>2. \A s \in SUBSET (1 .. m) : /\ m \in s => s \ {m} \in SUBSET (1 .. m - 1)
                                   /\ m \notin s => s \in SUBSET (1 .. m - 1)
    OBVIOUS
  <2>3. h \in [SUBSET (1 .. m) -> S]
    <3>1. \A s \in SUBSET (1 .. m) : (IF m \in s THEN F[m][g[s \ {m}]] ELSE g[s]) \in S
      BY <2>1, <2>2
    <3> QED BY <3>1
  <2>4. \A s \in SUBSET (1 .. m) : h[s] = IF m \in s THEN F[m][g[s \ {m}]] ELSE g[s]
    OBVIOUS
  <2> HIDE DEF h
  <2>5. h[{}] = b
    BY <2>1, <2>4 DEF FoldsTo
  <2>6. ASSUME NEW s \in SUBSET (1 .. m), s # {}
        PROVE  h[s] = F[Max(s)][h[s \ {Max(s)}]]
    <3>1. CASE m \in s
      <4>1. Max(s) = m
        <5>1. s \in SUBSET Nat /\ \A y \in s : y <= m
          BY <2>6
        <5> QED BY <3>1, <5>1, MaxIs
      <4>2. h[s \ {m}] = g[s \ {m}]
        <5>1. s \ {m} \in SUBSET (1 .. m) /\ m \notin s \ {m}
          OBVIOUS
        <5> QED BY <2>4, <5>1
      <4> QED BY <2>4, <3>1, <4>1, <4>2
    <3>2. CASE m \notin s
      <4>1. s \in SUBSET (1 .. m - 1) /\ h[s] = g[s]
        BY <2>2, <2>4, <3>2
      <4>2. h[s \ {Max(s)}] = g[s \ {Max(s)}]
        <5>1. s \ {Max(s)} \in SUBSET (1 .. m) /\ m \notin s \ {Max(s)}
          BY <3>2
        <5> QED BY <2>4, <5>1
      <4> QED BY <2>1, <2>6, <4>1, <4>2 DEF FoldsTo
    <3> QED BY <3>1, <3>2
  <2> QED BY <2>3, <2>5, <2>6 DEF FoldsTo
<1>3. 0 .. n \subseteq T
  <2>1. 0 \in T /\ \A k \in 1 .. n : k - 1 \in T => k \in T
    <3> HIDE DEF Exists
    <3> QED BY <1>1, <1>2
  <2> HIDE DEF T
  <2> QED BY <2>1, UpTo
<1>4. Exists(n)
  <2> HIDE DEF Exists
  <2> QED BY <1>3
<1> QED BY <1>4

\* The states of a loop before its first turn and after each.
Turns(acc, n, b, F) ==
  /\ acc[0] = b
  /\ \A k \in 1 .. n : acc[k] = F[k][acc[k - 1]]

\* g is a loop, as long as its states are in S.
Loops(g, n, b, F, S) ==
  /\ b \in S /\ F \in [1 .. n -> [S -> S]] /\ g[{}] = b
  /\ \A k \in 1 .. n : g[1 .. k - 1] \in S => g[1 .. k] = F[k][g[1 .. k - 1]]

LEMMA LoopTurns ==
  ASSUME NEW n \in Nat, NEW S, NEW b, NEW F, NEW g, Loops(g, n, b, F, S)
  PROVE  \E acc \in [0 .. n -> S] : Turns(acc, n, b, F) /\ g[1 .. n] = acc[n]
<1> DEFINE acc == [k \in 0 .. n |-> g[1 .. k]]
           T == {k \in 0 .. n : acc[k] \in S}
<1>0. /\ b \in S /\ F \in [1 .. n -> [S -> S]] /\ g[{}] = b
      /\ \A k \in 1 .. n : g[1 .. k - 1] \in S => g[1 .. k] = F[k][g[1 .. k - 1]]
  BY DEF Loops
<1>1. 1 .. 0 = {} /\ acc[0] = b
  BY <1>0
<1>2. \A k \in 1 .. n : k \in 0 .. n /\ k - 1 \in 0 .. n
  OBVIOUS
<1>3. \A k \in 1 .. n : acc[k] = g[1 .. k] /\ acc[k - 1] = g[1 .. k - 1]
  BY <1>2
<1>8. \A k \in 0 .. n : acc[k] = g[1 .. k]
  OBVIOUS
<1>4. ASSUME NEW k \in 1 .. n, acc[k - 1] \in S PROVE acc[k] \in S /\ acc[k] = F[k][acc[k - 1]]
  BY <1>0, <1>3, <1>4
<1>5. 0 .. n \subseteq T
  <2>1. 0 \in T /\ \A k \in 1 .. n : k - 1 \in T => k \in T
    BY <1>0, <1>1, <1>2, <1>4
  <2> HIDE DEF T
  <2> QED BY <2>1, UpTo
<1>6. acc \in [0 .. n -> S]
  BY <1>5
<1>7. Turns(acc, n, b, F)
  BY <1>1, <1>2, <1>4, <1>5 DEF Turns
<1> HIDE DEF acc
<1> QED BY <1>6, <1>7, <1>8

LEMMA MaxUpTo ==
  ASSUME NEW k \in Nat, k # 0
  PROVE  Max(1 .. k) = k /\ (1 .. k) \ {k} = 1 .. k - 1 /\ 1 .. k # {}
<1>1. 1 .. k \in SUBSET Nat /\ k \in 1 .. k /\ \A y \in 1 .. k : y <= k
  OBVIOUS
<1> QED BY <1>1, MaxIs

LEMMA TurnsExist ==
  ASSUME NEW n \in Nat, NEW S, NEW b \in S, NEW F \in [1 .. n -> [S -> S]]
  PROVE  \E acc \in [0 .. n -> S] : Turns(acc, n, b, F)
<1>1. PICK g \in [SUBSET (1 .. n) -> S] : FoldsTo(g, n, b, F)
  BY FoldExists
<1>2. \A k \in 1 .. n : g[1 .. k] = F[k][g[1 .. k - 1]]
  <2> TAKE k \in 1 .. n
  <2>1. 1 .. k \in SUBSET (1 .. n) /\ k \in Nat /\ k # 0
    OBVIOUS
  <2> QED BY <1>1, <2>1, MaxUpTo DEF FoldsTo
<1>3. g[{}] = b
  BY <1>1 DEF FoldsTo
<1>4. Loops(g, n, b, F, S)
  BY <1>2, <1>3 DEF Loops
<1> QED BY <1>4, LoopTurns

\* FlattenSeq() appends the sequences one after the other.
Joins(acc, seqs, S) ==
  /\ acc \in [0 .. Len(seqs) -> Seq(S)] /\ acc[0] = <<>>
  /\ \A k \in 1 .. Len(seqs) : acc[k] = acc[k - 1] \o seqs[k]

LEMMA FlattenJoins ==
  ASSUME NEW S, NEW seqs \in Seq(Seq(S))
  PROVE  \E acc : Joins(acc, seqs, S) /\ FlattenSeq(seqs) = acc[Len(seqs)]
<1> DEFINE n == Len(seqs)
           F == [k \in 1 .. n |-> [s \in Seq(S) |-> s \o seqs[k]]]
<1>1. n \in Nat /\ \A k \in 1 .. n : seqs[k] \in Seq(S)
  OBVIOUS
<1>2. F \in [1 .. n -> [Seq(S) -> Seq(S)]]
  BY <1>1
<1>3. <<>> \in Seq(S)
  OBVIOUS
<1>4. PICK acc \in [0 .. n -> Seq(S)] : Turns(acc, n, <<>>, F)
  <2> HIDE DEF n, F
  <2> QED BY <1>1, <1>2, <1>3, TurnsExist
<1>5. ASSUME NEW k \in 1 .. n PROVE acc[k] = acc[k - 1] \o seqs[k] /\ acc[k - 1] \in Seq(S)
  <2>1. acc[k - 1] \in Seq(S) /\ acc[k] = F[k][acc[k - 1]]
    <3> HIDE DEF n, F
    <3>1. k - 1 \in 0 .. n
      BY <1>1
    <3> QED BY <1>4, <3>1 DEF Turns
  <2> QED BY <2>1
<1>9. 1 \in 1 .. n => acc[1] = seqs[1]
  <2> HAVE 1 \in 1 .. n
  <2> HIDE DEF n, F
  <2>2. acc[1] = acc[1 - 1] \o seqs[1]
    BY <1>5
  <2>1. acc[0] = <<>>
    BY <1>4 DEF Turns
  <2>3. seqs[1] \in Seq(S) /\ 1 - 1 = 0
    BY <1>1
  <2>4. acc[1] = <<>> \o seqs[1]
    BY <2>1, <2>2, <2>3, Zenon
  <2> QED BY <2>3, <2>4
<1>6. Joins(acc, seqs, S)
  BY <1>4, <1>5 DEF Joins, Turns
<1>7. CASE n = 0
  BY <1>4, <1>6, <1>7 DEF FlattenSeq, Joins
<1>8. CASE n # 0
  <2> DEFINE Is(f) == f = [i \in 1 .. Len(seqs) |-> IF i = 1 THEN seqs[i] ELSE f[i - 1] \o seqs[i]]
             f == CHOOSE f : Is(f)
  <2>1. FlattenSeq(seqs) = f[n]
    BY <1>8 DEF FlattenSeq
  <2>2. Is([i \in 1 .. n |-> acc[i]])
    <3>1. \A i \in 1 .. n : acc[i] = IF i = 1 THEN seqs[i] ELSE [j \in 1 .. n |-> acc[j]][i - 1] \o seqs[i]
      <4> TAKE i \in 1 .. n
      <4>1. CASE i = 1
        BY <1>9, <4>1
      <4>2. CASE i # 1
        <5>1. i - 1 \in 1 .. n
          BY <1>1, <4>2
        <5> QED BY <1>5, <4>2, <5>1
      <4> QED BY <4>1, <4>2
    <3> QED BY <3>1
  <2>3. Is(f)
    <3> HIDE DEF Is
    <3> QED BY <2>2
  <2> HIDE DEF f
  <2>4. \A i \in 1 .. n : f[i] = IF i = 1 THEN seqs[i] ELSE f[i - 1] \o seqs[i]
    BY <2>3
  <2> DEFINE T == {0} \cup {k \in 1 .. n : f[k] = acc[k]}
  <2>5. 0 .. n \subseteq T
    <3>1. ASSUME NEW k \in 1 .. n, k - 1 \in T PROVE k \in T
      <4>1. CASE k = 1
        BY <1>9, <2>4, <3>1, <4>1
      <4>2. CASE k # 1
        <5>1. f[k - 1] = acc[k - 1]
          BY <3>1, <4>2
        <5> QED BY <1>5, <2>4, <4>2, <5>1
      <4> QED BY <4>1, <4>2
    <3>2. 0 \in T
      OBVIOUS
    <3> HIDE DEF T
    <3> QED BY <1>1, <3>1, <3>2, UpTo
  <2>6. f[n] = acc[n]
    BY <1>1, <1>8, <2>5
  <2> QED BY <1>6, <2>1, <2>6
<1> QED BY <1>7, <1>8

LEMMA LeastOf ==
  ASSUME NEW S \in SUBSET Nat, S # {}
  PROVE  \E x \in S : \A y \in S : x <= y
<1> SUFFICES ASSUME \A x \in S : \E y \in S : ~(x <= y) PROVE FALSE
  OBVIOUS
<1> DEFINE T == Nat \ S
<1>1. ASSUME NEW n \in Nat, \A k \in 0 .. n - 1 : k \in T PROVE n \in T
  <2>1. \A y \in S : n <= y
    BY <1>1
  <2> QED BY <2>1
<1> HIDE DEF T
<1>2. Nat \subseteq T
  BY <1>1, Induction
<1> QED BY <1>2 DEF T

LEMMA MaxIn ==
  ASSUME NEW n \in Nat, NEW s \in SUBSET (1 .. n), s # {}
  PROVE  Max(s) \in s
<1> DEFINE T == {n - x : x \in s}
<1>1. T \in SUBSET Nat /\ T # {}
  <2>1. \A x \in s : n - x \in Nat
    OBVIOUS
  <2>2. PICK x \in s : TRUE
    OBVIOUS
  <2>3. n - x \in T
    OBVIOUS
  <2> QED BY <2>1, <2>3
<1>2. \E x \in T : \A y \in T : x <= y
  <2> HIDE DEF T
  <2> QED BY <1>1, LeastOf
<1>3. PICK m \in s : \A y \in s : n - m <= n - y
  BY <1>2
<1>4. \A y \in s : y <= m
  BY <1>3
<1>5. Max(s) = m
  <2>1. s \in SUBSET Nat
    OBVIOUS
  <2> QED BY <1>4, <2>1, MaxIs
<1> QED BY <1>5

\* FoldLeft's function on the sets of places, for a loop that stays in S.
FoldOf(g, n, b, F, S) ==
  /\ g \in [SUBSET (1 .. n) -> S] /\ g[{}] = b
  /\ \A s \in SUBSET (1 .. n) : s # {} =>
        /\ Max(s) \in 1 .. n /\ s \ {Max(s)} \in SUBSET (1 .. n)
        /\ g[s] = F[Max(s)][g[s \ {Max(s)}]]

LEMMA FoldLoops ==
  ASSUME NEW n \in Nat, NEW S, NEW b, NEW F, b \in S, F \in [1 .. n -> [S -> S]]
  PROVE  \E g : FoldOf(g, n, b, F, S)
<1>1. PICK g \in [SUBSET (1 .. n) -> S] : FoldsTo(g, n, b, F)
  BY FoldExists
<1>2. \A s \in SUBSET (1 .. n) : s # {} => Max(s) \in 1 .. n /\ s \ {Max(s)} \in SUBSET (1 .. n)
  BY MaxIn
<1>3. FoldOf(g, n, b, F, S)
  BY <1>1, <1>2 DEF FoldsTo, FoldOf
<1> QED BY <1>3

\* What FoldLeft's function is for the ordered sets of the first places.
LEMMA LoopOf ==
  ASSUME NEW n \in Nat, NEW S, NEW b, NEW F, NEW g, b \in S, F \in [1 .. n -> [S -> S]],
         g[{}] = b,
         \A s \in SUBSET (1 .. n) : s # {} /\ g[s \ {Max(s)}] \in S =>
            g[s] = F[Max(s)][g[s \ {Max(s)}]]
  PROVE  Loops(g, n, b, F, S)
<1>1. ASSUME NEW k \in 1 .. n, g[1 .. k - 1] \in S PROVE g[1 .. k] = F[k][g[1 .. k - 1]]
  <2>1. 1 .. k \in SUBSET (1 .. n) /\ k \in Nat /\ k # 0
    OBVIOUS
  <2> QED BY <1>1, <2>1, MaxUpTo
<1> QED BY <1>1 DEF Loops

-----------------------------------------------------------------------------
(* Sorting. *)

LEMMA InsertRow ==
  ASSUME NEW rows \in Seq(Row), NEW row \in Row
  PROVE  /\ Insert(rows, row) \in Seq(Row)
         /\ (\A i \in 1 .. Len(rows) : rows[i].ts <= row.ts) => Insert(rows, row) = Append(rows, row)
<1> DEFINE D == {i \in DOMAIN rows : rows[i].ts <= row.ts}
           c == Cardinality(D)
           n == Len(rows)
<1>1. n \in Nat /\ D \subseteq 1 .. n /\ DOMAIN rows = 1 .. n
  OBVIOUS
<1>8. IsFiniteSet(1 .. n) /\ Cardinality(1 .. n) = n
  BY <1>1, FS_Interval
<1>2. c \in Nat /\ c <= n
  <2>1. IsFiniteSet(1 .. n) /\ Cardinality(1 .. n) = n
    BY <1>8
  <2>2. c <= Cardinality(1 .. n)
    BY <1>1, <2>1, FS_Subset
  <2>3. IsFiniteSet(D)
    BY <1>1, <2>1, FS_Subset
  <2> QED BY <2>1, <2>2, <2>3, FS_CardinalityType
<1>3. Insert(rows, row) = SubSeq(rows, 1, (1 + c) - 1) \o <<row>> \o SubSeq(rows, 1 + c, n)
  BY DEF Insert, InsertAt
<1>4. (\A i \in 1 .. n : rows[i].ts <= row.ts) => c = n
  <2> HAVE \A i \in 1 .. n : rows[i].ts <= row.ts
  <2>1. D = 1 .. n
    BY <1>1
  <2> QED BY <1>8, <2>1
<1> HIDE DEF c, D
<1>5. SubSeq(rows, 1, c) \in Seq(Row) /\ SubSeq(rows, 1 + c, n) \in Seq(Row) /\ (1 + c) - 1 = c
  BY <1>1, <1>2
<1>6. Insert(rows, row) \in Seq(Row)
  BY <1>3, <1>5
<1>7. c = n => Insert(rows, row) = Append(rows, row)
  <2> HAVE c = n
  <2>1. SubSeq(rows, 1, c) = rows /\ SubSeq(rows, 1 + c, n) = <<>>
    BY <1>1
  <2>2. Insert(rows, row) = (rows \o <<row>>) \o <<>>
    BY <1>3, <1>5, <2>1
  <2>3. rows \o <<row>> \in Seq(Row) /\ rows \o <<row>> = Append(rows, row)
    OBVIOUS
  <2> QED BY <2>2, <2>3
<1> QED BY <1>4, <1>6, <1>7

\* The loop that sorts the rows.
Sorts(acc, rows) ==
  /\ acc \in [0 .. Len(rows) -> Seq(Row)] /\ acc[0] = <<>>
  /\ \A k \in 1 .. Len(rows) : acc[k] = Insert(acc[k - 1], rows[k])

LEMMA RowsByTimeSorts ==
  ASSUME NEW t, Rows(t) \in Seq(Row)
  PROVE  \E acc : Sorts(acc, Rows(t)) /\ RowsByTime(t) = acc[Len(Rows(t))]
<1> DEFINE rows == Rows(t)
           n == Len(rows)
           S == Seq(Row)
           F == [k \in 1 .. n |-> [s \in S |-> Insert(s, rows[k])]]
           Is(f) == f = [s \in SUBSET DOMAIN rows |->
                           IF s = {} THEN <<>>
                           ELSE LET x == Max(s) IN Insert(f[s \ {x}], rows[x])]
           it == CHOOSE f : Is(f)
<1>1. n \in Nat /\ DOMAIN rows = 1 .. n /\ \A k \in 1 .. n : rows[k] \in Row
  OBVIOUS
<1>2. RowsByTime(t) = it[1 .. n]
  BY <1>1 DEF RowsByTime, FoldLeft, MapThenFoldSet
<1> HIDE DEF rows, n
<1>3. <<>> \in S /\ F \in [1 .. n -> [S -> S]]
  BY <1>1, InsertRow
<1>4. \A k \in 1 .. n, s \in S : F[k][s] = Insert(s, rows[k])
  OBVIOUS
<1>5. \E f : Is(f)
  <2> HIDE DEF F, S
  <2>0. PICK g : FoldOf(g, n, <<>>, F, S)
    BY <1>1, <1>3, FoldLoops, Zenon
  <2>1. /\ g \in [SUBSET (1 .. n) -> S] /\ g[{}] = <<>>
        /\ \A s \in SUBSET (1 .. n) : s # {} =>
              /\ Max(s) \in 1 .. n /\ s \ {Max(s)} \in SUBSET (1 .. n)
              /\ g[s] = F[Max(s)][g[s \ {Max(s)}]]
    BY <2>0 DEF FoldOf
  <2>2. \A s \in SUBSET (1 .. n) :
           g[s] = IF s = {} THEN <<>> ELSE LET x == Max(s) IN Insert(g[s \ {x}], rows[x])
    BY <1>4, <2>1
  <2>3. Is(g)
    BY <1>1, <2>1, <2>2
  <2> QED BY <2>3
<1>6. Is(it)
  <2> HIDE DEF Is
  <2> QED BY <1>5
<1> HIDE DEF it
<1>7. Loops(it, n, <<>>, F, S)
  <2>1. it[{}] = <<>>
    BY <1>6
  <2>2. \A s \in SUBSET (1 .. n) : s # {} /\ it[s \ {Max(s)}] \in S =>
            it[s] = F[Max(s)][it[s \ {Max(s)}]]
    <3> HIDE DEF F, S
    <3> TAKE s \in SUBSET (1 .. n)
    <3> HAVE s # {} /\ it[s \ {Max(s)}] \in S
    <3>1. it[s] = Insert(it[s \ {Max(s)}], rows[Max(s)])
      BY <1>1, <1>6
    <3>2. Max(s) \in 1 .. n
      BY <1>1, MaxIn
    <3> QED BY <1>4, <3>1, <3>2
  <2> HIDE DEF F, S
  <2> QED BY <1>1, <1>3, <2>1, <2>2, LoopOf
<1>8. PICK acc \in [0 .. n -> S] : Turns(acc, n, <<>>, F) /\ it[1 .. n] = acc[n]
  <2> HIDE DEF F, S
  <2> QED BY <1>1, <1>7, LoopTurns
<1>9. \A k \in 1 .. n : acc[k] = Insert(acc[k - 1], rows[k])
  <2> HIDE DEF F
  <2> TAKE k \in 1 .. n
  <2>1. acc[k - 1] \in S
    BY <1>1, <1>8
  <2>2. acc[k] = F[k][acc[k - 1]]
    BY <1>8 DEF Turns
  <2> QED BY <1>4, <2>1, <2>2
<1>10. acc[0] = <<>>
  BY <1>8 DEF Turns
<1>11. Sorts(acc, rows)
  BY <1>8, <1>9, <1>10 DEF Sorts, n
<1> QED BY <1>2, <1>8, <1>11 DEF n, rows

-----------------------------------------------------------------------------
(* The loop of get_files() on the rows. *)

LEMMA SequenceOf ==
  ASSUME NEW n \in Nat, NEW S, NEW f \in [1 .. n -> S]
  PROVE  f \in Seq(S) /\ Len(f) = n /\ DOMAIN f = 1 .. n
<1>1. f \in Seq(S)
  BY SeqDef
<1> QED BY <1>1

LEMMA RowsTyped ==
  ASSUME NEW t \in Seq(Run)
  PROVE  /\ Rows(t) \in Seq(Row)
         /\ \E acc : Joins(acc, [r \in DOMAIN t |-> t[r].rows], Row) /\ Rows(t) = acc[Len(t)]
         /\ [r \in DOMAIN t |-> t[r].rows] \in Seq(Seq(Row)) /\ Len([r \in DOMAIN t |-> t[r].rows]) = Len(t)
<1> DEFINE seqs == [r \in DOMAIN t |-> t[r].rows]
           n == Len(t)
<1>1. n \in Nat /\ DOMAIN t = 1 .. n /\ \A r \in 1 .. n : t[r] \in Run
  OBVIOUS
<1>2. \A r \in 1 .. n : t[r].rows \in Seq(Row)
  BY <1>1 DEF Run
<1>3. seqs \in [1 .. n -> Seq(Row)]
  BY <1>1, <1>2
<1> HIDE DEF n, seqs
<1>4. seqs \in Seq(Seq(Row)) /\ Len(seqs) = n
  BY <1>1, <1>3, SequenceOf
<1>5. PICK acc : Joins(acc, seqs, Row) /\ FlattenSeq(seqs) = acc[Len(seqs)]
  BY <1>4, FlattenJoins
<1>6. FlattenSeq(seqs) \in Seq(Row)
  BY <1>1, <1>4, <1>5 DEF Joins
<1> QED BY <1>4, <1>5, <1>6 DEF Rows, seqs, n

LEMMA RowsByTimeTyped == ASSUME NEW t \in Seq(Run) PROVE RowsByTime(t) \in Seq(Row)
<1>1. Rows(t) \in Seq(Row)
  BY RowsTyped
<1>2. PICK acc : Sorts(acc, Rows(t)) /\ RowsByTime(t) = acc[Len(Rows(t))]
  BY <1>1, RowsByTimeSorts
<1> QED BY <1>1, <1>2 DEF Sorts

LEMMA PassedIs ==
  ASSUME NEW starts \in Seq(Nat), NEW ts \in Nat
  PROVE  /\ Passed(starts, ts) \in 0 .. Len(starts)
         /\ \A i \in 1 .. Passed(starts, ts) : ts > starts[i]
         /\ Passed(starts, ts) = Len(starts) \/ ts <= starts[Passed(starts, ts) + 1]
<1> DEFINE n == Len(starts)
           T == {k \in 0 .. n : k = n \/ ts <= starts[k + 1]}
           Is(k) == /\ \A i \in 1 .. k : ts > starts[i]
                    /\ k = Len(starts) \/ ts <= starts[k + 1]
<1>1. n \in Nat /\ \A i \in 1 .. n : starts[i] \in Nat
  OBVIOUS
<1>2. T \in SUBSET Nat /\ n \in T
  BY <1>1
<1>3. PICK k \in T : \A y \in T : k <= y
  <2> HIDE DEF T
  <2> QED BY <1>2, LeastOf
<1>4. \A i \in 1 .. k : ts > starts[i]
  <2> TAKE i \in 1 .. k
  <2>1. i - 1 \in 0 .. n /\ ~(k <= i - 1) /\ i \in 1 .. n
    BY <1>1, <1>3
  <2>2. i - 1 \notin T
    BY <1>3, <2>1
  <2>3. ~(ts <= starts[(i - 1) + 1]) /\ (i - 1) + 1 = i
    BY <2>1, <2>2
  <2> QED BY <1>1, <2>1, <2>3
<1>5. k \in 0 .. n /\ Is(k)
  BY <1>3, <1>4
<1>6. Passed(starts, ts) = CHOOSE j \in 0 .. n : Is(j)
  BY DEF Passed
<1>7. Passed(starts, ts) \in 0 .. n /\ Is(Passed(starts, ts))
  <2> HIDE DEF Is, n
  <2> QED BY <1>5, <1>6
<1> QED BY <1>7

Usage == {"none", "read", "written", "read then written"}

\* The state of the loop, on a trace of L runs.
Accountings(L) ==
  [starts: Seq(Nat), run: Nat, seen: SUBSET Files, executed: SUBSET Files,
   what: [Files -> Usage], runs: [1 .. L + 1 -> [Files -> Usage]],
   access_files: [1 .. L + 1 -> SUBSET Files]]

LEMMA UsedTyped == ASSUME NEW use \in Usage, NEW mode PROVE Used(use, mode) \in Usage
BY DEF Usage, Used, Read, Written

LEMMA UnusedTyped == ASSUME NEW t \in Seq(Run) PROVE Unused(t) \in Accountings(Len(t))
<1> DEFINE n == Len(t)
           none == [f \in Files |-> "none"]
           starts == [i \in 1 .. n - 1 |-> t[i + 1].ts]
<1>1. n \in Nat /\ none \in [Files -> Usage]
  BY DEF Usage
<1>2. starts \in Seq(Nat)
  <2>1. \A i \in 1 .. n - 1 : t[i + 1].ts \in Nat
    <3> TAKE i \in 1 .. n - 1
    <3>1. t[i + 1] \in Run
      BY <1>1
    <3> QED BY <3>1 DEF Run
  <2>2. CASE n = 0
    <3>1. 1 .. n - 1 = 1 .. 0
      BY <2>2
    <3>2. starts \in [1 .. 0 -> Nat]
      BY <2>1, <3>1
    <3> HIDE DEF starts
    <3> QED BY <3>2, SequenceOf
  <2>3. CASE n # 0
    <3>1. n - 1 \in Nat /\ starts \in [1 .. n - 1 -> Nat]
      BY <1>1, <2>1, <2>3
    <3> HIDE DEF starts, n
    <3> QED BY <3>1, SequenceOf
  <2> QED BY <2>2, <2>3
<1>3. [r \in 1 .. n + 1 |-> none] \in [1 .. n + 1 -> [Files -> Usage]]
  BY <1>1
<1>4. [r \in 1 .. n + 1 |-> {}] \in [1 .. n + 1 -> SUBSET Files]
  OBVIOUS
<1>5. Unused(t) = [starts |-> starts, run |-> 1, seen |-> {}, executed |-> {}, what |-> none,
                   runs |-> [r \in 1 .. n + 1 |-> none],
                   access_files |-> [r \in 1 .. n + 1 |-> {}]]
  BY DEF Unused
<1> HIDE DEF n, none, starts
<1>6. Unused(t) \in Accountings(n)
  BY <1>1, <1>2, <1>3, <1>4, <1>5 DEF Accountings
<1> QED BY <1>6 DEF n

LEMMA AccountTyped ==
  ASSUME NEW L \in Nat, NEW s \in Accountings(L), NEW row \in Row, NEW d \in SUBSET Files
  PROVE  Account(s, row, d) \in Accountings(L)
<1> DEFINE k == Passed(s.starts, row.ts)
           r == s.run + k
           executed == IF row.mode = "exec" THEN s.executed \cup {row.file} ELSE s.executed
           what == [s.what EXCEPT ![row.file] = Used(s.what[row.file], row.mode)]
           runs == [s.runs EXCEPT ![r] = [s.runs[r] EXCEPT ![row.file] = Used(s.runs[r][row.file], row.mode)]]
           access == [s.access_files EXCEPT ![r] = s.access_files[r] \cup ({row.file} \cap (d \ executed))]
           starts == SubSeq(s.starts, k + 1, Len(s.starts))
<1>1. /\ s.starts \in Seq(Nat) /\ s.run \in Nat /\ s.seen \in SUBSET Files
      /\ s.executed \in SUBSET Files /\ s.what \in [Files -> Usage]
      /\ s.runs \in [1 .. L + 1 -> [Files -> Usage]] /\ s.access_files \in [1 .. L + 1 -> SUBSET Files]
      /\ row.file \in Files /\ row.ts \in Nat
  BY DEF Accountings, Row
<1>2. k \in 0 .. Len(s.starts)
  BY <1>1, PassedIs
<1>3. Account(s, row, d) =
        [starts |-> starts, run |-> r, seen |-> s.seen \cup {row.file}, executed |-> executed,
         what |-> what, runs |-> runs, access_files |-> access]
  BY DEF Account
<1> HIDE DEF k
<1>4. starts \in Seq(Nat) /\ r \in Nat
  BY <1>1, <1>2
<1>5. what \in [Files -> Usage]
  BY <1>1, UsedTyped
<1> HIDE DEF r
<1>6. runs \in [1 .. L + 1 -> [Files -> Usage]]
  <2>1. CASE r \in 1 .. L + 1
    <3>1. s.runs[r] \in [Files -> Usage] /\ s.runs[r][row.file] \in Usage
      BY <1>1, <2>1
    <3>2. Used(s.runs[r][row.file], row.mode) \in Usage
      BY <3>1, UsedTyped
    <3>3. [s.runs[r] EXCEPT ![row.file] = Used(s.runs[r][row.file], row.mode)] \in [Files -> Usage]
      BY <3>1, <3>2
    <3> QED BY <1>1, <3>3
  <2>2. CASE r \notin 1 .. L + 1
    BY <1>1, <2>2
  <2> QED BY <2>1, <2>2
<1>7. access \in [1 .. L + 1 -> SUBSET Files]
  <2>1. CASE r \in 1 .. L + 1
    <3>1. s.access_files[r] \cup ({row.file} \cap (d \ executed)) \in SUBSET Files
      BY <1>1, <2>1
    <3> QED BY <1>1, <3>1
  <2>2. CASE r \notin 1 .. L + 1
    BY <1>1, <2>2
  <2> QED BY <2>1, <2>2
<1>8. executed \in SUBSET Files /\ s.seen \cup {row.file} \in SUBSET Files
  BY <1>1
<1> HIDE DEF starts, what, runs, access, executed
<1> QED BY <1>3, <1>4, <1>5, <1>6, <1>7, <1>8 DEF Accountings

Accounted(t, d) == FoldLeft(LAMBDA a, row : Account(a, row, d), Unused(t), RowsByTime(t))

\* The states of the loop, before the first row and after each.
Accounts(acc, t, d) ==
  /\ acc \in [0 .. Len(RowsByTime(t)) -> Accountings(Len(t))] /\ acc[0] = Unused(t)
  /\ \A k \in 1 .. Len(RowsByTime(t)) : acc[k] = Account(acc[k - 1], RowsByTime(t)[k], d)

LEMMA AccountedTurns ==
  ASSUME NEW t \in Seq(Run), NEW d \in SUBSET Files
  PROVE  \E acc : Accounts(acc, t, d) /\ Accounted(t, d) = acc[Len(RowsByTime(t))]
<1> DEFINE rows == RowsByTime(t)
           n == Len(rows)
           S == Accountings(Len(t))
           b == Unused(t)
           F == [k \in 1 .. n |-> [s \in S |-> Account(s, rows[k], d)]]
           Is(f) == f = [s \in SUBSET DOMAIN rows |->
                           IF s = {} THEN b
                           ELSE LET x == Max(s) IN Account(f[s \ {x}], rows[x], d)]
           it == CHOOSE f : Is(f)
<1>1. n \in Nat /\ DOMAIN rows = 1 .. n /\ \A k \in 1 .. n : rows[k] \in Row
  BY RowsByTimeTyped
<1>2. Accounted(t, d) = it[1 .. n]
  BY <1>1 DEF Accounted, FoldLeft, MapThenFoldSet
<1> HIDE DEF rows, n, b
<1>3. b \in S /\ F \in [1 .. n -> [S -> S]]
  <2>1. b \in S /\ Len(t) \in Nat
    BY UnusedTyped DEF b
  <2> QED BY <1>1, <2>1, AccountTyped
<1>4. \A k \in 1 .. n, s \in S : F[k][s] = Account(s, rows[k], d)
  OBVIOUS
<1>5. \E f : Is(f)
  <2> HIDE DEF F, S
  <2>0. PICK g : FoldOf(g, n, b, F, S)
    BY <1>1, <1>3, FoldLoops, Zenon
  <2>1. /\ g \in [SUBSET (1 .. n) -> S] /\ g[{}] = b
        /\ \A s \in SUBSET (1 .. n) : s # {} =>
              /\ Max(s) \in 1 .. n /\ s \ {Max(s)} \in SUBSET (1 .. n)
              /\ g[s] = F[Max(s)][g[s \ {Max(s)}]]
    BY <2>0 DEF FoldOf
  <2>2. \A s \in SUBSET (1 .. n) :
           g[s] = IF s = {} THEN b ELSE LET x == Max(s) IN Account(g[s \ {x}], rows[x], d)
    BY <1>4, <2>1
  <2>3. Is(g)
    BY <1>1, <2>1, <2>2
  <2> QED BY <2>3
<1>6. Is(it)
  <2> HIDE DEF Is
  <2> QED BY <1>5
<1> HIDE DEF it
<1>7. Loops(it, n, b, F, S)
  <2>1. it[{}] = b
    BY <1>6
  <2>2. \A s \in SUBSET (1 .. n) : s # {} /\ it[s \ {Max(s)}] \in S =>
            it[s] = F[Max(s)][it[s \ {Max(s)}]]
    <3> HIDE DEF F, S
    <3> TAKE s \in SUBSET (1 .. n)
    <3> HAVE s # {} /\ it[s \ {Max(s)}] \in S
    <3>1. it[s] = Account(it[s \ {Max(s)}], rows[Max(s)], d)
      BY <1>1, <1>6
    <3>2. Max(s) \in 1 .. n
      BY <1>1, MaxIn
    <3> QED BY <1>4, <3>1, <3>2
  <2> HIDE DEF F, S
  <2> QED BY <1>1, <1>3, <2>1, <2>2, LoopOf
<1>8. PICK acc \in [0 .. n -> S] : Turns(acc, n, b, F) /\ it[1 .. n] = acc[n]
  <2> HIDE DEF F, S
  <2> QED BY <1>1, <1>7, LoopTurns
<1>9. \A k \in 1 .. n : acc[k] = Account(acc[k - 1], rows[k], d)
  <2> HIDE DEF F
  <2> TAKE k \in 1 .. n
  <2>1. acc[k - 1] \in S
    BY <1>1, <1>8
  <2>2. acc[k] = F[k][acc[k - 1]]
    BY <1>8 DEF Turns
  <2> QED BY <1>4, <2>1, <2>2
<1>10. acc[0] = b
  BY <1>8 DEF Turns
<1>11. Accounts(acc, t, d)
  BY <1>8, <1>9, <1>10 DEF Accounts, n, b, rows
<1> QED BY <1>2, <1>8, <1>11 DEF n, rows

LEMMA FilesGot ==
  ASSUME NEW t, NEW d
  PROVE  LET s == Accounted(t, d)
             Of(r, use) == {f \in s.access_files[r] \cap d : s.runs[r][f] = use} \ (Magic \cup System)
         IN  get_files(t, d) =
               [files   |-> {f \in s.seen : s.what[f] # "written"} \ Magic,
                inputs  |-> [r \in 1 .. s.run |-> Of(r, "read") \ (s.executed \cup Hidden)],
                outputs |-> [r \in 1 .. s.run |-> Of(r, "written")]]
BY DEF get_files, Accounted, FoldLeft, MapThenFoldSet

-----------------------------------------------------------------------------
(* The runs that the query of write_configuration() finds. *)

Finds(acc) ==
  /\ acc \in [0 .. Len(trace) -> Seq(1 .. Len(trace))] /\ acc[0] = <<>>
  /\ \A k \in 1 .. Len(trace) :
        acc[k] = IF Executed(trace[k]) THEN Append(acc[k - 1], k) ELSE acc[k - 1]

LEMMA ExecutionsFound ==
  ASSUME trace \in Seq(Run)
  PROVE  \E acc : Finds(acc) /\ Executions = acc[Len(trace)]
<1> DEFINE rows == [r \in DOMAIN trace |-> r]
           n == Len(trace)
           S == Seq(1 .. n)
           Find(s, k) == IF Executed(trace[k]) THEN Append(s, k) ELSE s
           F == [k \in 1 .. n |-> [s \in S |-> Find(s, k)]]
           Is(f) == f = [s \in SUBSET DOMAIN rows |->
                           IF s = {} THEN <<>>
                           ELSE LET x == Max(s)
                                IN  IF Executed(trace[rows[x]]) THEN Append(f[s \ {x}], rows[x])
                                                                ELSE f[s \ {x}]]
           it == CHOOSE f : Is(f)
<1>1. n \in Nat /\ DOMAIN rows = 1 .. n /\ \A k \in 1 .. n : rows[k] = k
  OBVIOUS
<1>2. Executions = it[1 .. n]
  BY <1>1 DEF Executions, FoldLeft, MapThenFoldSet
<1> HIDE DEF n, rows
<1>3. <<>> \in S /\ F \in [1 .. n -> [S -> S]]
  <2>1. ASSUME NEW k \in 1 .. n, NEW s \in S PROVE Find(s, k) \in S
    <3> HIDE DEF F
    <3>1. Append(s, k) \in S
      OBVIOUS
    <3> QED BY <3>1
  <2> HIDE DEF Find, S
  <2>2. F \in [1 .. n -> [S -> S]]
    BY <2>1
  <2>3. <<>> \in S
    BY DEF S
  <2> QED BY <2>2, <2>3
<1>4. \A k \in 1 .. n, s \in S : F[k][s] = Find(s, k)
  <2> HIDE DEF Find, S
  <2> QED OBVIOUS
<1>5. \E f : Is(f)
  <2> HIDE DEF F, S
  <2>0. PICK g : FoldOf(g, n, <<>>, F, S)
    BY <1>1, <1>3, FoldLoops, Zenon
  <2>1. /\ g \in [SUBSET (1 .. n) -> S] /\ g[{}] = <<>>
        /\ \A s \in SUBSET (1 .. n) : s # {} =>
              /\ Max(s) \in 1 .. n /\ s \ {Max(s)} \in SUBSET (1 .. n)
              /\ g[s] = F[Max(s)][g[s \ {Max(s)}]]
    BY <2>0 DEF FoldOf
  <2>2. \A s \in SUBSET (1 .. n) :
           g[s] = IF s = {} THEN <<>>
                  ELSE LET x == Max(s)
                       IN  IF Executed(trace[rows[x]]) THEN Append(g[s \ {x}], rows[x]) ELSE g[s \ {x}]
    <3> TAKE s \in SUBSET (1 .. n)
    <3>1. CASE s = {}
      BY <2>1, <3>1
    <3>2. CASE s # {}
      <4> DEFINE x == Max(s)
      <4>1. x \in 1 .. n /\ rows[x] = x /\ s \ {x} \in SUBSET (1 .. n) /\ g[s] = F[x][g[s \ {x}]]
        BY <1>1, <2>1, <3>2
      <4> HIDE DEF x
      <4>2. g[s \ {x}] \in S
        BY <2>1, <4>1
      <4>3. g[s] = Find(g[s \ {x}], x)
        <5> HIDE DEF Find
        <5> QED BY <1>4, <4>1, <4>2
      <4> QED BY <3>2, <4>1, <4>3 DEF x
    <3> QED BY <3>1, <3>2
  <2>3. Is(g)
    BY <1>1, <2>1, <2>2
  <2> QED BY <2>3
<1>6. Is(it)
  <2> HIDE DEF Is
  <2> QED BY <1>5
<1> HIDE DEF it
<1>7. Loops(it, n, <<>>, F, S)
  <2>1. it[{}] = <<>>
    BY <1>6
  <2>2. \A s \in SUBSET (1 .. n) : s # {} /\ it[s \ {Max(s)}] \in S =>
            it[s] = F[Max(s)][it[s \ {Max(s)}]]
    <3> HIDE DEF F, S
    <3> TAKE s \in SUBSET (1 .. n)
    <3> HAVE s # {} /\ it[s \ {Max(s)}] \in S
    <3>2. Max(s) \in 1 .. n
      BY <1>1, MaxIn
    <3>1. it[s] = Find(it[s \ {Max(s)}], Max(s))
      BY <1>1, <1>6, <3>2
    <3> QED BY <1>4, <3>1, <3>2
  <2> HIDE DEF F, S
  <2> QED BY <1>1, <1>3, <2>1, <2>2, LoopOf
<1>8. PICK acc \in [0 .. n -> S] : Turns(acc, n, <<>>, F) /\ it[1 .. n] = acc[n]
  <2> HIDE DEF F, S
  <2> QED BY <1>1, <1>7, LoopTurns
<1>9. \A k \in 1 .. n : acc[k] = Find(acc[k - 1], k)
  <2> HIDE DEF F, Find
  <2> TAKE k \in 1 .. n
  <2>1. acc[k - 1] \in S
    BY <1>1, <1>8
  <2>2. acc[k] = F[k][acc[k - 1]]
    BY <1>8 DEF Turns
  <2> QED BY <1>4, <2>1, <2>2
<1>10. acc[0] = <<>>
  BY <1>8 DEF Turns
<1>11. Finds(acc)
  BY <1>8, <1>9, <1>10 DEF Finds, n
<1> QED BY <1>2, <1>8, <1>11 DEF n

Numbers(n) == [r \in 1 .. n |-> r]

LEMMA NumbersAppended ==
  ASSUME NEW n \in Nat, n # 0
  PROVE  /\ Numbers(n - 1) \in Seq(Nat) /\ Len(Numbers(n - 1)) = n - 1
         /\ Append(Numbers(n - 1), n) = Numbers(n)
         /\ Numbers(n - 1) \o <<n>> = Numbers(n)
<1>1. n - 1 \in Nat /\ Numbers(n - 1) \in [1 .. n - 1 -> Nat]
  BY DEF Numbers
<1>2. Numbers(n - 1) \in Seq(Nat) /\ Len(Numbers(n - 1)) = n - 1
  BY <1>1, SequenceOf
<1>3. Numbers(n) \in Seq(Nat) /\ Len(Numbers(n)) = n
  <2>1. Numbers(n) \in [1 .. n -> Nat]
    BY DEF Numbers
  <2> QED BY <2>1, SequenceOf
<1>4. \A i \in 1 .. n : Append(Numbers(n - 1), n)[i] = Numbers(n)[i]
  BY <1>1, <1>2 DEF Numbers
<1>5. Append(Numbers(n - 1), n) \in Seq(Nat) /\ Len(Append(Numbers(n - 1), n)) = n
  BY <1>1, <1>2
<1>6. Append(Numbers(n - 1), n) = Numbers(n)
  BY <1>3, <1>4, <1>5
<1> QED BY <1>2, <1>6

LEMMA ExecutionsAre ==
  ASSUME trace \in Seq(Run)
  PROVE  /\ Executions \in Seq(1 .. Len(trace)) /\ Len(Executions) <= Len(trace)
         /\ AllExecuted => Executions = Numbers(Len(trace))
<1>1. PICK acc : Finds(acc) /\ Executions = acc[Len(trace)]
  BY ExecutionsFound
<1> DEFINE n == Len(trace)
           T == {k \in 0 .. n : Len(acc[k]) <= k /\ (AllExecuted => acc[k] = Numbers(k))}
<1>2. n \in Nat /\ DOMAIN trace = 1 .. n
  OBVIOUS
<1>3. \A k \in 0 .. n : acc[k] \in Seq(1 .. n)
  BY <1>1 DEF Finds
<1>4. 0 \in T
  <2>1. Numbers(0) = <<>>
    BY DEF Numbers
  <2> QED BY <1>1, <1>2, <2>1 DEF Finds
<1>5. ASSUME NEW k \in 1 .. n, k - 1 \in T PROVE k \in T
  <2>1. acc[k] = IF Executed(trace[k]) THEN Append(acc[k - 1], k) ELSE acc[k - 1]
    BY <1>1 DEF Finds
  <2>2. Len(acc[k]) <= k
    BY <1>2, <1>3, <1>5, <2>1
  <2>3. AllExecuted => acc[k] = Numbers(k)
    <3> HAVE AllExecuted
    <3>1. Executed(trace[k]) /\ acc[k - 1] = Numbers(k - 1) /\ k \in Nat /\ k # 0
      BY <1>2, <1>5 DEF AllExecuted
    <3>2. acc[k] = Append(Numbers(k - 1), k)
      BY <2>1, <3>1
    <3> QED BY <3>1, <3>2, NumbersAppended
  <2> QED BY <1>2, <2>2, <2>3
<1>6. 0 .. n \subseteq T
  <2> HIDE DEF T
  <2> QED BY <1>2, <1>4, <1>5, UpTo
<1>7. n \in T
  BY <1>2, <1>6
<1> QED BY <1>1, <1>2, <1>3, <1>7

-----------------------------------------------------------------------------
(* The types. *)

LEMMA FoundTyped ==
  ASSUME NEW t \in Seq(Run), NEW d \in SUBSET Files
  PROVE  LET found == get_files(t, d)
         IN  /\ found.files \in SUBSET Files
             /\ DOMAIN found.inputs = 1 .. Accounted(t, d).run
             /\ DOMAIN found.outputs = 1 .. Accounted(t, d).run
             /\ \A r \in DOMAIN found.inputs : found.inputs[r] \in SUBSET d /\ found.outputs[r] \in SUBSET d
             /\ Accounted(t, d) \in Accountings(Len(t))
<1> DEFINE s == Accounted(t, d)
           Of(r, use) == {f \in s.access_files[r] \cap d : s.runs[r][f] = use} \ (Magic \cup System)
           files == {f \in s.seen : s.what[f] # "written"} \ Magic
           inputs == [r \in 1 .. s.run |-> Of(r, "read") \ (s.executed \cup Hidden)]
           outputs == [r \in 1 .. s.run |-> Of(r, "written")]
<1>1. get_files(t, d) = [files |-> files, inputs |-> inputs, outputs |-> outputs]
  BY FilesGot
<1>2. s \in Accountings(Len(t))
  <2>1. PICK acc : Accounts(acc, t, d) /\ Accounted(t, d) = acc[Len(RowsByTime(t))]
    BY AccountedTurns
  <2>2. Len(RowsByTime(t)) \in Nat
    BY RowsByTimeTyped
  <2> QED BY <2>1, <2>2 DEF Accounts
<1>3. s.seen \in SUBSET Files
  BY <1>2 DEF Accountings
<1> HIDE DEF s
<1>4. files \in SUBSET Files
  BY <1>3
<1>5. \A r, use : Of(r, use) \in SUBSET d
  OBVIOUS
<1> HIDE DEF Of
<1>6. \A r \in 1 .. s.run : inputs[r] \in SUBSET d /\ outputs[r] \in SUBSET d
  BY <1>5
<1>7. DOMAIN inputs = 1 .. s.run /\ DOMAIN outputs = 1 .. s.run
  OBVIOUS
<1> HIDE DEF inputs, outputs, files
<1> QED BY <1>1, <1>2, <1>4, <1>6, <1>7 DEF s

LEMMA IdentifiedTyped ==
  ASSUME NEW files \in SUBSET Files
  PROVE  /\ identify_packages(files).files \in SUBSET Files
         /\ identify_packages(files).packages \in [Packages -> SUBSET Files]
BY DEF identify_packages

\* The parts of Configuration().
Found       == get_files(trace, disk)
Ident(sort) == IF sort THEN identify_packages(Found.files)
               ELSE [files |-> Found.files, packages |-> [p \in Packages |-> {}]]
Runs(overwrite) == IF overwrite \/ ~config.exists THEN Executions ELSE config.runs \o LastExecution
Io(overwrite)   == compile_inputs_outputs(Len(Runs(overwrite)), Found.inputs, Found.outputs)
UseOf(overwrite) ==
  [f \in Files |-> IF f \in DOMAIN Io(overwrite) THEN Io(overwrite)[f]
                   ELSE [read_runs |-> {}, write_runs |-> {}]]

LEMMA ConfigurationIs ==
  ASSUME NEW overwrite, NEW sort
  PROVE  Configuration(overwrite, sort) =
           [exists |-> TRUE, valid |-> TRUE, asWritten |-> TRUE, runs |-> Runs(overwrite),
            files |-> Ident(sort).files, packages |-> Ident(sort).packages, packed |-> Packages,
            patterns |-> {}, iofiles |-> DOMAIN Io(overwrite), use |-> UseOf(overwrite), disk |-> disk]
BY DEF Configuration, Found, Ident, Runs, Io, UseOf

LEMMA RunsTyped ==
  ASSUME trace \in Seq(Run), Len(trace) <= MaxRuns, config \in Config \cup {NoConfig}, NEW overwrite
  PROVE  Runs(overwrite) \in Seq(1 .. MaxRuns)
<1>1. Executions \in Seq(1 .. Len(trace)) /\ Len(trace) \in Nat /\ MaxRuns \in Nat
  BY ExecutionsAre, PackingAssumption
<1>2. Executions \in Seq(1 .. MaxRuns)
  <2>1. 1 .. Len(trace) \subseteq 1 .. MaxRuns
    BY <1>1
  <2> QED BY <1>1, <2>1, SeqMonotonic
<1>3. LastExecution \in Seq(1 .. MaxRuns)
  <2>1. CASE Executions = <<>>
    BY <2>1 DEF LastExecution
  <2>2. CASE Executions # <<>>
    <3>1. Len(Executions) \in 1 .. Len(Executions) /\ Last(Executions) = Executions[Len(Executions)]
      BY <1>2, <2>2 DEF Last
    <3>2. Last(Executions) \in 1 .. MaxRuns
      BY <1>2, <3>1, ElementOfSeq
    <3> QED BY <2>2, <3>2 DEF LastExecution
  <2> QED BY <2>1, <2>2
<1>4. ASSUME ~(overwrite \/ ~config.exists) PROVE config.runs \o LastExecution \in Seq(1 .. MaxRuns)
  <2>1. config \in Config
    BY <1>4 DEF NoConfig
  <2>2. config.runs \in Seq(1 .. MaxRuns)
    BY <2>1 DEF Config
  <2> QED BY <1>3, <2>2
<1> QED BY <1>2, <1>4 DEF Runs

LEMMA ConfigurationTyped ==
  ASSUME trace \in Seq(Run), Len(trace) <= MaxRuns, disk \in SUBSET Files,
         config \in Config \cup {NoConfig}, NEW overwrite, NEW sort \in BOOLEAN,
         Len(Runs(overwrite)) <= MaxRuns
  PROVE  Configuration(overwrite, sort) \in Config
<1>1. /\ Found.files \in SUBSET Files
      /\ DOMAIN Found.outputs = DOMAIN Found.inputs
      /\ \A r \in DOMAIN Found.inputs : Found.inputs[r] \in SUBSET disk /\ Found.outputs[r] \in SUBSET disk
  BY FoundTyped DEF Found
<1>2. Runs(overwrite) \in Seq(1 .. MaxRuns) /\ Len(Runs(overwrite)) \in Nat /\ MaxRuns \in Nat
  BY RunsTyped, PackingAssumption
<1>3. Ident(sort).files \in SUBSET Files /\ Ident(sort).packages \in [Packages -> SUBSET Files]
  <2>1. CASE sort
    BY <1>1, <2>1, IdentifiedTyped DEF Ident
  <2>2. CASE ~sort
    BY <1>1, <2>2 DEF Ident
  <2> QED BY <2>1, <2>2
<1> DEFINE n == Len(Runs(overwrite))
           inputs == Found.inputs
           outputs == Found.outputs
           zip == (1 .. n) \cap DOMAIN inputs
           io == [f \in UNION {inputs[r] \cup outputs[r] : r \in DOMAIN inputs} |->
                    [read_runs  |-> {r \in zip : f \in inputs[r]},
                     write_runs |-> {r \in zip : f \in outputs[r]}]]
<1>4. Io(overwrite) = io
  BY DEF Io, compile_inputs_outputs
<1> HIDE DEF inputs, outputs, n
<1>5. zip \subseteq 1 .. MaxRuns
  BY <1>2 DEF n
<1>6. DOMAIN io \in SUBSET Files
  <2>1. DOMAIN io = UNION {inputs[r] \cup outputs[r] : r \in DOMAIN inputs}
    OBVIOUS
  <2>2. \A r \in DOMAIN inputs : inputs[r] \cup outputs[r] \subseteq Files
    BY <1>1 DEF inputs, outputs
  <2> QED BY <2>1, <2>2
<1>7. \A f \in DOMAIN io : io[f] \in [read_runs: SUBSET (1 .. MaxRuns), write_runs: SUBSET (1 .. MaxRuns)]
  <2> TAKE f \in DOMAIN io
  <2>1. io[f] = [read_runs  |-> {r \in zip : f \in inputs[r]},
                 write_runs |-> {r \in zip : f \in outputs[r]}]
    OBVIOUS
  <2>2. {r \in zip : f \in inputs[r]} \in SUBSET (1 .. MaxRuns)
        /\ {r \in zip : f \in outputs[r]} \in SUBSET (1 .. MaxRuns)
    BY <1>5
  <2> QED BY <2>1, <2>2
<1> HIDE DEF io
<1>8. UseOf(overwrite) \in
        [Files -> [read_runs: SUBSET (1 .. MaxRuns), write_runs: SUBSET (1 .. MaxRuns)]]
  BY <1>4, <1>7 DEF UseOf
<1>9. DOMAIN Io(overwrite) \in SUBSET Files
  BY <1>4, <1>6
<1> QED BY <1>2, <1>3, <1>8, <1>9, ConfigurationIs DEF Config

LEMMA TornTyped == ASSUME NEW c \in Config, NEW d \in Torn(c) PROVE d \in Config
<1> DEFINE none == [p \in Packages |-> {}]
           cut  == [c EXCEPT !.asWritten = FALSE, !.files = {}, !.packages = none]
<1>1. <<>> \in Seq(1 .. MaxRuns) /\ none \in [Packages -> SUBSET Files]
  OBVIOUS
<1>2. d = [cut EXCEPT !.valid = FALSE] \/ d = cut \/ d = [cut EXCEPT !.runs = <<>>]
  BY DEF Torn
<1> HIDE DEF none
<1>3. cut \in Config
  BY <1>1 DEF Config
<1> HIDE DEF cut
<1>4. [cut EXCEPT !.valid = FALSE] \in Config
  BY <1>3 DEF Config
<1>5. [cut EXCEPT !.runs = <<>>] \in Config
  BY <1>1, <1>3 DEF Config
<1> QED BY <1>2, <1>3, <1>4, <1>5

LEMMA CanonicalTyped ==
  ASSUME NEW c \in Config, disk \in SUBSET Files, NEW sort \in BOOLEAN
  PROVE  Canonical(c, sort) \in Config
<1> DEFINE add  == c.patterns \cap disk
           new  == IF sort THEN identify_packages(add)
                   ELSE [files |-> add, packages |-> [p \in Packages |-> {}]]
           both == combine_files(new, c)
<1>1. add \in SUBSET Files /\ c.files \in SUBSET Files /\ c.packages \in [Packages -> SUBSET Files]
  BY DEF Config
<1>2. new.files \in SUBSET Files /\ new.packages \in [Packages -> SUBSET Files]
  <2>1. CASE sort
    BY <1>1, <2>1, IdentifiedTyped
  <2>2. CASE ~sort
    BY <1>1, <2>2
  <2> QED BY <2>1, <2>2
<1>3. Canonical(c, sort) =
        [c EXCEPT !.files = both.files, !.packages = both.packages, !.patterns = {}]
  BY DEF Canonical
<1> HIDE DEF new
<1>4. both.files \in SUBSET Files /\ both.packages \in [Packages -> SUBSET Files]
  BY <1>1, <1>2 DEF combine_files
<1> HIDE DEF both
<1> QED BY <1>3, <1>4 DEF Config

LEMMA EditTyped ==
  ASSUME NEW c \in Config
  PROVE  /\ \A p : [c EXCEPT !.asWritten = FALSE, !.packed = c.packed \ {p}] \in Config
         /\ \A f : [c EXCEPT !.asWritten = FALSE, !.files = c.files \ {f}] \in Config
         /\ \A f \in Files : [c EXCEPT !.asWritten = FALSE, !.patterns = c.patterns \cup {f}] \in Config
         /\ [c EXCEPT !.asWritten = FALSE, !.valid = FALSE] \in Config
<1>1. \A p : [c EXCEPT !.asWritten = FALSE, !.packed = c.packed \ {p}] \in Config
  BY DEF Config
<1>2. \A f : [c EXCEPT !.asWritten = FALSE, !.files = c.files \ {f}] \in Config
  BY DEF Config
<1>3. \A f \in Files : [c EXCEPT !.asWritten = FALSE, !.patterns = c.patterns \cup {f}] \in Config
  BY DEF Config
<1>4. [c EXCEPT !.asWritten = FALSE, !.valid = FALSE] \in Config
  BY DEF Config
<1> QED BY <1>1, <1>2, <1>3, <1>4

\* What a command holds.
Held ==
  /\ pc = "tracing" => Len(trace) < MaxRuns
  /\ pc = "saving" => loc.config \in Config
  /\ pc = "packing" => loc \in Config
  /\ pc = "packed data" => /\ loc.config \in Config
                           /\ loc.data \in SUBSET Files /\ loc.disk \in SUBSET Files

TypeInv == TypeOK /\ Held

LEMMA LoadedTyped ==
  /\ config \in Config \cup {NoConfig} /\ config.exists => config \in Config
  /\ config \in Config => config.exists
<1>1. ~NoConfig.exists
  BY DEF NoConfig
<1>2. config \in Config => config.exists
  BY DEF Config
<1> QED BY <1>1, <1>2

LEMMA TypeInit == Init => TypeInv
<1> SUFFICES ASSUME Init PROVE TypeInv
  OBVIOUS
<1>1. disk \in SUBSET Files /\ MaxRuns \in Nat \ {0}
  BY PackingAssumption DEF Init
<1>2. trace \in Seq(Run) /\ Len(trace) <= MaxRuns
  BY <1>1 DEF Init
<1> QED BY <1>1, <1>2 DEF Init, TypeInv, TypeOK, Held

LEMMA RunRecorded ==
  ASSUME TypeOK, NEW program \in Programs \cup {<<>>}
  PROVE  Recorded(program) \in Run /\ WrittenBy(program) \in SUBSET Files /\ Len(program) \in Nat
<1>1. program \in Seq(Access)
  <2>1. Programs \subseteq Seq(Access) /\ <<>> \in Seq(Access)
    BY PackingAssumption
  <2> QED BY <2>1
<1> DEFINE n == Len(program)
           rows == [i \in DOMAIN program |->
                      [file |-> program[i].file, mode |-> program[i].mode, ts |-> clock + 1 + i]]
<1>2. n \in Nat /\ DOMAIN program = 1 .. n /\ clock \in Nat
  <2>1. clock \in Nat
    BY DEF TypeOK
  <2> QED BY <1>1, <2>1
<1>3. \A i \in 1 .. n : program[i].file \in Files /\ program[i].mode \in Modes
  <2>1. \A i \in 1 .. n : program[i] \in Access
    BY <1>1
  <2> QED BY <2>1 DEF Access
<1>4. rows \in [1 .. n -> Row]
  <2>1. \A i \in 1 .. n : [file |-> program[i].file, mode |-> program[i].mode, ts |-> clock + 1 + i] \in Row
    BY <1>2, <1>3 DEF Row
  <2> QED BY <1>2, <2>1
<1>5. Recorded(program) = [ts |-> clock + 1, rows |-> rows]
  BY DEF Recorded
<1> HIDE DEF rows
<1>6. rows \in Seq(Row)
  BY <1>2, <1>4, SequenceOf
<1>7. Recorded(program) \in Run
  BY <1>2, <1>5, <1>6 DEF Run
<1>8. WrittenBy(program) \in SUBSET Files
  BY <1>2, <1>3 DEF WrittenBy
<1> QED BY <1>2, <1>7, <1>8

LEMMA TypeStep == TypeInv /\ [Next]_vars => TypeInv'
<1> SUFFICES ASSUME TypeInv, [Next]_vars PROVE TypeInv'
  OBVIOUS
<1>0. TypeOK /\ Held
  BY DEF TypeInv
<1>1. CASE UNCHANGED vars
  BY <1>0, <1>1 DEF vars, TypeInv, TypeOK, Held
<1>2. CASE Trace
  <2>1. trace \in Seq(Run) /\ clock \in Nat
    BY <1>0 DEF TypeOK
  <2>2. CASE UNCHANGED <<trace, schema, config, gaps>> /\ Len(trace) < MaxRuns
    <3>1. clock' = clock
      BY <1>2, <2>2 DEF Trace
    <3> QED BY <1>0, <1>2, <2>2, <3>1 DEF Trace, TypeInv, TypeOK, Held, Step
  <2>3. CASE trace' = <<>> /\ schema' = "tracer" /\ config' = NoConfig /\ gaps' = {}
    <3>1. MaxRuns \in Nat \ {0} /\ <<>> \in Seq(Run) /\ Len(<<>>) = 0
      BY PackingAssumption
    <3>2. clock' \in Nat
      BY <1>2, <2>1 DEF Trace
    <3>3. trace' \in Seq(Run) /\ Len(trace') < MaxRuns /\ Len(trace') <= MaxRuns
      BY <2>3, <3>1
    <3> QED BY <1>0, <1>2, <2>3, <3>2, <3>3 DEF Trace, TypeInv, TypeOK, Held, Step
  <2> QED BY <1>2, <2>2, <2>3 DEF Trace
<1>3. CASE TracerCommits
  <2>1. PICK program \in Programs \cup {<<>>} :
          /\ trace' = Append(trace, Recorded(program)) /\ disk' = disk \cup WrittenBy(program)
          /\ clock' = clock + 1 + Len(program)
    BY <1>3 DEF TracerCommits
  <2>2. Recorded(program) \in Run /\ WrittenBy(program) \in SUBSET Files /\ Len(program) \in Nat
    BY <1>0, RunRecorded
  <2>a. trace \in Seq(Run) /\ disk \in SUBSET Files /\ clock \in Nat
    BY <1>0 DEF TypeOK
  <2>b. Len(trace) < MaxRuns /\ MaxRuns \in Nat
    BY <1>0, <1>3, PackingAssumption DEF TracerCommits, Held
  <2>3. trace' \in Seq(Run) /\ disk' \in SUBSET Files /\ clock' \in Nat
    BY <2>a, <2>1, <2>2
  <2>4. Len(trace') <= MaxRuns
    BY <2>a, <2>b, <2>1, <2>2
  <2> QED BY <1>0, <1>3, <2>3, <2>4 DEF TracerCommits, TypeInv, TypeOK, Held, Step
<1>4. CASE TracerFails
  BY <1>0, <1>4 DEF TracerFails, TypeInv, TypeOK, Held, Step, Return
<1>5. CASE Configure
  <2>1. UNCHANGED <<disk, clock, dir, schema, trace, target>> /\ pc = "configuring"
    BY <1>5 DEF Configure
  <2>2. CASE UNCHANGED config /\ Return /\ gaps' = gaps \cup {"killed"}
    BY <1>0, <2>1, <2>2 DEF TypeInv, TypeOK, Held, Step, Return
  <2>3. ASSUME NEW sort \in BOOLEAN, NEW all, NEW c, c = Configuration(loc.overwrite, sort),
               Len(c.runs) <= MaxRuns, Step("saving", [all |-> all, config |-> c]),
               config' \in Torn(c), UNCHANGED gaps
        PROVE  TypeInv'
    <3>1. c.runs = Runs(loc.overwrite)
      BY <2>3, ConfigurationIs
    <3>2. c \in Config
      BY <1>0, <2>3, <3>1, ConfigurationTyped DEF TypeOK
    <3>3. config' \in Config /\ loc'.config \in Config /\ pc' = "saving"
      BY <2>3, <3>2, TornTyped DEF Step
    <3> QED BY <1>0, <2>1, <2>3, <3>3 DEF TypeInv, TypeOK, Held
  <2> QED BY <1>5, <2>2, <2>3 DEF Configure
<1>6. CASE Save
  BY <1>0, <1>6 DEF Save, TypeInv, TypeOK, Held, Step, Return
<1>7. CASE Reset
  BY <1>0, <1>7 DEF Reset, TypeInv, TypeOK, Held, Step
<1>8. CASE Combine
  <2>1. PICK other \in Others : Len(trace) + Len(other) <= MaxRuns /\ trace' \in {trace \o other, other \o trace}
    BY <1>8 DEF Combine
  <2>2. other \in Seq(Run) /\ trace \in Seq(Run) /\ MaxRuns \in Nat
    BY <1>0, PackingAssumption DEF TypeOK
  <2>3. trace' \in Seq(Run) /\ Len(trace') <= MaxRuns
    <3>1. trace' = trace \o other \/ trace' = other \o trace
      BY <2>1
    <3>2. /\ trace \o other \in Seq(Run) /\ other \o trace \in Seq(Run)
          /\ Len(trace \o other) = Len(trace) + Len(other)
          /\ Len(other \o trace) = Len(trace) + Len(other)
      BY <2>2
    <3> QED BY <2>1, <3>1, <3>2
  <2> QED BY <1>0, <1>8, <2>3 DEF Combine, TypeInv, TypeOK, Held, Step
<1>9. CASE PackStarts
  <2>1. /\ pc' = "packing" /\ target' = Partial /\ UNCHANGED <<disk, clock, dir, schema, trace, config, gaps>>
        /\ Loads(config) /\ \E sort \in BOOLEAN : loc' = Canonical(config, sort)
    BY <1>9 DEF PackStarts, Step
  <2>2. config \in Config
    BY <1>0, <2>1, LoadedTyped DEF TypeOK, Loads
  <2>3. loc' \in Config
    BY <1>0, <2>1, <2>2, CanonicalTyped DEF TypeOK
  <2> QED BY <1>0, <2>1, <2>3 DEF TypeInv, TypeOK, Held
<1>10. CASE PackAdds
  <2> DEFINE d == [loc EXCEPT !.files = loc.files \cap disk,
                              !.packages = [p \in Packages |-> IF p \in loc.packed
                                              THEN loc.packages[p] \cap disk
                                              ELSE loc.packages[p]]]
  <2>1. /\ pc = "packing" /\ pc' = "packed data"
        /\ UNCHANGED <<disk, clock, dir, schema, trace, config, target, gaps>>
        /\ loc' = [data |-> Listed(loc) \cap disk, disk |-> disk, config |-> d]
    BY <1>10 DEF PackAdds, Step
  <2>2. loc \in Config /\ disk \in SUBSET Files
    BY <1>0, <2>1 DEF TypeOK, Held
  <2>3. d \in Config
    BY <2>2 DEF Config
  <2> HIDE DEF d
  <2>4. Listed(loc) \cap disk \in SUBSET Files
    BY <2>2
  <2>5. loc'.config \in Config /\ loc'.data \in SUBSET Files /\ loc'.disk \in SUBSET Files
    BY <2>1, <2>2, <2>3, <2>4
  <2> QED BY <1>0, <2>1, <2>5 DEF TypeInv, TypeOK, Held
<1>11. CASE PackEnds
  <2>1. /\ pc = "packed data" /\ pc' = "idle"
        /\ UNCHANGED <<disk, clock, dir, schema, trace, config, gaps>>
        /\ target' = [exists |-> TRUE, done |-> TRUE, config |-> loc.config,
                      data |-> loc.data, trace |-> trace, disk |-> loc.disk,
                      rebooted |-> "reboot" \in gaps]
    BY <1>11 DEF PackEnds, Return, Step
  <2>a. /\ trace \in Seq(Run) /\ loc.config \in Config
        /\ loc.data \in SUBSET Files /\ loc.disk \in SUBSET Files
    BY <1>0, <2>1 DEF TypeOK, Held
  <2>2. target' \in Pack
    <3> DEFINE b == "reboot" \in gaps
    <3>1. b \in BOOLEAN
      OBVIOUS
    <3>2. target' = [exists |-> TRUE, done |-> TRUE, config |-> loc.config, data |-> loc.data,
                     trace |-> trace, disk |-> loc.disk, rebooted |-> b]
      BY <2>1
    <3> HIDE DEF b
    <3> QED BY <2>a, <3>1, <3>2 DEF Pack
  <2> QED BY <1>0, <2>1, <2>2 DEF TypeInv, TypeOK, Held
<1>12. CASE PackFails
  BY <1>0, <1>12 DEF PackFails, TypeInv, TypeOK, Held, Step, Return
<1>13. CASE EditConfig
  <2>1. /\ pc = "idle" /\ Loads(config) /\ UNCHANGED <<disk, clock, dir, schema, trace, target, pc, loc, gaps>>
    BY <1>13 DEF EditConfig, Idle
  <2>2. config \in Config
    BY <1>0, <2>1, LoadedTyped DEF TypeOK, Loads
  <2>3. config' \in Config
    BY <1>13, <2>2, EditTyped DEF EditConfig
  <2> QED BY <1>0, <2>1, <2>3 DEF TypeInv, TypeOK, Held
<1>14. CASE RemoveFile
  BY <1>0, <1>14 DEF RemoveFile, TypeInv, TypeOK, Held
<1>15. CASE RemovePack
  BY <1>0, <1>15 DEF RemovePack, TypeInv, TypeOK, Held
<1>16. CASE Kill
  BY <1>0, <1>16 DEF Kill, TypeInv, TypeOK, Held, Step, Return
<1>17. CASE Reboot
  BY <1>0, <1>17 DEF Reboot, TypeInv, TypeOK, Held
<1> QED BY <1>1, <1>2, <1>3, <1>4, <1>5, <1>6, <1>7, <1>8, <1>9, <1>10, <1>11, <1>12, <1>13, <1>14,
           <1>15, <1>16, <1>17 DEF Next

-----------------------------------------------------------------------------
(* The runs of the configuration. *)

Clean   == "killed" \notin gaps
Plain   == schema = "tracer" /\ AllExecuted
Settles == pc \notin {"configuring", "saving"} /\ Plain /\ Clean /\ Loads(config)

\* The configuration is of all the runs, or of all but the one just recorded.
RunsInv ==
  /\ Settles => config.runs = Numbers(Len(trace))
  /\ pc = "configuring" =>
       /\ loc.overwrite \in BOOLEAN
       /\ ~loc.overwrite =>
            /\ Len(trace) # 0
            /\ Plain /\ Clean /\ Loads(config) => config.runs = Numbers(Len(trace) - 1)
  /\ pc = "saving" /\ Plain /\ (loc.all \/ Clean) => loc.config.runs = Numbers(Len(trace))

LEMMA LastExecuted ==
  ASSUME trace \in Seq(Run), AllExecuted, Len(trace) # 0
  PROVE  LastExecution = <<Len(trace)>>
<1>1. Executions = Numbers(Len(trace)) /\ Len(trace) \in Nat
  BY ExecutionsAre
<1>2. PICK n \in Nat : n = Len(trace)
  BY <1>1
<1>3. n # 0 /\ Numbers(n) \in Seq(Nat) /\ Len(Numbers(n)) = n /\ Numbers(n)[n] = n
  <2>1. Numbers(n) \in [1 .. n -> Nat]
    BY DEF Numbers
  <2> QED BY <1>2, <2>1, SequenceOf DEF Numbers
<1>4. Executions # <<>> /\ Last(Executions) = n
  BY <1>1, <1>2, <1>3 DEF Last
<1> QED BY <1>2, <1>4 DEF LastExecution

\* The runs that Configuration() gives.
LEMMA RunsAre ==
  ASSUME trace \in Seq(Run), AllExecuted, NEW overwrite,
         overwrite \/ ~config.exists
         \/ (Len(trace) # 0 /\ config.runs = Numbers(Len(trace) - 1))
  PROVE  Runs(overwrite) = Numbers(Len(trace))
<1>1. CASE overwrite \/ ~config.exists
  BY <1>1, ExecutionsAre DEF Runs
<1>2. CASE ~(overwrite \/ ~config.exists)
  <2>1. Len(trace) \in Nat /\ Len(trace) # 0 /\ config.runs = Numbers(Len(trace) - 1)
    BY <1>2
  <2>2. LastExecution = <<Len(trace)>>
    BY <2>1, LastExecuted
  <2>3. PICK n \in Nat : n = Len(trace)
    BY <2>1
  <2>4. Numbers(n - 1) \o <<n>> = Numbers(n)
    BY <2>1, <2>3, NumbersAppended
  <2> QED BY <1>2, <2>1, <2>2, <2>3, <2>4 DEF Runs
<1> QED BY <1>1, <1>2

LEMMA RunsInit == Init => RunsInv
<1> SUFFICES ASSUME Init PROVE RunsInv
  OBVIOUS
<1>1. ~Loads(config) /\ pc = "idle"
  BY DEF Init, Loads, NoConfig
<1> QED BY <1>1 DEF RunsInv, Settles

\* A step that leaves the runs, and what the configuration says of them, alone.
LEMMA RunsQuiet ==
  ASSUME RunsInv, UNCHANGED <<trace, schema>>, pc \notin {"configuring", "saving"},
         pc' \notin {"configuring", "saving"}, Clean' => Clean,
         Loads(config)' => Loads(config) /\ config'.runs = config.runs
  PROVE  RunsInv'
<1>1. AllExecuted' <=> AllExecuted
  BY DEF AllExecuted, Executed
<1>2. Settles' => Settles
  BY <1>1 DEF Settles, Plain
<1>3. Settles' => Loads(config)'
  BY DEF Settles
<1>4. Settles' => config'.runs = [r \in 1 .. Len(trace') |-> r]
  BY <1>2, <1>3 DEF RunsInv, Numbers
<1> QED BY <1>4 DEF RunsInv, Numbers

LEMMA RunsStep == TypeInv /\ RunsInv /\ [Next]_vars => RunsInv'
<1> SUFFICES ASSUME TypeInv, RunsInv, [Next]_vars PROVE RunsInv'
  OBVIOUS
<1>0. /\ trace \in Seq(Run) /\ Len(trace) \in Nat
      /\ config \in Config \cup {NoConfig}
  <2>1. trace \in Seq(Run) /\ config \in Config \cup {NoConfig}
    BY DEF TypeInv, TypeOK
  <2> QED BY <2>1
<1>a. UNCHANGED trace => (AllExecuted' <=> AllExecuted)
  BY DEF AllExecuted, Executed
<1>b. \A c, d : c = d => (Loads(c) <=> Loads(d)) /\ c.runs = d.runs
  OBVIOUS
<1>c. UNCHANGED config => (Loads(config)' <=> Loads(config)) /\ config'.runs = config.runs
  BY DEF Loads
<1>d. UNCHANGED gaps => (Clean' <=> Clean)
  BY DEF Clean
<1>1. CASE UNCHANGED vars
  BY <1>1, <1>a, <1>c, <1>d DEF vars, RunsInv, Settles, Plain, Numbers
<1>2. CASE Trace
  <2>1. pc = "idle" /\ pc' = "tracing"
    BY <1>2 DEF Trace, Idle, Step
  <2>2. CASE UNCHANGED <<trace, schema, config, gaps>>
    BY <2>1, <2>2, <1>c, <1>d, RunsQuiet
  <2>3. CASE config' = NoConfig
    <3>1. ~Loads(config)'
      BY <2>3 DEF Loads, NoConfig
    <3> QED BY <2>1, <3>1 DEF RunsInv, Settles
  <2> QED BY <1>2, <2>2, <2>3 DEF Trace
<1>3. CASE TracerCommits
  <2>1. /\ pc = "tracing" /\ pc' = "configuring" /\ loc' = [overwrite |-> FALSE]
        /\ UNCHANGED <<schema, config, gaps>>
        /\ \E program \in Programs \cup {<<>>} : trace' = Append(trace, Recorded(program))
    BY <1>3 DEF TracerCommits, Step
  <2>2. PICK program \in Programs \cup {<<>>} : trace' = Append(trace, Recorded(program))
    BY <2>1
  <2>3. Recorded(program) \in Run
    BY RunRecorded DEF TypeInv
  <2>4. Len(trace') = Len(trace) + 1 /\ \A i \in DOMAIN trace : i \in DOMAIN trace' /\ trace'[i] = trace[i]
    BY <1>0, <2>2, <2>3
  <2>5. AllExecuted' => AllExecuted
    BY <2>4 DEF AllExecuted, Executed
  <2>6. Plain' /\ Clean' /\ Loads(config)' => Settles
    BY <1>c, <1>d, <2>1, <2>5 DEF Settles, Plain
  <2>7. Plain' /\ Clean' /\ Loads(config)' => config'.runs = Numbers(Len(trace') - 1)
    BY <1>0, <2>1, <2>4, <2>6 DEF RunsInv
  <2>8. loc'.overwrite = FALSE /\ Len(trace') # 0
    BY <1>0, <2>1, <2>4
  <2> QED BY <2>1, <2>7, <2>8 DEF RunsInv, Settles, Numbers
<1>4. CASE TracerFails \/ PackStarts \/ PackAdds \/ PackEnds \/ PackFails \/ RemoveFile \/ RemovePack
  <2>1. /\ pc \notin {"configuring", "saving"} /\ pc' \notin {"configuring", "saving"}
        /\ UNCHANGED <<trace, schema, config, gaps>>
    BY <1>4 DEF TracerFails, PackStarts, PackAdds, PackEnds, PackFails, RemoveFile, RemovePack,
                Idle, Step, Return
  <2> QED BY <2>1, <1>c, <1>d, RunsQuiet
<1>5. CASE Configure
  <2>1. pc = "configuring" /\ UNCHANGED <<schema, trace>>
    BY <1>5 DEF Configure
  <2>2. CASE Return /\ gaps' = gaps \cup {"killed"}
    <3>1. ~Clean'
      BY <2>2 DEF Clean
    <3> QED BY <2>2, <3>1 DEF RunsInv, Settles, Return, Step
  <2>3. ASSUME NEW sort \in BOOLEAN, NEW c, c = Configuration(loc.overwrite, sort),
               loc.overwrite \/ ~config.exists \/ Loads(config),
               Step("saving", [all |-> loc.overwrite \/ ~config.exists, config |-> c]), UNCHANGED gaps
        PROVE  RunsInv'
    <3>1. pc' = "saving" /\ loc'.config = c /\ (loc'.all <=> loc.overwrite \/ ~config.exists)
      BY <2>3 DEF Step
    <3>2. c.runs = Runs(loc.overwrite)
      BY <2>3, ConfigurationIs
    <3>3. ASSUME Plain, loc.overwrite \/ ~config.exists \/ Clean
          PROVE  c.runs = Numbers(Len(trace))
      <4>1. loc.overwrite \/ ~config.exists \/ (Len(trace) # 0 /\ config.runs = Numbers(Len(trace) - 1))
        BY <2>1, <2>3, <3>3 DEF RunsInv
      <4> QED BY <1>0, <3>2, <3>3, <4>1, RunsAre DEF Plain
    <3>4. Plain' /\ (loc'.all \/ Clean') => Plain /\ (loc.overwrite \/ ~config.exists \/ Clean)
      BY <1>a, <1>d, <2>1, <2>3, <3>1 DEF Plain
    <3>5. Plain' /\ (loc'.all \/ Clean') => loc'.config.runs = Numbers(Len(trace))
      BY <3>1, <3>3, <3>4
    <3> QED BY <2>1, <3>1, <3>5 DEF RunsInv, Settles, Numbers
  <2> QED BY <1>5, <2>2, <2>3 DEF Configure
<1>6. CASE Save
  <2>1. /\ pc = "saving" /\ pc' = "idle" /\ config' = loc.config /\ UNCHANGED <<schema, trace>>
        /\ gaps' = IF loc.all THEN gaps \ {"killed"} ELSE gaps
    BY <1>6 DEF Save, Return, Step
  <2>2. Settles' => Plain /\ (loc.all \/ Clean)
    BY <1>a, <2>1 DEF Settles, Plain, Clean
  <2>3. Settles' => config'.runs = Numbers(Len(trace))
    BY <2>1, <2>2 DEF RunsInv
  <2> QED BY <2>1, <2>3 DEF RunsInv, Numbers
<1>7. CASE Reset \/ Combine
  <2>1. pc' = "configuring" /\ loc' = [overwrite |-> TRUE]
    BY <1>7 DEF Reset, Combine, Step
  <2> QED BY <2>1 DEF RunsInv, Settles
<1>8. CASE EditConfig
  <2>1. /\ pc = "idle" /\ Loads(config) /\ UNCHANGED <<trace, schema, pc, gaps>>
    BY <1>8 DEF EditConfig, Idle
  <2>2. config \in Config
    BY <1>0, <2>1, LoadedTyped DEF Loads
  <2>3. config'.runs = config.runs
    BY <1>8, <2>2 DEF EditConfig, Config
  <2> QED BY <2>1, <2>3, <1>d, RunsQuiet
<1>9. CASE Kill
  <2>1. pc' = "idle" /\ UNCHANGED <<trace, schema, config>>
    BY <1>9 DEF Kill, Return, Step
  <2>2. CASE pc = "tracing"
    <3>1. UNCHANGED gaps
      BY <1>9, <2>2 DEF Kill
    <3> QED BY <2>1, <2>2, <3>1, <1>c, <1>d, RunsQuiet
  <2>3. CASE pc = "configuring" /\ ~config.exists
    <3>1. ~Loads(config)'
      BY <2>1, <2>3 DEF Loads
    <3> QED BY <2>1, <3>1 DEF RunsInv, Settles
  <2>4. CASE ~(pc = "tracing" \/ (pc = "configuring" /\ ~config.exists))
    <3>1. ~Clean'
      BY <1>9, <2>4 DEF Kill, Clean
    <3> QED BY <2>1, <3>1 DEF RunsInv, Settles
  <2> QED BY <2>2, <2>3, <2>4
<1>10. CASE Reboot
  <2>1. pc = "idle" /\ UNCHANGED <<trace, schema, config, pc>> /\ (Clean' => Clean)
    BY <1>10 DEF Reboot, Idle, Clean
  <2> QED BY <2>1, <1>c, RunsQuiet
<1> QED BY <1>1, <1>2, <1>3, <1>4, <1>5, <1>6, <1>7, <1>8, <1>9, <1>10 DEF Next

LEMMA RunsConclude == TypeInv /\ RunsInv => RunsConfigured
<1> SUFFICES ASSUME TypeInv, RunsInv, Settled PROVE config.runs = [i \in DOMAIN trace |-> i]
  BY DEF RunsConfigured
<1>1. Settles
  BY DEF Settles, Settled, Idle, Plain, Clean
<1>2. DOMAIN trace = 1 .. Len(trace)
  <2>1. trace \in Seq(Run)
    BY DEF TypeInv, TypeOK
  <2> QED BY <2>1
<1> QED BY <1>1, <1>2 DEF RunsInv, Numbers

-----------------------------------------------------------------------------
(* The rows of a trace are in the order of their timestamps, as long as the *)
(* clock did not restart.                                                   *)

LEMMA JoinAt ==
  ASSUME NEW S, NEW a \in Seq(S), NEW b \in Seq(S)
  PROVE  /\ a \o b \in Seq(S) /\ Len(a \o b) = Len(a) + Len(b) /\ Len(a) \in Nat /\ Len(b) \in Nat
         /\ \A i \in 1 .. Len(a) : (a \o b)[i] = a[i]
         /\ \A i \in 1 .. Len(b) : (a \o b)[Len(a) + i] = b[i]
OBVIOUS

\* Where the elements of each sequence are.
Located(off, L, n, all, seqs) ==
  /\ off \in [0 .. n -> Nat] /\ off[0] = 0 /\ off[n] = Len(all) /\ L \in [1 .. n -> Nat]
  /\ \A r \in 1 .. n : L[r] = Len(seqs[r]) /\ off[r] = off[r - 1] + L[r]
  /\ \A r \in 1 .. n : \A i \in 1 .. L[r] : off[r - 1] + i \in 1 .. off[n] /\ all[off[r - 1] + i] = seqs[r][i]
  /\ \A k \in 1 .. off[n] : \E r \in 1 .. n : \E i \in 1 .. L[r] : k = off[r - 1] + i
  /\ \A r \in 0 .. n : \A q \in 0 .. n : r <= q => off[r] <= off[q]

LEMMA JoinsLocated ==
  ASSUME NEW S, NEW seqs \in Seq(Seq(S)), NEW acc, Joins(acc, seqs, S)
  PROVE  \E off, L : Located(off, L, Len(seqs), acc[Len(seqs)], seqs)
<1> DEFINE n == Len(seqs)
           off == [r \in 0 .. n |-> Len(acc[r])]
           L == [r \in 1 .. n |-> Len(seqs[r])]
<1>1. n \in Nat /\ \A r \in 1 .. n : seqs[r] \in Seq(S)
  OBVIOUS
<1>2. /\ \A r \in 0 .. n : acc[r] \in Seq(S)
      /\ acc[0] = <<>>
      /\ \A r \in 1 .. n : acc[r] = acc[r - 1] \o seqs[r]
  BY DEF Joins
<1>3. \A r \in 0 .. n : off[r] = Len(acc[r])
  OBVIOUS
<1>4. \A r \in 1 .. n : L[r] = Len(seqs[r])
  OBVIOUS
<1>5. off \in [0 .. n -> Nat]
  BY <1>2
<1>6. L \in [1 .. n -> Nat]
  BY <1>1
<1> HIDE DEF n, off, L
<1>7. \A r \in 1 .. n : r - 1 \in 0 .. n /\ r \in 0 .. n
  BY <1>1
<1>8. \A r \in 1 .. n : /\ off[r] = off[r - 1] + L[r]
                        /\ \A i \in 1 .. off[r - 1] : acc[r][i] = acc[r - 1][i]
                        /\ \A i \in 1 .. L[r] : acc[r][off[r - 1] + i] = seqs[r][i]
  <2> TAKE r \in 1 .. n
  <2>1. /\ acc[r - 1] \in Seq(S) /\ seqs[r] \in Seq(S) /\ acc[r] = acc[r - 1] \o seqs[r]
        /\ off[r - 1] = Len(acc[r - 1]) /\ off[r] = Len(acc[r]) /\ L[r] = Len(seqs[r])
    BY <1>1, <1>2, <1>3, <1>4, <1>7
  <2>2. PICK a \in Seq(S), b \in Seq(S) : a = acc[r - 1] /\ b = seqs[r]
    BY <2>1
  <2>3. /\ Len(a \o b) = Len(a) + Len(b)
        /\ \A i \in 1 .. Len(a) : (a \o b)[i] = a[i]
        /\ \A i \in 1 .. Len(b) : (a \o b)[Len(a) + i] = b[i]
    BY JoinAt
  <2>4. acc[r] = a \o b /\ off[r - 1] = Len(a) /\ off[r] = Len(a \o b) /\ L[r] = Len(b)
    BY <2>1, <2>2
  <2> QED BY <2>2, <2>3, <2>4, Zenon
<1>9. off[0] = 0
  BY <1>1, <1>2, <1>3
<1> DEFINE T == {q \in 0 .. n :
             /\ \A r \in 0 .. q : off[r] <= off[q]
             /\ \A r \in 1 .. q : \A i \in 1 .. L[r] :
                   off[r - 1] + i \in 1 .. off[q] /\ acc[q][off[r - 1] + i] = seqs[r][i]
             /\ \A k \in 1 .. off[q] : \E r \in 1 .. q : \E i \in 1 .. L[r] : k = off[r - 1] + i}
<1>10. 0 \in T
  BY <1>1, <1>9
<1>11. ASSUME NEW q \in 1 .. n, q - 1 \in T PROVE q \in T
  <2>1. /\ off[q] = off[q - 1] + L[q] /\ off[q - 1] \in Nat /\ off[q] \in Nat /\ L[q] \in Nat
        /\ q - 1 \in 0 .. n /\ q \in 0 .. n
    BY <1>5, <1>6, <1>7, <1>8
  <2>2. ASSUME NEW r \in 0 .. q PROVE off[r] <= off[q]
    <3>1. CASE r = q
      BY <2>1, <3>1
    <3>2. CASE r # q
      <4>1. r \in 0 .. q - 1
        BY <1>1, <3>2
      <4>2. off[r] <= off[q - 1]
        BY <1>11, <4>1
      <4>3. off[r] \in Nat
        BY <1>1, <1>5
      <4> QED BY <2>1, <4>2, <4>3
    <3> QED BY <3>1, <3>2
  <2>3. ASSUME NEW r \in 1 .. q, NEW i \in 1 .. L[r]
        PROVE  off[r - 1] + i \in 1 .. off[q] /\ acc[q][off[r - 1] + i] = seqs[r][i]
    <3>1. CASE r = q
      <4>1. off[q - 1] + i \in 1 .. off[q]
        BY <2>1, <3>1
      <4> QED BY <1>8, <3>1, <4>1
    <3>2. CASE r # q
      <4>1. r \in 1 .. q - 1
        BY <1>1, <3>2
      <4>2. off[r - 1] + i \in 1 .. off[q - 1] /\ acc[q - 1][off[r - 1] + i] = seqs[r][i]
        BY <1>11, <4>1
      <4>3. off[r - 1] + i \in 1 .. off[q]
        <5>1. off[q - 1] <= off[q] /\ off[q - 1] \in Nat /\ off[q] \in Nat
          BY <2>1
        <5> QED BY <4>2, <5>1
      <4>4. acc[q][off[r - 1] + i] = acc[q - 1][off[r - 1] + i]
        BY <1>8, <4>2
      <4> QED BY <4>2, <4>3, <4>4
    <3> QED BY <3>1, <3>2
  <2>4. ASSUME NEW k \in 1 .. off[q]
        PROVE  \E r \in 1 .. q : \E i \in 1 .. L[r] : k = off[r - 1] + i
    <3>1. CASE k <= off[q - 1]
      <4>1. k \in 1 .. off[q - 1]
        BY <2>1, <3>1
      <4>2. PICK r \in 1 .. q - 1 : \E i \in 1 .. L[r] : k = off[r - 1] + i
        BY <1>11, <4>1
      <4>3. r \in 1 .. q
        BY <1>1
      <4> QED BY <4>2, <4>3
    <3>2. CASE ~(k <= off[q - 1])
      <4>1. k - off[q - 1] \in 1 .. L[q] /\ k = off[q - 1] + (k - off[q - 1])
        BY <2>1, <3>2
      <4>2. q \in 1 .. q
        BY <1>1
      <4> QED BY <4>1, <4>2
    <3> QED BY <3>1, <3>2
  <2> QED BY <2>1, <2>2, <2>3, <2>4
<1>12. 0 .. n \subseteq T
  <2> HIDE DEF T
  <2> QED BY <1>1, <1>10, <1>11, UpTo
<1>13. \A q \in 0 .. n : q \in T
  <2> HIDE DEF T
  <2> QED BY <1>12
<1>14. \A r \in 0 .. n : \A q \in 0 .. n : r <= q => off[r] <= off[q]
  <2> TAKE r \in 0 .. n
  <2> TAKE q \in 0 .. n
  <2> HAVE r <= q
  <2>1. r \in 0 .. q
    BY <1>1
  <2> QED BY <1>13, <2>1
<1>15. n \in T
  <2> HIDE DEF T
  <2> QED BY <1>1, <1>13
<1>16. off[n] = Len(acc[n])
  BY <1>1, <1>3
<1>17. Located(off, L, n, acc[n], seqs)
  BY <1>4, <1>5, <1>6, <1>8, <1>9, <1>14, <1>15, <1>16 DEF Located
<1> QED BY <1>17 DEF n

\* Where the rows of each run are.
Placed(off, L, n, t) ==
  /\ off \in [0 .. n -> Nat] /\ off[0] = 0 /\ off[n] = Len(Rows(t)) /\ L \in [1 .. n -> Nat]
  /\ \A r \in 1 .. n : L[r] = Len(t[r].rows) /\ off[r] = off[r - 1] + L[r]
  /\ \A r \in 1 .. n : \A i \in 1 .. L[r] :
        off[r - 1] + i \in 1 .. off[n] /\ Rows(t)[off[r - 1] + i] = t[r].rows[i]
  /\ \A k \in 1 .. off[n] : \E r \in 1 .. n : \E i \in 1 .. L[r] : k = off[r - 1] + i
  /\ \A r \in 0 .. n : \A q \in 0 .. n : r <= q => off[r] <= off[q]

LEMMA RowsPlaced ==
  ASSUME NEW t \in Seq(Run), NEW n \in Nat, n = Len(t)
  PROVE  \E off, L : Placed(off, L, n, t)
<1> DEFINE seqs == [r \in DOMAIN t |-> t[r].rows]
<1>1. PICK acc : Joins(acc, seqs, Row) /\ Rows(t) = acc[n]
  BY RowsTyped
<1>2. seqs \in Seq(Seq(Row)) /\ Len(seqs) = n
  BY RowsTyped
<1>3. \A r \in 1 .. n : seqs[r] = t[r].rows
  OBVIOUS
<1> HIDE DEF seqs
<1>4. \E off, L : Located(off, L, Len(seqs), acc[Len(seqs)], seqs)
  BY <1>1, <1>2, JoinsLocated
<1>5. PICK off, L : Located(off, L, n, Rows(t), seqs)
  BY <1>1, <1>2, <1>4
<1> DEFINE rows == Rows(t)
           m == Len(rows)
<1>6. Located(off, L, n, rows, seqs) /\ m = Len(rows)
  BY <1>5
<1> HIDE DEF rows, m
<1>7. /\ off \in [0 .. n -> Nat] /\ off[0] = 0 /\ off[n] = m /\ L \in [1 .. n -> Nat]
      /\ \A r \in 1 .. n : L[r] = Len(seqs[r]) /\ off[r] = off[r - 1] + L[r]
  BY <1>6 DEF Located
<1>8. \A r \in 1 .. n : \A i \in 1 .. L[r] : off[r - 1] + i \in 1 .. off[n] /\ rows[off[r - 1] + i] = seqs[r][i]
  BY <1>6 DEF Located
<1>9. /\ \A k \in 1 .. off[n] : \E r \in 1 .. n : \E i \in 1 .. L[r] : k = off[r - 1] + i
      /\ \A r \in 0 .. n : \A q \in 0 .. n : r <= q => off[r] <= off[q]
  BY <1>6 DEF Located
<1>10. \A r \in 1 .. n : \A i \in 1 .. L[r] :
          off[r - 1] + i \in 1 .. off[n] /\ rows[off[r - 1] + i] = t[r].rows[i]
  BY <1>3, <1>8
<1>11. \A r \in 1 .. n : L[r] = Len(t[r].rows) /\ off[r] = off[r - 1] + L[r]
  BY <1>3, <1>7
<1>12. off[n] = Len(Rows(t)) /\ rows = Rows(t)
  BY <1>7 DEF rows, m
<1>13. Placed(off, L, n, t)
  BY <1>7, <1>9, <1>10, <1>11, <1>12, Zenon DEF Placed
<1> QED BY <1>13

\* Each process starts after those of the runs before and their rows, and its
\* rows follow.
Ordered(t, last) ==
  /\ \A r \in DOMAIN t : t[r].ts <= last
  /\ \A r \in DOMAIN t : \A i \in DOMAIN t[r].rows :
        t[r].ts < t[r].rows[i].ts /\ t[r].rows[i].ts <= last
  /\ \A r \in DOMAIN t : \A i \in DOMAIN t[r].rows : \A j \in DOMAIN t[r].rows :
        i < j => t[r].rows[i].ts < t[r].rows[j].ts
  /\ \A r \in DOMAIN t : \A q \in DOMAIN t : r < q =>
        t[r].ts < t[q].ts /\ \A i \in DOMAIN t[r].rows : t[r].rows[i].ts < t[q].ts

LEMMA RunTyped ==
  ASSUME NEW t \in Seq(Run)
  PROVE  /\ Len(t) \in Nat /\ DOMAIN t = 1 .. Len(t)
         /\ \A r \in 1 .. Len(t) : /\ t[r].ts \in Nat /\ t[r].rows \in Seq(Row) /\ Len(t[r].rows) \in Nat
                                   /\ DOMAIN t[r].rows = 1 .. Len(t[r].rows)
                                   /\ \A i \in 1 .. Len(t[r].rows) : /\ t[r].rows[i] \in Row
                                                                     /\ t[r].rows[i].ts \in Nat
                                                                     /\ t[r].rows[i].file \in Files
                                                                     /\ t[r].rows[i].mode \in Modes
<1>1. Len(t) \in Nat /\ DOMAIN t = 1 .. Len(t) /\ \A r \in 1 .. Len(t) : t[r] \in Run
  OBVIOUS
<1>2. ASSUME NEW r \in 1 .. Len(t)
      PROVE  /\ t[r].ts \in Nat /\ t[r].rows \in Seq(Row) /\ Len(t[r].rows) \in Nat
             /\ DOMAIN t[r].rows = 1 .. Len(t[r].rows)
             /\ \A i \in 1 .. Len(t[r].rows) : /\ t[r].rows[i] \in Row
                                               /\ t[r].rows[i].ts \in Nat
                                               /\ t[r].rows[i].file \in Files
                                               /\ t[r].rows[i].mode \in Modes
  <2>1. t[r].ts \in Nat /\ t[r].rows \in Seq(Row)
    BY <1>1 DEF Run
  <2>2. \A i \in 1 .. Len(t[r].rows) : t[r].rows[i] \in Row
    BY <2>1
  <2>3. \A i \in 1 .. Len(t[r].rows) :
           t[r].rows[i].ts \in Nat /\ t[r].rows[i].file \in Files /\ t[r].rows[i].mode \in Modes
    BY <2>2 DEF Row
  <2> QED BY <2>1, <2>2, <2>3
<1> QED BY <1>1, <1>2

LEMMA RowsInOrder ==
  ASSUME NEW t \in Seq(Run), NEW last \in Nat, Ordered(t, last),
         NEW k \in 1 .. Len(Rows(t)), NEW l \in 1 .. Len(Rows(t)), k <= l
  PROVE  Rows(t)[k].ts <= Rows(t)[l].ts
<1>0. PICK N \in Nat : N = Len(t)
  BY RunTyped
<1>1. PICK off, L : Placed(off, L, N, t)
  BY <1>0, RowsPlaced
<1>2. /\ off \in [0 .. N -> Nat] /\ L \in [1 .. N -> Nat]
      /\ \A r \in 1 .. N : L[r] = Len(t[r].rows) /\ off[r] = off[r - 1] + L[r]
      /\ \A r \in 0 .. N : \A q \in 0 .. N : r <= q => off[r] <= off[q]
      /\ \A m \in 1 .. Len(Rows(t)) : \E r \in 1 .. N : \E i \in 1 .. L[r] : m = off[r - 1] + i
      /\ \A r \in 1 .. N : \A i \in 1 .. L[r] : Rows(t)[off[r - 1] + i] = t[r].rows[i]
  BY <1>1 DEF Placed
<1>3. PICK r \in 1 .. N : \E i \in 1 .. L[r] : k = off[r - 1] + i
  BY <1>2
<1>4. PICK i \in 1 .. L[r] : k = off[r - 1] + i
  BY <1>3
<1>5. PICK q \in 1 .. N : \E j \in 1 .. L[q] : l = off[q - 1] + j
  BY <1>2
<1>6. PICK j \in 1 .. L[q] : l = off[q - 1] + j
  BY <1>5
<1>7. Rows(t)[k] = t[r].rows[i] /\ Rows(t)[l] = t[q].rows[j]
  BY <1>2, <1>4, <1>6
<1>8. /\ r \in DOMAIN t /\ q \in DOMAIN t /\ t[q].ts \in Nat
      /\ i \in DOMAIN t[r].rows /\ j \in DOMAIN t[q].rows
      /\ t[r].rows[i].ts \in Nat /\ t[q].rows[j].ts \in Nat
  BY <1>0, <1>2, RunTyped
<1>9. PICK x \in Nat, y \in Nat, z \in Nat : x = t[r].rows[i].ts /\ y = t[q].rows[j].ts /\ z = t[q].ts
  BY <1>8
<1>10. /\ r = q /\ i < j => x < y
       /\ r < q => x < z
       /\ z < y
  BY <1>8, <1>9 DEF Ordered
<1>11. r = q /\ i = j => x = y
  BY <1>9
<1>12. /\ off[q - 1] \in Nat /\ off[q] \in Nat /\ off[r - 1] \in Nat
       /\ off[q] = off[q - 1] + L[q] /\ L[q] \in Nat
  <2>1. q - 1 \in 0 .. N /\ q \in 0 .. N /\ r - 1 \in 0 .. N
    OBVIOUS
  <2> QED BY <1>2, <2>1
<1>13. PICK a \in Nat, b \in Nat, c \in Nat, m \in Nat :
          a = off[r - 1] /\ b = off[q - 1] /\ c = off[q] /\ m = L[q]
  BY <1>12
<1>14. k = a + i /\ l = b + j /\ c = b + m /\ j <= m /\ i \in Nat /\ j \in Nat /\ 0 < i
  <2>1. i \in Nat /\ 0 < i
    <3>1. L[r] \in Nat
      BY <1>2
    <3> QED BY <3>1
  <2>2. j \in 1 .. m
    BY <1>13
  <2> QED BY <1>4, <1>6, <1>12, <1>13, <2>1, <2>2
<1>15. ASSUME r = q PROVE i <= j
  <2>1. a = b /\ a + i <= b + j
    BY <1>13, <1>14, <1>15
  <2> QED BY <1>14, <2>1
<1>16. ~(q < r)
  <2> SUFFICES ASSUME q < r PROVE FALSE
    OBVIOUS
  <2>1. q \in 0 .. N /\ r - 1 \in 0 .. N /\ q <= r - 1
    OBVIOUS
  <2>2. c <= a
    BY <1>2, <1>13, <2>1
  <2> QED BY <1>14, <2>2
<1>17. x <= y
  <2>1. r = q \/ r < q
    BY <1>16
  <2>2. i \in Nat /\ j \in Nat
    BY <1>14
  <2>3. CASE r = q
    BY <1>10, <1>11, <1>15, <2>2, <2>3
  <2>4. CASE r < q
    BY <1>10, <2>4
  <2> QED BY <2>1, <2>3, <2>4
<1> QED BY <1>7, <1>9, <1>17

LEMMA RowsByTimeAre ==
  ASSUME NEW t \in Seq(Run), NEW last \in Nat, Ordered(t, last)
  PROVE  RowsByTime(t) = Rows(t)
<1> DEFINE rows == Rows(t)
           n == Len(rows)
<1>1. rows \in Seq(Row) /\ n \in Nat /\ \A k \in 1 .. n : rows[k] \in Row
  <2>1. rows \in Seq(Row)
    BY RowsTyped
  <2> HIDE DEF rows
  <2> QED BY <2>1
<1>2. PICK acc : Sorts(acc, rows) /\ RowsByTime(t) = acc[n]
  BY <1>1, RowsByTimeSorts
<1>3. \A k, l \in 1 .. n : k <= l => rows[k].ts <= rows[l].ts
  BY RowsInOrder
<1> HIDE DEF rows, n
<1> DEFINE T == {k \in 0 .. n : Len(acc[k]) = k /\ \A i \in 1 .. k : acc[k][i] = rows[i]}
<1>4. \A k \in 0 .. n : acc[k] \in Seq(Row)
  BY <1>2 DEF Sorts, n
<1>5. 0 \in T
  BY <1>1, <1>2 DEF Sorts
<1>6. ASSUME NEW k \in 1 .. n, k - 1 \in T PROVE k \in T
  <2>1. acc[k] = Insert(acc[k - 1], rows[k]) /\ k - 1 \in 0 .. n /\ k \in 0 .. n
    BY <1>1, <1>2 DEF Sorts, n
  <2>2. \A i \in 1 .. Len(acc[k - 1]) : acc[k - 1][i].ts <= rows[k].ts
    <3> TAKE i \in 1 .. Len(acc[k - 1])
    <3>1. i \in 1 .. k - 1 /\ i \in 1 .. n /\ i <= k
      BY <1>1, <1>6
    <3> QED BY <1>3, <1>6, <3>1
  <2>3. acc[k] = Append(acc[k - 1], rows[k])
    BY <1>1, <1>4, <2>1, <2>2, InsertRow
  <2>4. acc[k - 1] \in Seq(Row) /\ rows[k] \in Row /\ Len(acc[k - 1]) = k - 1
    BY <1>1, <1>4, <1>6, <2>1
  <2>5. /\ Len(Append(acc[k - 1], rows[k])) = (k - 1) + 1
        /\ \A i \in 1 .. k - 1 : Append(acc[k - 1], rows[k])[i] = acc[k - 1][i]
        /\ Append(acc[k - 1], rows[k])[(k - 1) + 1] = rows[k]
    BY <1>1, <2>4
  <2>6. (k - 1) + 1 = k /\ \A i \in 1 .. k : i \in 1 .. k - 1 \/ i = k
    BY <1>1
  <2>7. \A i \in 1 .. k - 1 : acc[k - 1][i] = rows[i]
    BY <1>6
  <2> QED BY <2>1, <2>3, <2>5, <2>6, <2>7
<1>7. 0 .. n \subseteq T
  <2> HIDE DEF T
  <2> QED BY <1>1, <1>5, <1>6, UpTo
<1>8. n \in T
  BY <1>1, <1>7
<1>9. acc[n] \in Seq(Row) /\ Len(acc[n]) = n /\ \A i \in 1 .. n : acc[n][i] = rows[i]
  BY <1>1, <1>4, <1>8
<1>10. acc[n] = rows
  BY <1>1, <1>9, SeqEqual DEF n
<1> QED BY <1>2, <1>10 DEF rows

-----------------------------------------------------------------------------
(* What the loop makes of the uses of a file. *)

\* What the use of a file tells of the modes of its rows, S.
Tells(use, mode, S) ==
  /\ use \in Usage
  /\ use = "none" => \A j \in S : mode[j] = "stat"
  /\ use = "written" => \E j \in S : mode[j] = "write" /\ \A i \in S : i < j => mode[i] = "stat"
  /\ use = "read" => (\E j \in S : mode[j] \notin {"stat", "write"}) /\ \A j \in S : mode[j] # "write"
  /\ use = "read then written" =>
       /\ \E j \in S : mode[j] = "write"
       /\ \E j \in S : mode[j] \notin {"stat", "write"} /\ \A i \in S : i < j => mode[i] = "stat"

LEMMA TellsNext ==
  ASSUME NEW use, NEW mode, NEW S \in SUBSET Nat, NEW k \in Nat, \A j \in S : j < k,
         mode[k] \in Modes, Tells(use, mode, S)
  PROVE  Tells(Used(use, mode[k]), mode, S \cup {k})
<1> DEFINE T == S \cup {k}
<1>0. use \in Usage /\ k \in T /\ S \subseteq T /\ \A j \in T : j \in S \/ j = k
  BY DEF Tells
<1>a. \A j \in S : j < k /\ j \in Nat
  OBVIOUS
<1> HIDE DEF T
<1>b. ~(k < k) /\ \A j \in S : ~(k < j)
  BY <1>a
<1>1. CASE use = "none"
  <2>1. \A j \in S : mode[j] = "stat"
    BY <1>1 DEF Tells
  <2>2. CASE mode[k] = "stat"
    BY <1>0, <1>1, <2>1, <2>2 DEF Tells, Used, Usage
  <2>3. CASE mode[k] = "write"
    <3>1. Used(use, mode[k]) = "written"
      BY <1>1, <2>3 DEF Used, Written
    <3>2. \A i \in T : i < k => mode[i] = "stat"
      BY <1>0, <1>b, <2>1
    <3> QED BY <1>0, <2>3, <3>1, <3>2 DEF Tells, Usage, T
  <2>4. CASE mode[k] \in {"exec", "read"}
    <3>1. Used(use, mode[k]) = "read"
      BY <1>1, <2>4 DEF Used, Read
    <3>2. \A i \in T : mode[i] # "write"
      BY <1>0, <2>1, <2>4
    <3> QED BY <1>0, <2>4, <3>1, <3>2 DEF Tells, Usage, T
  <2> QED BY <2>2, <2>3, <2>4 DEF Modes
<1>2. CASE use = "written"
  <2>1. Used(use, mode[k]) = "written"
    BY <1>2 DEF Used, Read, Written
  <2>2. PICK j \in S : mode[j] = "write" /\ \A i \in S : i < j => mode[i] = "stat"
    BY <1>2 DEF Tells
  <2>3. \A i \in T : i < j => mode[i] = "stat"
    BY <1>0, <1>b, <2>2
  <2> QED BY <1>0, <2>1, <2>2, <2>3 DEF Tells, Usage, T
<1>3. CASE use = "read"
  <2>1. (\E j \in S : mode[j] \notin {"stat", "write"}) /\ \A j \in S : mode[j] # "write"
    BY <1>3 DEF Tells
  <2>2. CASE mode[k] # "write"
    <3>1. Used(use, mode[k]) = "read"
      BY <1>3, <2>2 DEF Used, Read
    <3>2. (\E j \in T : mode[j] \notin {"stat", "write"}) /\ \A j \in T : mode[j] # "write"
      BY <1>0, <2>1, <2>2
    <3> QED BY <3>1, <3>2 DEF Tells, Usage, T
  <2>3. CASE mode[k] = "write"
    <3>1. Used(use, mode[k]) = "read then written"
      BY <1>3, <2>3 DEF Used, Written
    <3> DEFINE rw == {j \in S : mode[j] # "stat"}
    <3>2. rw \in SUBSET Nat /\ rw # {}
      BY <2>1
    <3>3. PICK j \in rw : \A i \in rw : j <= i
      BY <3>2, LeastOf
    <3>4. j \in S /\ mode[j] # "stat" /\ mode[j] # "write" /\ \A i \in S : i < j => mode[i] = "stat"
      BY <1>a, <2>1, <3>3
    <3>5. j \in T /\ mode[j] # "stat" /\ mode[j] # "write" /\ \A i \in T : i < j => mode[i] = "stat"
      BY <1>0, <1>b, <3>4
    <3> QED BY <1>0, <2>3, <3>1, <3>5 DEF Tells, Usage, T
  <2> QED BY <2>2, <2>3
<1>4. CASE use = "read then written"
  <2>1. Used(use, mode[k]) = "read then written"
    BY <1>4 DEF Used, Read, Written
  <2>2. PICK j \in S : mode[j] \notin {"stat", "write"} /\ \A i \in S : i < j => mode[i] = "stat"
    BY <1>4 DEF Tells
  <2>3. \A i \in T : i < j => mode[i] = "stat"
    BY <1>0, <1>b, <2>2
  <2>4. \E i \in T : mode[i] = "write"
    BY <1>0, <1>4 DEF Tells
  <2> QED BY <1>0, <2>1, <2>2, <2>3, <2>4 DEF Tells, Usage, T
<1> QED BY <1>0, <1>1, <1>2, <1>3, <1>4 DEF Usage

\* A turn of the loop, field by field.
Turn(a, s, row, d, k, r, executed) ==
  /\ a.starts = SubSeq(s.starts, k + 1, Len(s.starts)) /\ a.run = r
  /\ a.seen = s.seen \cup {row.file} /\ a.executed = executed
  /\ a.what = [s.what EXCEPT ![row.file] = Used(s.what[row.file], row.mode)]
  /\ a.runs = [s.runs EXCEPT ![r][row.file] = Used(s.runs[r][row.file], row.mode)]
  /\ a.access_files = [s.access_files EXCEPT ![r] =
                          s.access_files[r] \cup ({row.file} \cap (d \ executed))]

LEMMA AccountIs ==
  ASSUME NEW s, NEW row, NEW d, NEW a, a = Account(s, row, d)
  PROVE  Turn(a, s, row, d, Passed(s.starts, row.ts), s.run + Passed(s.starts, row.ts),
              IF row.mode = "exec" THEN s.executed \cup {row.file} ELSE s.executed)
<1> DEFINE k == Passed(s.starts, row.ts)
           r == s.run + k
           executed == IF row.mode = "exec" THEN s.executed \cup {row.file} ELSE s.executed
           what == [s.what EXCEPT ![row.file] = Used(s.what[row.file], row.mode)]
           runs == [s.runs EXCEPT ![r][row.file] = Used(s.runs[r][row.file], row.mode)]
           access == [s.access_files EXCEPT ![r] = s.access_files[r] \cup ({row.file} \cap (d \ executed))]
           starts == SubSeq(s.starts, k + 1, Len(s.starts))
           seen == s.seen \cup {row.file}
<1>1. a = [starts |-> starts, run |-> r, seen |-> seen, executed |-> executed, what |-> what,
           runs |-> runs, access_files |-> access]
  BY DEF Account
<1> HIDE DEF what, runs, access, starts, seen, executed, r
<1>2. /\ a.starts = starts /\ a.run = r /\ a.seen = seen /\ a.executed = executed /\ a.what = what
      /\ a.runs = runs /\ a.access_files = access
  BY <1>1
<1> QED BY <1>2, Zenon DEF Turn, what, runs, access, starts, seen, executed, r

\* What each file was used for, by all the runs.
Told(a, rows, n, f) ==
  /\ Tells(a.what[f], [j \in 1 .. n |-> rows[j].mode], {j \in 1 .. n : rows[j].file = f})
  /\ (\E j \in 1 .. n : rows[j].file = f) => f \in a.seen

LEMMA WhatTold ==
  ASSUME NEW t \in Seq(Run), NEW d \in SUBSET Files, NEW rows, rows = RowsByTime(t),
         NEW n \in Nat, n = Len(rows), NEW f \in Files
  PROVE  Told(Accounted(t, d), rows, n, f)
<1> DEFINE mode == [j \in 1 .. n |-> rows[j].mode]
           Of(k) == {j \in 1 .. k : rows[j].file = f}
<1>1. PICK acc : Accounts(acc, t, d) /\ Accounted(t, d) = acc[n]
  BY AccountedTurns
<1>2. /\ \A k \in 0 .. n : acc[k] \in Accountings(Len(t))
      /\ acc[0] = Unused(t)
      /\ \A k \in 1 .. n : acc[k] = Account(acc[k - 1], rows[k], d)
  BY <1>1 DEF Accounts
<1>3. \A k \in 1 .. n : rows[k].file \in Files /\ rows[k].mode \in Modes
  <2>1. rows \in Seq(Row)
    BY RowsByTimeTyped
  <2>2. \A k \in 1 .. n : rows[k] \in Row
    BY <2>1
  <2> QED BY <2>2 DEF Row
<1>4. \A k \in 1 .. n : mode[k] \in Modes /\ mode[k] = rows[k].mode
  BY <1>3
<1> HIDE DEF mode
<1> DEFINE T == {k \in 0 .. n : Tells(acc[k].what[f], mode, Of(k))
                              /\ \A j \in 1 .. k : rows[j].file = f => f \in acc[k].seen}
<1>5. 0 \in T
  <2>1. acc[0].what[f] = "none"
    BY <1>2 DEF Unused
  <2>2. Of(0) = {}
    OBVIOUS
  <2> HIDE DEF Of
  <2>3. Tells(acc[0].what[f], mode, Of(0))
    BY <2>1, <2>2 DEF Tells, Usage
  <2>4. 0 \in 0 .. n /\ \A j \in 1 .. 0 : FALSE
    OBVIOUS
  <2> QED BY <2>3, <2>4
<1>6. ASSUME NEW k \in 1 .. n, k - 1 \in T PROVE k \in T
  <2>1. /\ k - 1 \in 0 .. n /\ k \in 0 .. n /\ acc[k] = Account(acc[k - 1], rows[k], d)
        /\ acc[k - 1] \in Accountings(Len(t))
    BY <1>2
  <2>2. /\ acc[k].what = [acc[k - 1].what EXCEPT ![rows[k].file] = Used(@, rows[k].mode)]
        /\ acc[k].seen = acc[k - 1].seen \cup {rows[k].file}
    <3>1. PICK s, row, a : s = acc[k - 1] /\ row = rows[k] /\ a = acc[k]
      OBVIOUS
    <3>2. a = Account(s, row, d)
      BY <2>1, <3>1
    <3>3. Turn(a, s, row, d, Passed(s.starts, row.ts), s.run + Passed(s.starts, row.ts),
               IF row.mode = "exec" THEN s.executed \cup {row.file} ELSE s.executed)
      BY <3>2, AccountIs, Zenon
    <3>4. a.what = [s.what EXCEPT ![row.file] = Used(s.what[row.file], row.mode)]
          /\ a.seen = s.seen \cup {row.file}
      BY <3>3, Zenon DEF Turn
    <3> QED BY <3>1, <3>4, Zenon
  <2>3. acc[k - 1].what \in [Files -> Usage]
    BY <2>1 DEF Accountings
  <2>4. Tells(acc[k].what[f], mode, Of(k))
    <3>1. CASE rows[k].file = f
      <4>1. acc[k].what[f] = Used(acc[k - 1].what[f], mode[k])
        BY <1>4, <2>2, <2>3, <3>1
      <4>2. Of(k) = Of(k - 1) \cup {k}
        BY <3>1
      <4>3. Of(k - 1) \in SUBSET Nat /\ (\A j \in Of(k - 1) : j < k) /\ k \in Nat
        OBVIOUS
      <4>4. Tells(acc[k - 1].what[f], mode, Of(k - 1))
        BY <1>6
      <4>5. PICK S \in SUBSET Nat, m \in Nat : S = Of(k - 1) /\ m = k
        BY <4>3, Zenon
      <4> HIDE DEF Of
      <4>6. Tells(Used(acc[k - 1].what[f], mode[m]), mode, S \cup {m})
        BY <1>4, <4>3, <4>4, <4>5, TellsNext
      <4> QED BY <4>1, <4>2, <4>5, <4>6
    <3>2. CASE rows[k].file # f
      <4>1. acc[k].what[f] = acc[k - 1].what[f]
        BY <2>2, <2>3, <3>2
      <4>2. Of(k) = Of(k - 1)
        BY <3>2
      <4> HIDE DEF Of
      <4> QED BY <1>6, <4>1, <4>2
    <3> QED BY <3>1, <3>2
  <2>5. ASSUME NEW j \in 1 .. k, rows[j].file = f PROVE f \in acc[k].seen
    <3>1. CASE j = k
      BY <2>2, <2>5, <3>1
    <3>2. CASE j # k
      <4>1. j \in 1 .. k - 1
        BY <3>2
      <4> QED BY <1>6, <2>2, <2>5, <4>1
    <3> QED BY <3>1, <3>2
  <2> QED BY <2>1, <2>4, <2>5
<1>7. n \in T
  <2> HIDE DEF T
  <2>1. 0 .. n \subseteq T
    BY <1>5, <1>6, UpTo
  <2> QED BY <2>1
<1> QED BY <1>1, <1>7 DEF Told, mode

\* What the runs used before they wrote it is packed.
Needed(t) == {f \in Files \ Magic : FirstUse(t, f) \in {"exec", "read", "stat"}}

LEMMA NeededFound ==
  ASSUME NEW t \in Seq(Run), NEW d \in SUBSET Files, NEW last \in Nat, Ordered(t, last)
  PROVE  Needed(t) \subseteq get_files(t, d).files
<1> SUFFICES ASSUME NEW f \in Needed(t) PROVE f \in get_files(t, d).files
  OBVIOUS
<1>1. f \in Files /\ f \notin Magic /\ FirstUse(t, f) \in {"exec", "read", "stat"}
  BY DEF Needed
<1>2. PICK rows : rows = RowsByTime(t)
  OBVIOUS
<1>3. rows = Rows(t) /\ rows \in Seq(Row)
  BY <1>2, RowsByTimeAre, RowsByTimeTyped
<1>4. PICK n \in Nat : n = Len(rows) /\ DOMAIN rows = 1 .. n
  BY <1>3
<1> DEFINE S == {j \in 1 .. n : rows[j].file = f}
           mode == [j \in 1 .. n |-> rows[j].mode]
           rw == {i \in S : rows[i].mode # "stat"}
<1>5. S = Uses(rows, f)
  BY <1>4 DEF Uses
<1>6. FirstUse(t, f) = IF rw # {} THEN rows[Min(rw)].mode ELSE IF S # {} THEN "stat" ELSE "none"
  BY <1>3, <1>5 DEF FirstUse
<1>7. /\ Tells(Accounted(t, d).what[f], mode, S)
      /\ (\E j \in 1 .. n : rows[j].file = f) => f \in Accounted(t, d).seen
  <2>1. Told(Accounted(t, d), rows, n, f)
    BY <1>1, <1>2, <1>4, WhatTold
  <2> QED BY <2>1 DEF Told
<1>8. \A j \in S : j \in Nat /\ mode[j] = rows[j].mode
  OBVIOUS
<1> HIDE DEF mode
<1>9. f \in Accounted(t, d).seen
  <2>1. S # {}
    BY <1>1, <1>6
  <2> QED BY <1>7, <2>1
<1>10. Accounted(t, d).what[f] # "written"
  <2> SUFFICES ASSUME Accounted(t, d).what[f] = "written" PROVE FALSE
    OBVIOUS
  <2>1. PICK j \in S : mode[j] = "write" /\ \A i \in S : i < j => mode[i] = "stat"
    BY <1>7 DEF Tells
  <2>2. rw \in SUBSET Nat /\ j \in rw /\ \A i \in rw : j <= i
    BY <1>8, <2>1
  <2>3. Min(rw) = j /\ rw # {}
    BY <2>2, MinIs
  <2>4. FirstUse(t, f) = "write"
    BY <1>6, <1>8, <2>1, <2>3
  <2> QED BY <1>1, <2>4
<1>11. get_files(t, d).files = {g \in Accounted(t, d).seen : Accounted(t, d).what[g] # "written"} \ Magic
  BY FilesGot
<1> QED BY <1>1, <1>9, <1>10, <1>11

-----------------------------------------------------------------------------
(* A pack made from a configuration as it was written holds what the runs   *)
(* needed.                                                                  *)

NoReboot == "reboot" \notin gaps
TimeInv  == schema = "tracer" /\ NoReboot => Ordered(trace, clock)

LEMMA OrderedAppended ==
  ASSUME NEW t \in Seq(Run), NEW last \in Nat, Ordered(t, last), NEW run \in Run, NEW n \in Nat,
         run.ts = last + 1, Len(run.rows) = n, \A i \in 1 .. n : run.rows[i].ts = last + 1 + i
  PROVE  Ordered(Append(t, run), last + 1 + n)
<1> DEFINE u == Append(t, run)
           m == Len(t)
<1>1. /\ m \in Nat /\ DOMAIN t = 1 .. m /\ DOMAIN u = 1 .. m + 1 /\ u \in Seq(Run)
      /\ (\A r \in 1 .. m : u[r] = t[r]) /\ u[m + 1] = run
  OBVIOUS
<1> HIDE DEF u, m
<1>2. \A r \in 1 .. m + 1 : r \in 1 .. m \/ r = m + 1
  BY <1>1
<1>3. \A r \in 1 .. m : /\ t[r].ts \in Nat /\ DOMAIN t[r].rows = 1 .. Len(t[r].rows)
                        /\ \A i \in DOMAIN t[r].rows : t[r].rows[i].ts \in Nat
  BY RunTyped DEF m
<1>4. run.rows \in Seq(Row) /\ DOMAIN run.rows = 1 .. n
  <2>1. run.rows \in Seq(Row)
    BY DEF Run
  <2> QED BY <2>1
<1>5. ASSUME NEW r \in DOMAIN u
      PROVE  /\ u[r].ts <= last + 1 + n
             /\ \A i \in DOMAIN u[r].rows : u[r].ts < u[r].rows[i].ts /\ u[r].rows[i].ts <= last + 1 + n
             /\ \A i \in DOMAIN u[r].rows : \A j \in DOMAIN u[r].rows :
                   i < j => u[r].rows[i].ts < u[r].rows[j].ts
  <2>1. CASE r = m + 1
    <3>1. u[r] = run
      BY <1>1, <2>1
    <3>2. run.ts <= last + 1 + n
      OBVIOUS
    <3>3. \A i \in 1 .. n : run.ts < run.rows[i].ts /\ run.rows[i].ts <= last + 1 + n
      OBVIOUS
    <3>4. \A i \in 1 .. n : \A j \in 1 .. n : i < j => run.rows[i].ts < run.rows[j].ts
      OBVIOUS
    <3> QED BY <1>4, <3>1, <3>2, <3>3, <3>4
  <2>2. CASE r \in 1 .. m
    <3>1. u[r] = t[r] /\ r \in DOMAIN t
      BY <1>1, <2>2
    <3>2. /\ t[r].ts <= last
          /\ \A i \in DOMAIN t[r].rows : t[r].ts < t[r].rows[i].ts /\ t[r].rows[i].ts <= last
          /\ \A i \in DOMAIN t[r].rows : \A j \in DOMAIN t[r].rows :
                i < j => t[r].rows[i].ts < t[r].rows[j].ts
      BY <3>1 DEF Ordered
    <3>3. \A x \in Nat : x <= last => x <= last + 1 + n
      OBVIOUS
    <3>4. t[r].ts <= last + 1 + n /\ \A i \in DOMAIN t[r].rows : t[r].rows[i].ts <= last + 1 + n
      BY <1>3, <2>2, <3>2, <3>3
    <3> QED BY <3>1, <3>2, <3>4
  <2> QED BY <1>1, <1>2, <2>1, <2>2
<1>6. ASSUME NEW r \in DOMAIN u, NEW q \in DOMAIN u, r < q
      PROVE  u[r].ts < u[q].ts /\ \A i \in DOMAIN u[r].rows : u[r].rows[i].ts < u[q].ts
  <2>1. r \in 1 .. m /\ r \in DOMAIN t /\ u[r] = t[r]
    BY <1>1, <1>6
  <2>2. CASE q = m + 1
    <3>1. u[q].ts = last + 1
      BY <1>1, <2>2
    <3>2. t[r].ts <= last /\ \A i \in DOMAIN t[r].rows : t[r].rows[i].ts <= last
      BY <2>1 DEF Ordered
    <3>3. \A x \in Nat : x <= last => x < last + 1
      OBVIOUS
    <3> QED BY <1>3, <2>1, <3>1, <3>2, <3>3
  <2>3. CASE q \in 1 .. m
    <3>1. u[q] = t[q] /\ q \in DOMAIN t
      BY <1>1, <2>3
    <3> QED BY <1>6, <2>1, <3>1 DEF Ordered
  <2> QED BY <1>1, <1>2, <2>2, <2>3
<1> QED BY <1>5, <1>6 DEF Ordered, u

LEMMA OrderedEmpty == \A last : Ordered(<<>>, last)
BY DEF Ordered

LEMMA TimeStep == TypeInv /\ TimeInv /\ [Next]_vars => TimeInv'
<1> SUFFICES ASSUME TypeInv, TimeInv, [Next]_vars, (schema = "tracer")', NoReboot'
             PROVE  Ordered(trace', clock')
  BY DEF TimeInv
<1>0. trace \in Seq(Run) /\ clock \in Nat
  BY DEF TypeInv, TypeOK
<1>1. CASE UNCHANGED <<trace, clock, schema>> /\ (NoReboot' => NoReboot)
  BY <1>1 DEF TimeInv
<1>2. CASE Trace
  <2>1. CASE UNCHANGED <<trace, schema, gaps>>
    <3>1. clock' = clock
      BY <1>2, <2>1 DEF Trace
    <3> QED BY <1>1, <2>1, <3>1 DEF NoReboot
  <2>2. CASE trace' = <<>>
    BY <2>2, OrderedEmpty
  <2> QED BY <1>2, <2>1, <2>2 DEF Trace
<1>3. CASE TracerCommits
  <2>1. PICK program \in Programs \cup {<<>>} :
          trace' = Append(trace, Recorded(program)) /\ clock' = clock + 1 + Len(program)
    BY <1>3 DEF TracerCommits
  <2>2. UNCHANGED <<schema, gaps>>
    BY <1>3 DEF TracerCommits
  <2>3. Recorded(program) \in Run /\ Len(program) \in Nat
    BY RunRecorded DEF TypeInv
  <2>4. program \in Seq(Access)
    <3>1. Programs \subseteq Seq(Access) /\ <<>> \in Seq(Access)
      BY PackingAssumption
    <3> QED BY <3>1
  <2>5. Recorded(program).ts = clock + 1 /\ Len(Recorded(program).rows) = Len(program)
        /\ \A i \in 1 .. Len(program) : Recorded(program).rows[i].ts = clock + 1 + i
    <3> DEFINE rows == [i \in DOMAIN program |->
                          [file |-> program[i].file, mode |-> program[i].mode, ts |-> clock + 1 + i]]
               n == Len(program)
    <3>1. n \in Nat /\ DOMAIN program = 1 .. n
      BY <2>4
    <3>2. Recorded(program) = [ts |-> clock + 1, rows |-> rows]
      BY DEF Recorded
    <3>3. \A i \in 1 .. n : rows[i].ts = clock + 1 + i
      BY <3>1
    <3>4. Recorded(program).rows = rows /\ DOMAIN rows = 1 .. n
      BY <3>1, <3>2
    <3>5. rows \in Seq(Row)
      BY <2>3, <3>4 DEF Run
    <3> HIDE DEF rows, n
    <3>6. Len(rows) = n
      BY <3>1, <3>4, <3>5
    <3> QED BY <3>2, <3>3, <3>4, <3>6 DEF n
  <2>6. Ordered(trace, clock)
    BY <2>2 DEF TimeInv, NoReboot
  <2>7. PICK n \in Nat, run \in Run : n = Len(program) /\ run = Recorded(program)
    BY <2>3
  <2>8. Ordered(Append(trace, run), clock + 1 + n)
    BY <1>0, <2>5, <2>6, <2>7, OrderedAppended
  <2> QED BY <2>1, <2>7, <2>8
<1>4. CASE Combine
  BY <1>4 DEF Combine
<1>5. CASE Reboot
  <2>1. trace = <<>> /\ UNCHANGED trace
    BY <1>5 DEF Reboot, NoReboot
  <2> QED BY <2>1, OrderedEmpty
<1>6. CASE ~(Trace \/ TracerCommits \/ Combine \/ Reboot)
  <2>1. UNCHANGED <<trace, clock, schema>> /\ (NoReboot' => NoReboot)
    BY <1>6 DEF Next, TracerFails, Configure, Save, Reset, PackStarts, PackAdds, PackEnds, PackFails,
                EditConfig, RemoveFile, RemovePack, Kill, vars, NoReboot
  <2> QED BY <1>1, <2>1
<1> QED BY <1>2, <1>3, <1>4, <1>5, <1>6

\* The configuration never counts more runs than the trace, and is of the trace
\* as it is only when it counts as many.
Counted ==
  /\ config.exists => Len(config.runs) <= Len(trace)
  /\ pc = "configuring" /\ ~loc.overwrite /\ config.exists => Len(config.runs) < Len(trace)
  /\ pc = "saving" => Len(loc.config.runs) <= Len(trace)

Whole(c) == c.asWritten /\ Len(c.runs) = Len(trace) /\ NoReboot

\* What lists, or holds, what the runs needed.
CompleteInv ==
  /\ config.exists /\ Whole(config) => Needed(trace) \subseteq Listed(config)
  /\ pc = "saving" /\ Whole(loc.config) => Needed(trace) \subseteq Listed(loc.config)
  /\ pc = "packing" /\ Whole(loc) => Needed(trace) \subseteq Listed(loc)
  /\ pc = "packed data" /\ Whole(loc.config) => Needed(trace) \cap loc.disk \subseteq loc.data
  /\ PackComplete

LEMMA RunsCounted ==
  ASSUME trace \in Seq(Run), config \in Config \cup {NoConfig}, NEW overwrite,
         overwrite \/ ~config.exists \/ Len(config.runs) < Len(trace)
  PROVE  Len(Runs(overwrite)) <= Len(trace)
<1>1. Executions \in Seq(1 .. Len(trace)) /\ Len(Executions) <= Len(trace) /\ Len(trace) \in Nat
  BY ExecutionsAre
<1>2. CASE overwrite \/ ~config.exists
  BY <1>1, <1>2 DEF Runs
<1>3. CASE ~(overwrite \/ ~config.exists)
  <2>1. config \in Config
    BY <1>3, LoadedTyped
  <2>2. config.runs \in Seq(1 .. MaxRuns) /\ Len(config.runs) < Len(trace)
    BY <1>3, <2>1 DEF Config
  <2>3. LastExecution \in Seq({Last(Executions)}) /\ Len(LastExecution) <= 1 /\ Len(LastExecution) \in Nat
    <3>1. CASE Executions = <<>>
      BY <3>1 DEF LastExecution
    <3>2. CASE Executions # <<>>
      BY <3>2 DEF LastExecution
    <3> QED BY <3>1, <3>2
  <2>4. Len(config.runs \o LastExecution) = Len(config.runs) + Len(LastExecution) /\ Len(config.runs) \in Nat
    <3> DEFINE A == 1 .. MaxRuns
               B == {Last(Executions)}
               S == A \cup B
    <3>1. config.runs \in Seq(A) /\ LastExecution \in Seq(B) /\ A \subseteq S /\ B \subseteq S
      BY <2>2, <2>3
    <3> HIDE DEF A, B, S
    <3>2. config.runs \in Seq(S)
      BY <3>1, SeqMonotonic
    <3>3. LastExecution \in Seq(S)
      BY <3>1, SeqMonotonic
    <3> QED BY <3>2, <3>3, ConcatProperties, LenProperties
  <2>5. Runs(overwrite) = config.runs \o LastExecution
    BY <1>3 DEF Runs
  <2>6. \A a, b, c \in Nat : a < c /\ b <= 1 => a + b <= c
    OBVIOUS
  <2> QED BY <1>1, <2>2, <2>3, <2>4, <2>5, <2>6
<1> QED BY <1>2, <1>3

LEMMA CountedStep == TypeInv /\ RunsInv /\ Counted /\ [Next]_vars => Counted'
<1> SUFFICES ASSUME TypeInv, RunsInv, Counted, [Next]_vars PROVE Counted'
  OBVIOUS
<1>0. trace \in Seq(Run) /\ Len(trace) \in Nat /\ config \in Config \cup {NoConfig}
  <2>1. trace \in Seq(Run) /\ config \in Config \cup {NoConfig}
    BY DEF TypeInv, TypeOK
  <2> QED BY <2>1
<1>a. ASSUME config'.exists => config.exists /\ config'.runs = config.runs, UNCHANGED trace,
             pc' \notin {"configuring", "saving"}
      PROVE  Counted'
  BY <1>a DEF Counted
<1>b. ~NoConfig.exists
  BY DEF NoConfig
<1>1. CASE UNCHANGED vars
  BY <1>1 DEF vars, Counted
<1>2. CASE Trace
  <2>1. pc' = "tracing"
    BY <1>2 DEF Trace, Step
  <2>2. CASE UNCHANGED <<trace, config>>
    BY <1>a, <2>1, <2>2
  <2>3. CASE config' = NoConfig
    BY <1>b, <2>1, <2>3 DEF Counted
  <2> QED BY <1>2, <2>2, <2>3 DEF Trace
<1>3. CASE TracerCommits
  <2>1. /\ pc = "tracing" /\ pc' = "configuring" /\ UNCHANGED config
        /\ \E program \in Programs \cup {<<>>} : trace' = Append(trace, Recorded(program))
    BY <1>3 DEF TracerCommits, Step
  <2>2. PICK program \in Programs \cup {<<>>} : trace' = Append(trace, Recorded(program))
    BY <2>1
  <2>3. Recorded(program) \in Run
    BY RunRecorded DEF TypeInv
  <2>4. Len(trace') = Len(trace) + 1
    BY <1>0, <2>2, <2>3
  <2>5. config.exists => Len(config.runs) \in Nat
    <3>1. config.exists => config.runs \in Seq(1 .. MaxRuns)
      BY <1>0, LoadedTyped DEF Config
    <3> QED BY <3>1
  <2>6. \A a, b \in Nat : a <= b => a < b + 1 /\ a <= b + 1
    OBVIOUS
  <2>7. config.exists => Len(config.runs) < Len(trace') /\ Len(config.runs) <= Len(trace')
    BY <1>0, <2>4, <2>5, <2>6 DEF Counted
  <2> QED BY <2>1, <2>7 DEF Counted
<1>4. CASE Configure
  <2>1. pc = "configuring" /\ UNCHANGED trace
    BY <1>4 DEF Configure
  <2>2. CASE UNCHANGED config /\ Return
    BY <1>a, <2>1, <2>2 DEF Return, Step
  <2>3. ASSUME NEW sort \in BOOLEAN, NEW all, NEW c, c = Configuration(loc.overwrite, sort),
               Step("saving", [all |-> all, config |-> c]), config' \in Torn(c)
        PROVE  Counted'
    <3>1. c.runs = Runs(loc.overwrite)
      BY <2>3, ConfigurationIs
    <3>2. Len(c.runs) <= Len(trace)
      BY <1>0, <2>1, <3>1, RunsCounted DEF Counted
    <3>3. config'.runs = c.runs \/ config'.runs = <<>>
      <4>1. c.exists /\ c = Configuration(loc.overwrite, sort)
        BY <2>3, ConfigurationIs
      <4>2. c = [exists |-> TRUE, valid |-> TRUE, asWritten |-> TRUE, runs |-> Runs(loc.overwrite),
                 files |-> Ident(sort).files, packages |-> Ident(sort).packages, packed |-> Packages,
                 patterns |-> {}, iofiles |-> DOMAIN Io(loc.overwrite), use |-> UseOf(loc.overwrite),
                 disk |-> disk]
        BY <2>3, ConfigurationIs
      <4> QED BY <2>3, <4>2 DEF Torn
    <3>4. Len(config'.runs) <= Len(trace)
      BY <1>0, <3>2, <3>3
    <3> QED BY <2>1, <2>3, <3>2, <3>4 DEF Counted, Step
  <2> QED BY <1>4, <2>2, <2>3 DEF Configure
<1>5. CASE Save
  <2>1. /\ pc = "saving" /\ pc' = "idle" /\ config' = loc.config /\ UNCHANGED trace
    BY <1>5 DEF Save, Return, Step
  <2> QED BY <2>1 DEF Counted
<1>6. CASE Reset
  <2>1. /\ UNCHANGED <<config, trace>> /\ pc' = "configuring" /\ loc' = [overwrite |-> TRUE]
    BY <1>6 DEF Reset, Step
  <2> QED BY <2>1 DEF Counted
<1>7. CASE Combine
  <2>1. PICK other \in Others : trace' \in {trace \o other, other \o trace}
    BY <1>7 DEF Combine
  <2>2. other \in Seq(Run)
    BY PackingAssumption
  <2>3. Len(trace') = Len(trace) + Len(other) /\ Len(other) \in Nat
    <3>1. /\ Len(trace \o other) = Len(trace) + Len(other)
          /\ Len(other \o trace) = Len(trace) + Len(other)
      BY <1>0, <2>2
    <3> QED BY <2>1, <2>2, <3>1
  <2>4. config.exists => Len(config.runs) \in Nat
    <3>1. config.exists => config.runs \in Seq(1 .. MaxRuns)
      BY <1>0, LoadedTyped DEF Config
    <3> QED BY <3>1
  <2>5. \A a, b, c \in Nat : a <= b => a <= b + c
    OBVIOUS
  <2>6. config.exists => Len(config.runs) <= Len(trace')
    BY <1>0, <2>3, <2>4, <2>5 DEF Counted
  <2>7. UNCHANGED config /\ pc' = "configuring" /\ loc' = [overwrite |-> TRUE]
    BY <1>7 DEF Combine, Step
  <2> QED BY <2>6, <2>7 DEF Counted
<1>8. CASE EditConfig
  <2>1. pc = "idle" /\ Loads(config) /\ UNCHANGED <<trace, pc>>
    BY <1>8 DEF EditConfig, Idle
  <2>2. config \in Config /\ config.exists
    BY <1>0, <2>1, LoadedTyped DEF Loads
  <2>3. config'.runs = config.runs
    BY <1>8, <2>2 DEF EditConfig, Config
  <2> QED BY <1>a, <2>1, <2>2, <2>3
<1>9. CASE TracerFails \/ PackStarts \/ PackAdds \/ PackEnds \/ PackFails \/ RemoveFile \/ RemovePack
           \/ Kill \/ Reboot
  <2>1. UNCHANGED <<config, trace>> /\ pc' \notin {"configuring", "saving"}
    BY <1>9 DEF TracerFails, PackStarts, PackAdds, PackEnds, PackFails, RemoveFile, RemovePack,
                Kill, Reboot, Idle, Step, Return
  <2> QED BY <1>a, <2>1
<1> QED BY <1>1, <1>2, <1>3, <1>4, <1>5, <1>6, <1>7, <1>8, <1>9 DEF Next

\* A configuration just computed lists what was needed, in a package or not.
LEMMA ConfigurationLists ==
  ASSUME TypeInv, TimeInv, schema = "tracer", NoReboot, NEW overwrite, NEW sort \in BOOLEAN
  PROVE  Needed(trace) \subseteq Listed(Configuration(overwrite, sort))
<1>1. trace \in Seq(Run) /\ disk \in SUBSET Files /\ clock \in Nat /\ Ordered(trace, clock)
  BY DEF TypeInv, TypeOK, TimeInv
<1>2. Needed(trace) \subseteq Found.files
  BY <1>1, NeededFound DEF Found
<1> DEFINE c == Configuration(overwrite, sort)
<1>3. c.files = Ident(sort).files /\ c.packages = Ident(sort).packages /\ c.packed = Packages
  BY ConfigurationIs
<1> HIDE DEF c
<1>4. Found.files \subseteq Listed(c)
  <2> SUFFICES ASSUME NEW f \in Found.files PROVE f \in Listed(c)
    OBVIOUS
  <2>1. f \in c.files \/ \E p \in Packages : f \in c.packages[p]
    <3>1. CASE ~sort
      BY <1>3, <3>1 DEF Ident
    <3>2. CASE sort
      <4> DEFINE Of(p) == {g \in Found.files \cap System : Claims[g] = {p}}
      <4>1. /\ c.files = Found.files \ UNION {Of(p) : p \in Packages}
            /\ c.packages = [p \in Packages |-> Of(p)]
        BY <1>3, <3>2 DEF Ident, identify_packages
      <4> HIDE DEF Of
      <4> QED BY <4>1
    <3> QED BY <3>1, <3>2
  <2> QED BY <1>3, <2>1 DEF Listed
<1> QED BY <1>2, <1>4 DEF c

LEMMA CanonicalLists ==
  ASSUME NEW c \in Config, disk \in SUBSET Files, NEW sort \in BOOLEAN
  PROVE  /\ Listed(c) \subseteq Listed(Canonical(c, sort))
         /\ Canonical(c, sort).asWritten = c.asWritten /\ Canonical(c, sort).runs = c.runs
<1> DEFINE add  == c.patterns \cap disk
           new  == IF sort THEN identify_packages(add)
                   ELSE [files |-> add, packages |-> [p \in Packages |-> {}]]
           both == combine_files(new, c)
           d    == Canonical(c, sort)
<1>1. /\ c.files \in SUBSET Files /\ c.packages \in [Packages -> SUBSET Files]
      /\ c.packed \in SUBSET Packages
  BY DEF Config
<1>2. d = [c EXCEPT !.files = both.files, !.packages = both.packages, !.patterns = {}]
  BY DEF Canonical
<1> HIDE DEF new, d
<1>3. both.files = c.files \cup new.files
      /\ both.packages = [p \in Packages |-> c.packages[p] \cup new.packages[p]]
  BY DEF combine_files
<1> HIDE DEF both
<1>4. /\ d.files = both.files /\ d.packages = both.packages /\ d.packed = c.packed
      /\ d.asWritten = c.asWritten /\ d.runs = c.runs
  BY <1>2 DEF Config
<1>5. \A p \in c.packed : c.packages[p] \subseteq d.packages[p]
  BY <1>1, <1>3, <1>4
<1>6. Listed(c) \subseteq Listed(d)
  BY <1>3, <1>4, <1>5 DEF Listed
<1> QED BY <1>4, <1>6 DEF d

LEMMA CompleteInit == Init => Counted /\ CompleteInv /\ TimeInv
<1> SUFFICES ASSUME Init PROVE Counted /\ CompleteInv /\ TimeInv
  OBVIOUS
<1>1. ~NoConfig.exists /\ ~NoPack.exists
  BY DEF NoConfig, NoPack
<1> QED BY <1>1, OrderedEmpty DEF Init, Counted, CompleteInv, TimeInv, PackComplete, Opens

LEMMA CompleteStep ==
  TypeInv /\ Counted /\ TimeInv /\ CompleteInv /\ [Next]_vars => CompleteInv'
<1> SUFFICES ASSUME TypeInv, Counted, TimeInv, CompleteInv, [Next]_vars PROVE CompleteInv'
  OBVIOUS
<1>0. /\ trace \in Seq(Run) /\ Len(trace) \in Nat /\ disk \in SUBSET Files
      /\ config \in Config \cup {NoConfig}
  <2>1. trace \in Seq(Run) /\ disk \in SUBSET Files /\ config \in Config \cup {NoConfig}
    BY DEF TypeInv, TypeOK
  <2> QED BY <2>1
<1>a. UNCHANGED target => PackComplete'
  BY DEF CompleteInv, PackComplete, Opens, RPZPack
<1>b. ~NoConfig.exists /\ ~Partial.done /\ ~NoPack.exists
  BY DEF NoConfig, Partial, NoPack
<1>c. ASSUME UNCHANGED <<trace, target>>, NoReboot' => NoReboot,
             pc' \notin {"saving", "packing", "packed data"},
             config' = config \/ ~config'.exists \/ ~config'.asWritten
      PROVE  CompleteInv'
  BY <1>a, <1>c DEF CompleteInv, Whole
<1>d. config.exists => Len(config.runs) \in Nat
  <2>1. config.exists => config.runs \in Seq(1 .. MaxRuns)
    BY <1>0, LoadedTyped DEF Config
  <2> QED BY <2>1
<1>1. CASE UNCHANGED vars
  BY <1>1, <1>a DEF vars, CompleteInv, Whole, NoReboot
<1>2. CASE Trace
  <2>1. pc' = "tracing" /\ UNCHANGED target
    BY <1>2 DEF Trace, Step
  <2>2. CASE UNCHANGED <<trace, config, gaps>>
    BY <1>c, <2>1, <2>2 DEF NoReboot
  <2>3. CASE config' = NoConfig
    BY <1>a, <1>b, <2>1, <2>3 DEF CompleteInv
  <2> QED BY <1>2, <2>2, <2>3 DEF Trace
<1>3. CASE TracerCommits
  <2>1. /\ pc = "tracing" /\ pc' = "configuring" /\ UNCHANGED <<config, target>>
        /\ \E program \in Programs \cup {<<>>} : trace' = Append(trace, Recorded(program))
    BY <1>3 DEF TracerCommits, Step
  <2>2. PICK program \in Programs \cup {<<>>} : trace' = Append(trace, Recorded(program))
    BY <2>1
  <2>3. Recorded(program) \in Run
    BY RunRecorded DEF TypeInv
  <2>4. Len(trace') = Len(trace) + 1
    BY <1>0, <2>2, <2>3
  <2>5. \A a, b \in Nat : a <= b => a # b + 1
    OBVIOUS
  <2>6. config'.exists => Len(config'.runs) # Len(trace')
    BY <1>0, <1>d, <2>1, <2>4, <2>5 DEF Counted
  <2> QED BY <1>a, <2>1, <2>6 DEF CompleteInv, Whole
<1>4. CASE Configure
  <2>1. pc = "configuring" /\ UNCHANGED <<trace, target>>
    BY <1>4 DEF Configure
  <2>2. CASE UNCHANGED config /\ Return /\ gaps' = gaps \cup {"killed"}
    <3>1. NoReboot' => NoReboot
      BY <2>2 DEF NoReboot
    <3>2. pc' = "idle"
      BY <2>2 DEF Return, Step
    <3> QED BY <1>c, <2>1, <2>2, <3>1, <3>2
  <2>3. ASSUME NEW sort \in BOOLEAN, NEW all, NEW c, c = Configuration(loc.overwrite, sort),
               schema = "tracer", UNCHANGED gaps,
               Step("saving", [all |-> all, config |-> c]), config' \in Torn(c)
        PROVE  CompleteInv'
    <3>1. ~config'.asWritten
      <4>1. c = [exists |-> TRUE, valid |-> TRUE, asWritten |-> TRUE, runs |-> Runs(loc.overwrite),
                 files |-> Ident(sort).files, packages |-> Ident(sort).packages, packed |-> Packages,
                 patterns |-> {}, iofiles |-> DOMAIN Io(loc.overwrite), use |-> UseOf(loc.overwrite),
                 disk |-> disk]
        BY <2>3, ConfigurationIs
      <4> QED BY <2>3, <4>1 DEF Torn
    <3>2. NoReboot => Needed(trace) \subseteq Listed(c)
      BY <2>3, ConfigurationLists
    <3>3. pc' = "saving" /\ loc'.config = c /\ (NoReboot' <=> NoReboot)
      BY <2>3 DEF Step, NoReboot
    <3>4. Whole(loc.config)' => Needed(trace') \subseteq Listed(loc'.config)
      BY <2>1, <3>2, <3>3 DEF Whole
    <3> QED BY <1>a, <2>1, <3>1, <3>3, <3>4 DEF CompleteInv, Whole
  <2> QED BY <1>4, <2>2, <2>3 DEF Configure
<1>5. CASE Save
  <2>1. /\ pc = "saving" /\ pc' = "idle" /\ config' = loc.config /\ UNCHANGED <<trace, target>>
        /\ NoReboot' => NoReboot
    BY <1>5 DEF Save, Return, Step, NoReboot
  <2> QED BY <1>a, <2>1 DEF CompleteInv, Whole
<1>6. CASE Reset
  <2>1. /\ UNCHANGED <<config, trace, target, gaps>> /\ pc' = "configuring"
    BY <1>6 DEF Reset, Step
  <2> QED BY <1>c, <2>1 DEF NoReboot
<1>7. CASE Combine
  <2>0. UNCHANGED <<config, target, gaps>> /\ pc' = "configuring"
    BY <1>7 DEF Combine, Step
  <2>1. PICK other \in Others : trace' \in {trace \o other, other \o trace}
    BY <1>7 DEF Combine
  <2>2. other \in Seq(Run)
    BY PackingAssumption
  <2>3. Len(trace') = Len(trace) + Len(other) /\ Len(other) \in Nat
    <3>1. /\ Len(trace \o other) = Len(trace) + Len(other)
          /\ Len(other \o trace) = Len(trace) + Len(other)
      BY <1>0, <2>2
    <3> QED BY <2>1, <2>2, <3>1
  <2>4. CASE other = <<>>
    <3>1. trace \o <<>> = trace /\ <<>> \o trace = trace
      BY <1>0
    <3>2. UNCHANGED trace
      BY <2>1, <2>4, <3>1
    <3> QED BY <1>c, <2>0, <3>2 DEF NoReboot
  <2>5. CASE other # <<>>
    <3>1. Len(other) # 0
      BY <2>2, <2>5
    <3>2. \A a, b, c \in Nat : a <= b /\ c # 0 => a # b + c
      OBVIOUS
    <3>3. config'.exists => Len(config'.runs) # Len(trace')
      BY <1>0, <1>d, <2>0, <2>3, <3>1, <3>2 DEF Counted
    <3> QED BY <1>a, <2>0, <3>3 DEF CompleteInv, Whole
  <2> QED BY <2>4, <2>5
<1>8. CASE EditConfig
  <2>1. pc = "idle" /\ Loads(config) /\ UNCHANGED <<trace, pc, target, gaps>>
    BY <1>8 DEF EditConfig, Idle
  <2>2. config \in Config
    BY <1>0, <2>1, LoadedTyped DEF Loads
  <2>3. ~config'.asWritten
    BY <1>8, <2>2 DEF EditConfig, Config
  <2> QED BY <1>c, <2>1, <2>3 DEF NoReboot
<1>9. CASE PackStarts
  <2>1. /\ pc' = "packing" /\ target' = Partial /\ UNCHANGED <<trace, config, gaps>> /\ Loads(config)
        /\ \E sort \in BOOLEAN : loc' = Canonical(config, sort)
    BY <1>9 DEF PackStarts, Step
  <2>2. config \in Config /\ config.exists
    BY <1>0, <2>1, LoadedTyped DEF Loads
  <2>3. Listed(config) \subseteq Listed(loc') /\ loc'.asWritten = config.asWritten /\ loc'.runs = config.runs
    BY <1>0, <2>1, <2>2, CanonicalLists
  <2>4. NoReboot' <=> NoReboot
    BY <2>1 DEF NoReboot
  <2>5. Whole(loc)' => Whole(config)
    BY <2>1, <2>3, <2>4 DEF Whole
  <2>6. Whole(loc)' => Needed(trace') \subseteq Listed(loc')
    BY <2>1, <2>2, <2>3, <2>5 DEF CompleteInv
  <2>7. Whole(config)' => Whole(config)
    BY <2>1, <2>4 DEF Whole
  <2>8. config'.exists /\ Whole(config)' => Needed(trace') \subseteq Listed(config')
    BY <2>1, <2>7 DEF CompleteInv
  <2>9. PackComplete'
    BY <1>b, <2>1 DEF PackComplete, Opens
  <2> QED BY <2>1, <2>6, <2>8, <2>9 DEF CompleteInv
<1>10. CASE PackAdds
  <2> DEFINE d == [loc EXCEPT !.files = loc.files \cap disk,
                              !.packages = [p \in Packages |-> IF p \in loc.packed
                                              THEN loc.packages[p] \cap disk
                                              ELSE loc.packages[p]]]
  <2>1. /\ pc = "packing" /\ pc' = "packed data" /\ UNCHANGED <<trace, config, target, gaps>>
        /\ loc' = [data |-> Listed(loc) \cap disk, disk |-> disk, config |-> d]
    BY <1>10 DEF PackAdds, Step
  <2>2. loc \in Config
    BY <2>1 DEF TypeInv, Held
  <2>3. d.asWritten = loc.asWritten /\ d.runs = loc.runs
    BY <2>2 DEF Config
  <2> HIDE DEF d
  <2>4. loc'.config = d /\ loc'.disk = disk /\ loc'.data = Listed(loc) \cap disk
    BY <2>1
  <2>5. NoReboot' <=> NoReboot
    BY <2>1 DEF NoReboot
  <2>6. Whole(loc.config)' => Whole(loc)
    BY <2>1, <2>3, <2>4, <2>5 DEF Whole
  <2>7. Whole(loc.config)' => Needed(trace') \cap loc'.disk \subseteq loc'.data
    BY <2>1, <2>4, <2>6 DEF CompleteInv
  <2>8. Whole(config)' => Whole(config)
    BY <2>1, <2>5 DEF Whole
  <2>9. config'.exists /\ Whole(config)' => Needed(trace') \subseteq Listed(config')
    BY <2>1, <2>8 DEF CompleteInv
  <2> QED BY <1>a, <2>1, <2>7, <2>9 DEF CompleteInv
<1>11. CASE PackEnds
  <2>1. /\ pc = "packed data" /\ pc' = "idle" /\ UNCHANGED <<config, trace, gaps>>
        /\ target' = [exists |-> TRUE, done |-> TRUE, config |-> loc.config,
                      data |-> loc.data, trace |-> trace, disk |-> loc.disk,
                      rebooted |-> "reboot" \in gaps]
    BY <1>11 DEF PackEnds, Return, Step
  <2>2. /\ target'.config = loc.config /\ target'.data = loc.data /\ target'.trace = trace
        /\ target'.disk = loc.disk /\ (target'.rebooted <=> ~NoReboot)
    BY <2>1 DEF NoReboot
  <2>3. loc.disk \in SUBSET Files
    BY <2>1 DEF TypeInv, Held
  <2>4. ASSUME target'.config.asWritten, ~target'.rebooted,
               target'.config.runs = [r \in DOMAIN target'.trace |-> r],
               NEW f \in target'.disk \ Magic, FirstUse(target'.trace, f) \in {"exec", "read", "stat"}
        PROVE  f \in target'.data
    <3>1. PICK n \in Nat : n = Len(trace) /\ DOMAIN trace = 1 .. n
      BY <1>0
    <3>2. loc.config.runs = [r \in 1 .. n |-> r]
      BY <2>2, <2>4, <3>1
    <3>3. [r \in 1 .. n |-> r] \in [1 .. n -> Nat]
      OBVIOUS
    <3>4. Len(loc.config.runs) = n
      BY <3>2, <3>3, SequenceOf
    <3>5. Whole(loc.config)
      BY <2>2, <2>4, <3>1, <3>4 DEF Whole
    <3>6. f \in Needed(trace) /\ f \in loc.disk
      BY <2>2, <2>3, <2>4 DEF Needed
    <3> QED BY <2>1, <2>2, <3>5, <3>6 DEF CompleteInv
  <2>5. PackComplete'
    BY <2>4 DEF PackComplete, RPZPack
  <2>6. Whole(config)' => Whole(config)
    BY <2>1 DEF Whole, NoReboot
  <2>7. config'.exists /\ Whole(config)' => Needed(trace') \subseteq Listed(config')
    BY <2>1, <2>6 DEF CompleteInv
  <2> QED BY <2>1, <2>5, <2>7 DEF CompleteInv
<1>12. CASE TracerFails \/ PackFails
  <2>1. /\ UNCHANGED <<config, trace, target, gaps>> /\ pc' = "idle"
    BY <1>12 DEF TracerFails, PackFails, Return, Step
  <2> QED BY <1>c, <2>1 DEF NoReboot
<1>13. CASE RemoveFile
  <2>1. UNCHANGED <<config, trace, target, gaps, pc, loc>> /\ (NoReboot' <=> NoReboot)
    BY <1>13 DEF RemoveFile, NoReboot
  <2> QED BY <1>a, <2>1 DEF CompleteInv, Whole
<1>14. CASE RemovePack
  <2>1. /\ UNCHANGED <<config, trace, gaps, pc, loc>> /\ (NoReboot' <=> NoReboot)
        /\ target' = NoPack
    BY <1>14 DEF RemovePack, NoReboot
  <2>2. PackComplete'
    BY <1>b, <2>1 DEF PackComplete, Opens
  <2> QED BY <2>1, <2>2 DEF CompleteInv, Whole
<1>15. CASE Kill
  <2>1. /\ UNCHANGED <<config, trace, target>> /\ pc' = "idle" /\ (NoReboot' => NoReboot)
    BY <1>15 DEF Kill, Return, Step, NoReboot
  <2> QED BY <1>c, <2>1
<1>16. CASE Reboot
  <2>1. /\ UNCHANGED <<config, trace, target, pc>> /\ pc = "idle" /\ (NoReboot' => NoReboot)
    BY <1>16 DEF Reboot, Idle, NoReboot
  <2> QED BY <1>c, <2>1
<1> QED BY <1>1, <1>2, <1>3, <1>4, <1>5, <1>6, <1>7, <1>8, <1>9, <1>10, <1>11, <1>12, <1>13, <1>14,
           <1>15, <1>16 DEF Next

-----------------------------------------------------------------------------
(* Each run's inputs and outputs are those of its own rows. *)

InRun(k, r, off, N) == r \in 1 .. N /\ off[r - 1] < k /\ k <= off[r]

\* The runs and their rows on the clock: N runs that start at ts, n rows at at.
Laid(N, n, off, ts, at) ==
  /\ N \in Nat /\ n \in Nat /\ off \in [0 .. N -> Nat] /\ off[0] = 0 /\ off[N] = n
  /\ ts \in [1 .. N -> Nat] /\ at \in [1 .. n -> Nat]
  /\ \A r \in 0 .. N : \A q \in 0 .. N : r <= q => off[r] <= off[q]
  /\ \A r \in 1 .. N : \A q \in 1 .. N : r < q => ts[r] < ts[q]
  /\ \A k \in 1 .. n : \E q \in 1 .. N : InRun(k, q, off, N)
  /\ \A k \in 1 .. n : \A q \in 1 .. N : InRun(k, q, off, N) =>
        ts[q] < at[k] /\ \A p \in 1 .. N : q < p => at[k] < ts[p]

\* The starts of the runs after r.
StartsAfter(starts, r, N, ts) ==
  starts \in Seq(Nat) /\ Len(starts) = N - r /\ \A i \in 1 .. N - r : starts[i] = ts[i + r]

LEMMA RowsLaid ==
  ASSUME NEW t \in Seq(Run), NEW last \in Nat, Ordered(t, last), NEW N \in Nat, N = Len(t),
         NEW off, NEW L, Placed(off, L, N, t), NEW rows, rows = Rows(t), NEW n \in Nat, n = Len(rows)
  PROVE  Laid(N, n, off, [r \in 1 .. N |-> t[r].ts], [k \in 1 .. n |-> rows[k].ts])
<1> DEFINE ts == [r \in 1 .. N |-> t[r].ts]
           at == [k \in 1 .. n |-> rows[k].ts]
<1>1. /\ off \in [0 .. N -> Nat] /\ off[0] = 0 /\ off[N] = n /\ L \in [1 .. N -> Nat]
      /\ \A r \in 1 .. N : L[r] = Len(t[r].rows) /\ off[r] = off[r - 1] + L[r]
      /\ \A r \in 1 .. N : \A i \in 1 .. L[r] : off[r - 1] + i \in 1 .. n /\ rows[off[r - 1] + i] = t[r].rows[i]
      /\ \A k \in 1 .. n : \E r \in 1 .. N : \E i \in 1 .. L[r] : k = off[r - 1] + i
      /\ \A r \in 0 .. N : \A q \in 0 .. N : r <= q => off[r] <= off[q]
  BY DEF Placed
<1>2. /\ DOMAIN t = 1 .. N
      /\ \A r \in 1 .. N : /\ t[r].ts \in Nat /\ DOMAIN t[r].rows = 1 .. Len(t[r].rows)
                           /\ \A i \in 1 .. Len(t[r].rows) : t[r].rows[i].ts \in Nat
  BY RunTyped
<1>3. ts \in [1 .. N -> Nat] /\ \A r \in 1 .. N : ts[r] = t[r].ts
  BY <1>2
<1>4. \A k \in 1 .. n : at[k] = rows[k].ts
  OBVIOUS
<1>a. at = [k \in 1 .. n |-> at[k]]
  OBVIOUS
<1> HIDE DEF ts, at
<1>5. ASSUME NEW k \in 1 .. n
      PROVE  at[k] \in Nat /\ \E q \in 1 .. N : InRun(k, q, off, N)
  <2>1. PICK q \in 1 .. N : \E i \in 1 .. L[q] : k = off[q - 1] + i
    BY <1>1
  <2>2. PICK i \in 1 .. L[q] : k = off[q - 1] + i
    BY <2>1
  <2>3. q - 1 \in 0 .. N /\ q \in 0 .. N
    OBVIOUS
  <2>4. off[q - 1] \in Nat /\ L[q] \in Nat /\ off[q] = off[q - 1] + L[q]
    BY <1>1, <2>3
  <2>5. InRun(k, q, off, N)
    BY <2>2, <2>4 DEF InRun
  <2>6. at[k] = t[q].rows[i].ts
    BY <1>1, <1>4, <2>2
  <2>7. t[q].rows[i].ts \in Nat
    BY <1>1, <1>2
  <2> QED BY <2>5, <2>6, <2>7
<1>6. at \in [1 .. n -> Nat]
  <2>1. \A k \in 1 .. n : at[k] \in Nat
    BY <1>5
  <2> QED BY <1>a, <2>1
<1>7. \A r \in 1 .. N : \A q \in 1 .. N : r < q => ts[r] < ts[q]
  <2>1. \A r \in DOMAIN t : \A q \in DOMAIN t : r < q => t[r].ts < t[q].ts
    BY DEF Ordered
  <2>2. DOMAIN t = 1 .. N /\ \A r \in 1 .. N : ts[r] = t[r].ts
    BY <1>2, <1>3
  <2> QED BY <2>1, <2>2
<1>8. ASSUME NEW k \in 1 .. n, NEW q \in 1 .. N, InRun(k, q, off, N)
      PROVE  ts[q] < at[k] /\ \A p \in 1 .. N : q < p => at[k] < ts[p]
  <2>1. q - 1 \in 0 .. N /\ q \in 0 .. N
    OBVIOUS
  <2>2. off[q - 1] \in Nat /\ L[q] \in Nat /\ off[q] = off[q - 1] + L[q] /\ off[q - 1] < k /\ k <= off[q]
    BY <1>1, <1>8, <2>1 DEF InRun
  <2>3. PICK i \in Nat : i = k - off[q - 1]
    BY <2>2
  <2>4. i \in 1 .. L[q] /\ k = off[q - 1] + i
    BY <2>2, <2>3
  <2>5. at[k] = t[q].rows[i].ts
    BY <1>1, <1>4, <2>4
  <2>6. q \in DOMAIN t /\ i \in DOMAIN t[q].rows
    BY <1>1, <1>2, <2>4
  <2>7. t[q].ts < t[q].rows[i].ts /\ \A p \in DOMAIN t : q < p => t[q].rows[i].ts < t[p].ts
    BY <2>6 DEF Ordered
  <2> QED BY <1>2, <1>3, <2>5, <2>7
<1>9. Laid(N, n, off, ts, at)
  BY <1>1, <1>3, <1>5, <1>6, <1>7, <1>8, Zenon DEF Laid
<1> QED BY <1>9 DEF ts, at

\* A row moves the loop to the run it is of.
LEMMA PassedToRun ==
  ASSUME NEW N, NEW n, NEW off, NEW ts, NEW at, Laid(N, n, off, ts, at),
         NEW k \in 1 .. n, NEW q \in 1 .. N, InRun(k, q, off, N),
         NEW r \in 1 .. N, r <= q, NEW starts, StartsAfter(starts, r, N, ts)
  PROVE  /\ r + Passed(starts, at[k]) = q
         /\ StartsAfter(SubSeq(starts, Passed(starts, at[k]) + 1, Len(starts)), q, N, ts)
<1> DEFINE p == Passed(starts, at[k])
           len == Len(starts)
<1>1. /\ starts \in Seq(Nat) /\ len = N - r /\ \A i \in 1 .. N - r : starts[i] = ts[i + r]
  BY DEF StartsAfter
<1>2. /\ N \in Nat /\ at[k] \in Nat /\ ts \in [1 .. N -> Nat]
      /\ ts[q] < at[k] /\ \A m \in 1 .. N : q < m => at[k] < ts[m]
      /\ \A a \in 1 .. N : \A b \in 1 .. N : a < b => ts[a] < ts[b]
  BY DEF Laid
<1>3. /\ p \in 0 .. len
      /\ \A i \in 1 .. p : at[k] > starts[i]
      /\ p = len \/ at[k] <= starts[p + 1]
  BY <1>1, <1>2, PassedIs
<1> HIDE DEF p, len
<1>4. r + p <= q
  <2> SUFFICES ASSUME ~(r + p <= q) PROVE FALSE
    OBVIOUS
  <2>1. PICK i \in Int : i = (q + 1) - r
    BY <1>2
  <2>2. i \in 1 .. p /\ i \in 1 .. N - r /\ i + r = q + 1 /\ q + 1 \in 1 .. N
    BY <1>1, <1>2, <1>3, <2>1
  <2>3. at[k] > ts[q + 1] /\ ts[q + 1] \in Nat
    BY <1>1, <1>2, <1>3, <2>2
  <2>4. at[k] < ts[q + 1]
    BY <1>2, <2>2
  <2> QED BY <1>2, <2>3, <2>4
<1>5. ~(r + p < q)
  <2> SUFFICES ASSUME r + p < q PROVE FALSE
    OBVIOUS
  <2>1. p # len /\ p + 1 \in 1 .. N - r /\ (p + 1) + r \in 1 .. N /\ (p + 1) + r <= q
    BY <1>1, <1>2, <1>3
  <2>2. PICK y \in 1 .. N : y = (p + 1) + r
    BY <2>1
  <2>3. y <= q /\ at[k] <= ts[y] /\ ts[y] \in Nat /\ ts[q] \in Nat
    BY <1>1, <1>2, <1>3, <2>1, <2>2
  <2>4. y < q => ts[y] < ts[q]
    BY <1>2
  <2>5. ts[y] <= ts[q]
    <3>1. CASE y = q
      BY <2>3, <3>1
    <3>2. CASE y < q
      BY <2>3, <2>4, <3>2
    <3> QED BY <1>2, <2>3, <3>1, <3>2
  <2> QED BY <1>2, <2>3, <2>5
<1>6. r + p = q
  BY <1>2, <1>3, <1>4, <1>5
<1>7. StartsAfter(SubSeq(starts, p + 1, len), q, N, ts)
  <2>1. PICK m \in Nat, x \in Nat : m = N - q /\ x = p
    BY <1>2, <1>3
  <2>2. len = x + m /\ len = Len(starts) /\ p + 1 \in 1 .. len + 1 /\ len \in Nat
    BY <1>1, <1>2, <1>3, <1>6, <2>1 DEF len
  <2>3. /\ SubSeq(starts, p + 1, len) \in Seq(Nat) /\ Len(SubSeq(starts, p + 1, len)) = m
        /\ \A i \in 1 .. m : SubSeq(starts, p + 1, len)[i] = starts[x + i]
    <3>1. x + 1 \in 1 .. Len(starts) + 1 /\ Len(starts) \in 0 .. Len(starts) /\ starts \in Seq(Nat)
      BY <1>1, <2>1, <2>2
    <3>2. /\ SubSeq(starts, x + 1, Len(starts)) \in Seq(Nat)
          /\ Len(SubSeq(starts, x + 1, Len(starts))) =
               IF x + 1 <= Len(starts) THEN Len(starts) - (x + 1) + 1 ELSE 0
          /\ \A i \in 1 .. Len(starts) - (x + 1) + 1 :
                SubSeq(starts, x + 1, Len(starts))[i] = starts[(x + 1) + i - 1]
      BY <3>1, SubSeqProperties
    <3>3. (IF x + 1 <= Len(starts) THEN Len(starts) - (x + 1) + 1 ELSE 0) = m /\ Len(starts) - (x + 1) + 1 = m
      BY <2>1, <2>2
    <3>4. \A i \in 1 .. m : (x + 1) + i - 1 = x + i
      BY <2>1
    <3> QED BY <2>1, <2>2, <3>2, <3>3, <3>4
  <2>4. ASSUME NEW i \in 1 .. m PROVE starts[x + i] = ts[i + q]
    <3>1. x + i \in 1 .. N - r /\ (x + i) + r = i + q
      BY <1>1, <1>2, <1>6, <2>1, <2>2
    <3> QED BY <1>1, <3>1
  <2> QED BY <2>1, <2>3, <2>4 DEF StartsAfter
<1> QED BY <1>6, <1>7 DEF p, len

\* The loop on the rows of an ordered trace.
Looped(t, d, N, n, off, rows, ts, at, acc) ==
  /\ t \in Seq(Run) /\ N = Len(t) /\ d \in SUBSET Files /\ Laid(N, n, off, ts, at)
  /\ \A k \in 1 .. n : rows[k].file \in Files /\ rows[k].mode \in Modes /\ at[k] = rows[k].ts
  /\ \A r \in 1 .. N : ts[r] = t[r].ts
  /\ \A k \in 0 .. n : acc[k] \in Accountings(N)
  /\ acc[0] = Unused(t)
  /\ \A k \in 1 .. n : acc[k] = Account(acc[k - 1], rows[k], d)

Loop(t, d, N, n, off, rows) ==
  \E ts, at, acc : Looped(t, d, N, n, off, rows, ts, at, acc) /\ Accounted(t, d) = acc[n]

LEMMA LoopedExists ==
  ASSUME NEW t \in Seq(Run), NEW d \in SUBSET Files, NEW last \in Nat, Ordered(t, last),
         NEW N \in Nat, N = Len(t), NEW off, NEW L, Placed(off, L, N, t),
         NEW rows, rows = Rows(t), NEW n \in Nat, n = Len(rows)
  PROVE  Loop(t, d, N, n, off, rows)
<1> DEFINE ts == [r \in 1 .. N |-> t[r].ts]
           at == [k \in 1 .. n |-> rows[k].ts]
<1>1. Laid(N, n, off, ts, at)
  BY RowsLaid
<1>2. rows = RowsByTime(t)
  BY RowsByTimeAre
<1>3. PICK acc : Accounts(acc, t, d) /\ Accounted(t, d) = acc[n]
  BY <1>2, AccountedTurns
<1>4. /\ \A k \in 0 .. n : acc[k] \in Accountings(N)
      /\ acc[0] = Unused(t)
      /\ \A k \in 1 .. n : acc[k] = Account(acc[k - 1], rows[k], d)
  BY <1>2, <1>3 DEF Accounts
<1>5. \A k \in 1 .. n : rows[k].file \in Files /\ rows[k].mode \in Modes
  <2>1. rows \in Seq(Row)
    BY RowsTyped
  <2>2. \A k \in 1 .. n : rows[k] \in Row
    BY <2>1
  <2> QED BY <2>2 DEF Row
<1>6. (\A k \in 1 .. n : at[k] = rows[k].ts) /\ \A r \in 1 .. N : ts[r] = t[r].ts
  OBVIOUS
<1> HIDE DEF ts, at
<1>7. Looped(t, d, N, n, off, rows, ts, at, acc)
  BY <1>1, <1>4, <1>5, <1>6 DEF Looped
<1> QED BY <1>3, <1>7 DEF Loop

\* Where the loop is after k rows.
Reached(s, k, off, N, ts) ==
  /\ k = 0 => s.run = 1
  /\ k # 0 => InRun(k, s.run, off, N)
  /\ N # 0 => StartsAfter(s.starts, s.run, N, ts)

LEMMA LoopReaches ==
  ASSUME NEW t, NEW d, NEW N, NEW n, NEW off, NEW rows, NEW ts, NEW at, NEW acc,
         Looped(t, d, N, n, off, rows, ts, at, acc)
  PROVE  \A k \in 0 .. n : Reached(acc[k], k, off, N, ts)
<1> DEFINE T == {k \in 0 .. n : Reached(acc[k], k, off, N, ts)}
<1>1. /\ n \in Nat /\ N \in Nat /\ Laid(N, n, off, ts, at) /\ t \in Seq(Run) /\ N = Len(t)
      /\ \A r \in 1 .. N : ts[r] = t[r].ts
  BY DEF Looped, Laid
<1>2. 0 \in T
  <2>1. acc[0] = Unused(t)
    BY DEF Looped
  <2>2. acc[0].run = 1 /\ acc[0].starts = [i \in 1 .. N - 1 |-> t[i + 1].ts]
    BY <1>1, <2>1 DEF Unused
  <2>3. acc[0].starts \in Seq(Nat)
    <3>1. acc[0] \in Accountings(N)
      BY <1>1 DEF Looped
    <3> QED BY <3>1 DEF Accountings
  <2>4. ASSUME N # 0 PROVE StartsAfter(acc[0].starts, 1, N, ts)
    <3>1. PICK m \in Nat : m = N - 1
      BY <1>1, <2>4
    <3>2. Len(acc[0].starts) = m /\ \A i \in 1 .. m : acc[0].starts[i] = t[i + 1].ts
      <4>1. DOMAIN acc[0].starts = 1 .. m
        BY <2>2, <3>1
      <4> QED BY <2>2, <2>3, <3>1, <4>1
    <3>3. \A i \in 1 .. m : t[i + 1].ts = ts[i + 1]
      <4> TAKE i \in 1 .. m
      <4>1. i + 1 \in 1 .. N
        BY <1>1, <3>1
      <4> QED BY <1>1, <4>1
    <3> QED BY <2>3, <3>1, <3>2, <3>3 DEF StartsAfter
  <2> QED BY <1>1, <2>2, <2>4 DEF Reached
<1>3. ASSUME NEW k \in 1 .. n, k - 1 \in T PROVE k \in T
  <2>1. PICK s, a, row : s = acc[k - 1] /\ a = acc[k] /\ row = rows[k]
    OBVIOUS
  <2>2. a = Account(s, row, d) /\ row.ts = at[k]
    BY <2>1 DEF Looped
  <2>3. Turn(a, s, row, d, Passed(s.starts, row.ts), s.run + Passed(s.starts, row.ts),
             IF row.mode = "exec" THEN s.executed \cup {row.file} ELSE s.executed)
    BY <2>2, AccountIs, Zenon
  <2>4. /\ a.starts = SubSeq(s.starts, Passed(s.starts, at[k]) + 1, Len(s.starts))
        /\ a.run = s.run + Passed(s.starts, at[k])
    BY <2>2, <2>3 DEF Turn
  <2>5. PICK q \in 1 .. N : InRun(k, q, off, N)
    BY <1>1 DEF Laid
  <2>6. N # 0
    BY <1>1
  <2>7. Reached(s, k - 1, off, N, ts)
    BY <1>3, <2>1
  <2>8. PICK r \in 1 .. N : r = s.run /\ r <= q
    <3>1. CASE k - 1 = 0
      <4>1. s.run = 1 /\ 1 \in 1 .. N
        BY <1>1, <2>6, <2>7, <3>1 DEF Reached
      <4> QED BY <4>1
    <3>2. CASE k - 1 # 0
      <4>1. s.run \in 1 .. N /\ off[s.run - 1] < k - 1 /\ k - 1 <= off[s.run]
        BY <2>7, <3>2 DEF Reached, InRun
      <4>2. PICK r \in 1 .. N : r = s.run
        BY <4>1
      <4>3. off[r - 1] < k - 1 /\ off[q - 1] < k /\ k <= off[q]
        BY <2>5, <4>1, <4>2 DEF InRun
      <4>4. q - 1 \in 0 .. N /\ q \in 0 .. N /\ r - 1 \in 0 .. N
        BY <1>1
      <4>5. off[r - 1] \in Nat /\ off[q] \in Nat /\ (q <= r - 1 => off[q] <= off[r - 1])
        BY <1>1, <4>4 DEF Laid
      <4>6. ~(q <= r - 1)
        BY <1>1, <4>3, <4>5
      <4> QED BY <1>1, <4>2, <4>6
    <3> QED BY <3>1, <3>2
  <2>9. StartsAfter(s.starts, r, N, ts)
    BY <2>6, <2>7, <2>8 DEF Reached
  <2>10. PICK starts : starts = s.starts
    OBVIOUS
  <2>11. /\ r + Passed(starts, at[k]) = q
         /\ StartsAfter(SubSeq(starts, Passed(starts, at[k]) + 1, Len(starts)), q, N, ts)
    BY <1>1, <2>5, <2>8, <2>9, <2>10, PassedToRun
  <2>12. a.run = q /\ StartsAfter(a.starts, q, N, ts)
    BY <2>4, <2>8, <2>10, <2>11
  <2>13. k \in 0 .. n /\ k # 0
    BY <1>1
  <2>14. Reached(a, k, off, N, ts)
    BY <2>5, <2>12, <2>13 DEF Reached
  <2> QED BY <2>1, <2>13, <2>14
<1>4. 0 .. n \subseteq T
  <2> HIDE DEF T
  <2> QED BY <1>1, <1>2, <1>3, UpTo
<1> QED BY <1>4

\* The rows that used a file, in a run.
UsesIn(rows, off, m, k, f) == {j \in 1 .. k : off[m - 1] < j /\ j <= off[m] /\ rows[j].file = f}

NextUses(rows, off, N, m, k, f) ==
  /\ UsesIn(rows, off, m, k - 1, f) \in SUBSET Nat /\ \A j \in UsesIn(rows, off, m, k - 1, f) : j < k
  /\ InRun(k, m, off, N) /\ rows[k].file = f =>
        UsesIn(rows, off, m, k, f) = UsesIn(rows, off, m, k - 1, f) \cup {k}
  /\ ~(InRun(k, m, off, N) /\ rows[k].file = f) =>
        UsesIn(rows, off, m, k, f) = UsesIn(rows, off, m, k - 1, f)

LEMMA UsesInNext ==
  ASSUME NEW rows, NEW off, NEW N, NEW m \in 1 .. N, NEW k \in Nat, k # 0, NEW f
  PROVE  NextUses(rows, off, N, m, k, f)
<1>1. \A j : j \in 1 .. k <=> j \in 1 .. k - 1 \/ j = k
  OBVIOUS
<1>2. \A j \in 1 .. k - 1 : j \in Nat /\ j < k
  OBVIOUS
<1> QED BY <1>1, <1>2 DEF UsesIn, InRun, NextUses

\* A row is of one run.
LEMMA InOneRun ==
  ASSUME NEW N, NEW n, NEW off, NEW ts, NEW at, Laid(N, n, off, ts, at), NEW k \in Nat,
         NEW m \in 1 .. N, NEW q, InRun(k, m, off, N), InRun(k, q, off, N)
  PROVE  m = q
<1>1. /\ N \in Nat /\ off \in [0 .. N -> Nat] /\ q \in 1 .. N
      /\ off[m - 1] < k /\ k <= off[m] /\ off[q - 1] < k /\ k <= off[q]
      /\ \A a \in 0 .. N : \A b \in 0 .. N : a <= b => off[a] <= off[b]
  BY DEF Laid, InRun
<1>2. m - 1 \in 0 .. N /\ m \in 0 .. N /\ q - 1 \in 0 .. N /\ q \in 0 .. N
  BY <1>1
<1>3. PICK a \in Nat, b \in Nat, c \in Nat, e \in Nat :
         a = off[m - 1] /\ b = off[m] /\ c = off[q - 1] /\ e = off[q]
  BY <1>1, <1>2
<1>4. (m <= q - 1 => b <= c) /\ (q <= m - 1 => e <= a)
  BY <1>1, <1>2, <1>3
<1>5. ~(m <= q - 1) /\ ~(q <= m - 1)
  BY <1>1, <1>3, <1>4
<1> QED BY <1>1, <1>5

\* A turn changes what the row's run used its file for, and nothing else of the uses.
LEMMA TurnUses ==
  ASSUME NEW t, NEW d, NEW N, NEW n, NEW off, NEW rows, NEW ts, NEW at, NEW acc,
         Looped(t, d, N, n, off, rows, ts, at, acc), NEW k \in 1 .. n,
         NEW m \in 1 .. N, NEW f \in Files
  PROVE  acc[k].runs[m][f] = IF InRun(k, m, off, N) /\ rows[k].file = f
                             THEN Used(acc[k - 1].runs[m][f], rows[k].mode)
                             ELSE acc[k - 1].runs[m][f]
<1>1. PICK s, a, row : s = acc[k - 1] /\ a = acc[k] /\ row = rows[k]
  OBVIOUS
<1>2. a = Account(s, row, d) /\ row.file \in Files /\ n \in Nat /\ N \in Nat /\ Laid(N, n, off, ts, at)
  BY <1>1 DEF Looped, Laid
<1>3. Turn(a, s, row, d, Passed(s.starts, row.ts), s.run + Passed(s.starts, row.ts),
           IF row.mode = "exec" THEN s.executed \cup {row.file} ELSE s.executed)
  BY <1>2, AccountIs, Zenon
<1>4. PICK q : q = a.run
  OBVIOUS
<1>5. a.runs = [s.runs EXCEPT ![q][row.file] = Used(s.runs[q][row.file], row.mode)]
  BY <1>3, <1>4 DEF Turn
<1>6. k \in 0 .. n /\ k - 1 \in 0 .. n /\ k # 0 /\ k \in Nat
  BY <1>2
<1>7. s.runs \in [1 .. N + 1 -> [Files -> Usage]]
  <2>1. s \in Accountings(N)
    BY <1>1, <1>6 DEF Looped
  <2> QED BY <2>1 DEF Accountings
<1>8. InRun(k, q, off, N)
  <2>1. Reached(a, k, off, N, ts)
    BY <1>1, <1>6, LoopReaches
  <2> QED BY <1>4, <1>6, <2>1 DEF Reached
<1>9. InRun(k, m, off, N) <=> m = q
  BY <1>2, <1>6, <1>8, InOneRun
<1>10. m \in 1 .. N + 1 /\ q \in 1 .. N + 1
  BY <1>2, <1>8 DEF InRun
<1>11. a.runs[m][f] = IF m = q /\ row.file = f THEN Used(s.runs[m][f], row.mode) ELSE s.runs[m][f]
  <2>1. s.runs[q] \in [Files -> Usage] /\ s.runs[m] \in [Files -> Usage]
    BY <1>7, <1>10
  <2>2. a.runs[m] = IF m = q THEN [s.runs[q] EXCEPT ![row.file] = Used(s.runs[q][row.file], row.mode)]
                    ELSE s.runs[m]
    BY <1>5, <1>7, <1>10
  <2> QED BY <1>2, <2>1, <2>2
<1> QED BY <1>1, <1>9, <1>11

\* What each file was used for, by each run.
LEMMA RunTold ==
  ASSUME NEW t, NEW d, NEW N, NEW n, NEW off, NEW rows, NEW ts, NEW at, NEW acc,
         Looped(t, d, N, n, off, rows, ts, at, acc), NEW m \in 1 .. N, NEW f \in Files
  PROVE  Tells(acc[n].runs[m][f], [j \in 1 .. n |-> rows[j].mode], UsesIn(rows, off, m, n, f))
<1> DEFINE mode == [j \in 1 .. n |-> rows[j].mode]
           T == {k \in 0 .. n : Tells(acc[k].runs[m][f], mode, UsesIn(rows, off, m, k, f))}
<1>1. n \in Nat /\ N \in Nat /\ acc[0] = Unused(t) /\ t \in Seq(Run) /\ N = Len(t)
  BY DEF Looped, Laid
<1>2. \A k \in 1 .. n : mode[k] \in Modes /\ mode[k] = rows[k].mode
  BY DEF Looped
<1> HIDE DEF mode
<1>3. 0 \in T
  <2>1. acc[0].runs[m][f] = "none"
    <3>1. acc[0].runs = [r \in 1 .. N + 1 |-> [g \in Files |-> "none"]]
      BY <1>1 DEF Unused
    <3>2. m \in 1 .. N + 1
      BY <1>1
    <3> QED BY <3>1, <3>2
  <2>2. UsesIn(rows, off, m, 0, f) = {}
    BY DEF UsesIn
  <2>3. Tells(acc[0].runs[m][f], mode, UsesIn(rows, off, m, 0, f))
    BY <2>1, <2>2 DEF Tells, Usage
  <2> QED BY <1>1, <2>3
<1>4. ASSUME NEW k \in 1 .. n, k - 1 \in T PROVE k \in T
  <2>1. k \in Nat /\ k # 0 /\ k \in 0 .. n
    BY <1>1
  <2>2. PICK use, S : use = acc[k - 1].runs[m][f] /\ S = UsesIn(rows, off, m, k - 1, f)
    OBVIOUS
  <2>3. Tells(use, mode, S)
    BY <1>4, <2>2
  <2>4. /\ S \in SUBSET Nat /\ \A j \in S : j < k
        /\ InRun(k, m, off, N) /\ rows[k].file = f => UsesIn(rows, off, m, k, f) = S \cup {k}
        /\ ~(InRun(k, m, off, N) /\ rows[k].file = f) => UsesIn(rows, off, m, k, f) = S
    <3>1. NextUses(rows, off, N, m, k, f)
      BY <2>1, UsesInNext
    <3> QED BY <2>2, <3>1 DEF NextUses
  <2>5. acc[k].runs[m][f] = IF InRun(k, m, off, N) /\ rows[k].file = f
                            THEN Used(use, mode[k]) ELSE use
    BY <1>2, <2>2, TurnUses
  <2>6. Tells(Used(use, mode[k]), mode, S \cup {k})
    BY <1>2, <2>1, <2>3, <2>4, TellsNext
  <2>7. Tells(acc[k].runs[m][f], mode, UsesIn(rows, off, m, k, f))
    BY <2>3, <2>4, <2>5, <2>6
  <2> QED BY <2>1, <2>7
<1>5. 0 .. n \subseteq T
  <2> HIDE DEF T
  <2> QED BY <1>1, <1>3, <1>4, UpTo
<1>6. n \in T
  BY <1>1, <1>5
<1> QED BY <1>6 DEF mode

\* The files that the loop adds to those each run accessed: of those never
\* executed, the files that exist and that the run used.
LEMMA RunAccessed ==
  ASSUME NEW t, NEW d, NEW N, NEW n, NEW off, NEW rows, NEW ts, NEW at, NEW acc,
         Looped(t, d, N, n, off, rows, ts, at, acc), NEW f \in Files,
         \A j \in 1 .. n : rows[j].file = f => rows[j].mode # "exec"
  PROVE  /\ f \notin acc[n].executed
         /\ \A m \in 1 .. N : f \in acc[n].access_files[m] <=> f \in d /\ UsesIn(rows, off, m, n, f) # {}
<1> DEFINE T == {k \in 0 .. n : f \notin acc[k].executed /\ \A m \in 1 .. N :
                    f \in acc[k].access_files[m] <=> f \in d /\ UsesIn(rows, off, m, k, f) # {}}
<1>1. n \in Nat /\ N \in Nat /\ acc[0] = Unused(t) /\ t \in Seq(Run) /\ N = Len(t) /\ Laid(N, n, off, ts, at)
  BY DEF Looped, Laid
<1>2. 0 \in T
  <2>1. acc[0].executed = {} /\ acc[0].access_files = [r \in 1 .. N + 1 |-> {}]
    BY <1>1 DEF Unused
  <2>2. ASSUME NEW m \in 1 .. N
        PROVE  f \in acc[0].access_files[m] <=> f \in d /\ UsesIn(rows, off, m, 0, f) # {}
    <3>1. m \in 1 .. N + 1
      BY <1>1
    <3>2. UsesIn(rows, off, m, 0, f) = {}
      BY DEF UsesIn
    <3> QED BY <2>1, <3>1, <3>2
  <2> QED BY <1>1, <2>1, <2>2
<1>3. ASSUME NEW k \in 1 .. n, k - 1 \in T PROVE k \in T
  <2>1. k \in Nat /\ k # 0 /\ k \in 0 .. n /\ k - 1 \in 0 .. n
    BY <1>1
  <2>2. PICK s, a, row : s = acc[k - 1] /\ a = acc[k] /\ row = rows[k]
    OBVIOUS
  <2>3. a = Account(s, row, d) /\ (row.file = f => row.mode # "exec")
    BY <2>2 DEF Looped
  <2>4. PICK executed : executed = IF row.mode = "exec" THEN s.executed \cup {row.file} ELSE s.executed
    OBVIOUS
  <2>5. Turn(a, s, row, d, Passed(s.starts, row.ts), s.run + Passed(s.starts, row.ts), executed)
    BY <2>3, <2>4, AccountIs, Zenon
  <2>6. PICK q : q = a.run
    OBVIOUS
  <2>7. /\ a.executed = executed
        /\ a.access_files = [s.access_files EXCEPT ![q] =
                                s.access_files[q] \cup ({row.file} \cap (d \ executed))]
    BY <2>5, <2>6 DEF Turn
  <2>8. f \notin a.executed
    BY <1>3, <2>2, <2>3, <2>4, <2>7
  <2>9. s.access_files \in [1 .. N + 1 -> SUBSET Files]
    <3>1. s \in Accountings(N)
      BY <2>1, <2>2 DEF Looped
    <3> QED BY <3>1 DEF Accountings
  <2>10. InRun(k, q, off, N)
    <3>1. Reached(a, k, off, N, ts)
      BY <2>1, <2>2, LoopReaches
    <3> QED BY <2>1, <2>6, <3>1 DEF Reached
  <2>11. ASSUME NEW m \in 1 .. N
         PROVE  f \in a.access_files[m] <=> f \in d /\ UsesIn(rows, off, m, k, f) # {}
    <3>1. InRun(k, m, off, N) <=> m = q
      BY <1>1, <2>1, <2>10, InOneRun
    <3>2. m \in 1 .. N + 1 /\ q \in 1 .. N + 1
      BY <1>1, <2>10 DEF InRun
    <3>3. f \in s.access_files[m] <=> f \in d /\ UsesIn(rows, off, m, k - 1, f) # {}
      BY <1>3, <2>2
    <3>4. /\ InRun(k, m, off, N) /\ rows[k].file = f =>
                UsesIn(rows, off, m, k, f) = UsesIn(rows, off, m, k - 1, f) \cup {k}
          /\ ~(InRun(k, m, off, N) /\ rows[k].file = f) =>
                UsesIn(rows, off, m, k, f) = UsesIn(rows, off, m, k - 1, f)
      <4>1. NextUses(rows, off, N, m, k, f)
        BY <2>1, UsesInNext
      <4> QED BY <4>1 DEF NextUses
    <3>5. f \in a.access_files[m] <=> f \in s.access_files[m] \/ (m = q /\ row.file = f /\ f \in d)
      <4>1. a.access_files[m] = IF m = q THEN s.access_files[q] \cup ({row.file} \cap (d \ executed))
                                ELSE s.access_files[m]
        BY <2>7, <2>9, <3>2
      <4>2. f \notin executed
        BY <2>7, <2>8
      <4> QED BY <4>1, <4>2
    <3> QED BY <2>2, <3>1, <3>3, <3>4, <3>5
  <2> QED BY <2>1, <2>2, <2>8, <2>11
<1>4. 0 .. n \subseteq T
  <2> HIDE DEF T
  <2> QED BY <1>1, <1>2, <1>3, UpTo
<1>5. n \in T
  BY <1>1, <1>4
<1> QED BY <1>5

\* When every run has rows, the loop ends in the last.
LEMMA AllReached ==
  ASSUME NEW t, NEW d, NEW N, NEW n, NEW off, NEW rows, NEW ts, NEW at, NEW acc,
         Looped(t, d, N, n, off, rows, ts, at, acc), \A r \in 1 .. N : off[r - 1] < off[r]
  PROVE  N \in Nat /\ acc[n].run = IF N = 0 THEN 1 ELSE N
<1>1. /\ N \in Nat /\ n \in Nat /\ Laid(N, n, off, ts, at) /\ off[0] = 0 /\ off[N] = n
      /\ off \in [0 .. N -> Nat]
  BY DEF Looped, Laid
<1>2. Reached(acc[n], n, off, N, ts)
  BY <1>1, LoopReaches
<1>3. CASE N = 0
  BY <1>1, <1>2, <1>3 DEF Reached
<1>4. CASE N # 0
  <2>1. N \in 1 .. N /\ N - 1 \in 0 .. N
    BY <1>1, <1>4
  <2>2. off[N - 1] \in Nat /\ off[N - 1] < n
    BY <1>1, <2>1
  <2>3. InRun(n, N, off, N) /\ n # 0
    BY <1>1, <2>1, <2>2 DEF InRun
  <2>4. PICK q : q = acc[n].run
    OBVIOUS
  <2>5. InRun(n, q, off, N)
    BY <1>2, <2>3, <2>4 DEF Reached
  <2>6. N = q
    BY <1>1, <2>1, <2>3, <2>5, InOneRun
  <2> QED BY <1>1, <1>4, <2>4, <2>6
<1> QED BY <1>1, <1>3, <1>4

\* The same uses, counted from the run's first row.
Shifted(S, mode, U, own, o) ==
  /\ U \in SUBSET Nat /\ o \in Nat
  /\ \A i \in U : o + i \in S /\ own[i] = mode[o + i]
  /\ \A j \in S : \E i \in U : j = o + i

LEMMA TellsShift ==
  ASSUME NEW use, NEW mode, NEW S, NEW own, NEW U, NEW o, Tells(use, mode, S),
         Shifted(S, mode, U, own, o)
  PROVE  Tells(use, own, U)
<1> USE DEF Shifted
<1>0. \A i, j \in Nat : i < j => o + i < o + j
  OBVIOUS
<1>1. use \in Usage
  BY DEF Tells
<1>2. use = "none" => \A i \in U : own[i] = "stat"
  BY DEF Tells
<1>3. ASSUME use = "written" PROVE \E i \in U : own[i] = "write" /\ \A k \in U : k < i => own[k] = "stat"
  <2>1. PICK j \in S : mode[j] = "write" /\ \A k \in S : k < j => mode[k] = "stat"
    BY <1>3 DEF Tells
  <2>2. PICK i \in U : j = o + i
    OBVIOUS
  <2>3. own[i] = "write" /\ \A k \in U : k < i => own[k] = "stat"
    BY <1>0, <2>1, <2>2
  <2> QED BY <2>3
<1>4. use = "read" => (\E i \in U : own[i] \notin {"stat", "write"}) /\ \A i \in U : own[i] # "write"
  BY DEF Tells
<1>5. ASSUME use = "read then written"
      PROVE  /\ \E i \in U : own[i] = "write"
             /\ \E i \in U : own[i] \notin {"stat", "write"} /\ \A k \in U : k < i => own[k] = "stat"
  <2>1. PICK j \in S : mode[j] \notin {"stat", "write"} /\ \A k \in S : k < j => mode[k] = "stat"
    BY <1>5 DEF Tells
  <2>2. PICK i \in U : j = o + i
    OBVIOUS
  <2>3. own[i] \notin {"stat", "write"} /\ \A k \in U : k < i => own[k] = "stat"
    BY <1>0, <2>1, <2>2
  <2>4. \E k \in U : own[k] = "write"
    <3>1. PICK x \in S : mode[x] = "write"
      BY <1>5 DEF Tells
    <3>2. PICK k \in U : x = o + k
      OBVIOUS
    <3>3. own[k] = "write"
      BY <3>1, <3>2
    <3> QED BY <3>3
  <2> QED BY <2>3, <2>4
<1> QED BY <1>1, <1>2, <1>3, <1>4, <1>5 DEF Tells

\* What the use of a file is, from the modes of its rows.
What(use, mode, U) ==
  LET rw == {i \in U : mode[i] # "stat"}
  IN  /\ use = "written" <=> rw # {} /\ mode[Min(rw)] = "write"
      /\ (\A i \in U : mode[i] # "exec") =>
           (use = "read" <=> (\E i \in U : mode[i] = "read") /\ \A i \in U : mode[i] # "write")

LEMMA TellsWhat ==
  ASSUME NEW use, NEW mode, NEW U \in SUBSET Nat, Tells(use, mode, U), \A i \in U : mode[i] \in Modes
  PROVE  What(use, mode, U)
<1> DEFINE rw == {i \in U : mode[i] # "stat"}
<1>1. rw \in SUBSET Nat /\ \A i \in rw : i \in U /\ mode[i] # "stat"
  OBVIOUS
<1>2. ASSUME rw # {} PROVE \E x \in rw : Min(rw) = x /\ \A i \in U : i < x => mode[i] = "stat"
  <2>1. PICK x \in rw : \A y \in rw : x <= y
    BY <1>1, <1>2, LeastOf
  <2>2. Min(rw) = x
    BY <1>1, <2>1, MinIs
  <2>3. \A i \in U : i < x => mode[i] = "stat"
    <3>1. \A i, j \in Nat : i < j => ~(j <= i)
      OBVIOUS
    <3> QED BY <1>1, <2>1, <3>1
  <2> QED BY <2>2, <2>3
<1>3. ASSUME NEW j \in U, mode[j] # "stat", \A i \in U : i < j => mode[i] = "stat"
      PROVE  rw # {} /\ Min(rw) = j
  <2>1. j \in rw
    BY <1>3
  <2>2. \A y \in rw : j <= y
    <3>1. \A i, k \in Nat : ~(i < k) => k <= i
      OBVIOUS
    <3> QED BY <1>1, <1>3, <3>1
  <2> QED BY <1>1, <2>1, <2>2, MinIs
<1>4. use = "none" => ~(rw # {} /\ mode[Min(rw)] = "write") /\ ~\E i \in U : mode[i] = "read"
  BY DEF Tells
<1>5. ASSUME use = "written"
      PROVE  rw # {} /\ mode[Min(rw)] = "write" /\ \E i \in U : mode[i] = "write"
  <2>1. PICK j \in U : mode[j] = "write" /\ \A i \in U : i < j => mode[i] = "stat"
    BY <1>5 DEF Tells
  <2> QED BY <1>3, <2>1
<1>6. ASSUME use = "read"
      PROVE  /\ ~(rw # {} /\ mode[Min(rw)] = "write") /\ \A i \in U : mode[i] # "write"
             /\ (\A i \in U : mode[i] # "exec") => \E i \in U : mode[i] = "read"
  <2>1. (\E j \in U : mode[j] \notin {"stat", "write"}) /\ \A j \in U : mode[j] # "write"
    BY <1>6 DEF Tells
  <2> QED BY <1>1, <1>2, <2>1 DEF Modes
<1>7. ASSUME use = "read then written"
      PROVE  ~(rw # {} /\ mode[Min(rw)] = "write") /\ \E i \in U : mode[i] = "write"
  <2>1. PICK j \in U : mode[j] \notin {"stat", "write"} /\ \A i \in U : i < j => mode[i] = "stat"
    BY <1>7 DEF Tells
  <2>2. mode[Min(rw)] # "write"
    BY <1>3, <2>1
  <2> QED BY <1>7, <2>2 DEF Tells
<1>8. use \in Usage
  BY DEF Tells
<1>9. /\ use = "written" <=> rw # {} /\ mode[Min(rw)] = "write"
      /\ (\A i \in U : mode[i] # "exec") =>
           (use = "read" <=> (\E i \in U : mode[i] = "read") /\ \A i \in U : mode[i] # "write")
  <2> HIDE DEF rw
  <2> QED BY <1>4, <1>5, <1>6, <1>7, <1>8 DEF Usage
<1> QED BY <1>9 DEF What

\* What the loop makes of each run's uses of the files never executed.
UsesRight(s, r, f) ==
  /\ f \in s.access_files[r] <=> f \in disk /\ Uses(trace[r].rows, f) # {}
  /\ f \notin s.executed
  /\ s.runs[r][f] = "written" <=> WritesFirst(r, f)
  /\ s.runs[r][f] = "read" <=> OnlyReads(r, f)

\* The uses of a file by run r, in the rows of all and in its own.
UsesAt(off, L, n, rows, r, f) ==
  /\ off[r - 1] \in Nat /\ DOMAIN trace[r].rows = 1 .. L[r]
  /\ Uses(trace[r].rows, f) \in SUBSET (1 .. L[r]) /\ L[r] \in Nat
  /\ \A i \in 1 .. L[r] : off[r - 1] + i \in 1 .. n /\ rows[off[r - 1] + i] = trace[r].rows[i]
  /\ \A i \in Uses(trace[r].rows, f) : off[r - 1] + i \in UsesIn(rows, off, r, n, f)
  /\ \A j \in UsesIn(rows, off, r, n, f) : \E i \in Uses(trace[r].rows, f) : j = off[r - 1] + i

LEMMA UsesPlaced ==
  ASSUME trace \in Seq(Run), NEW N \in Nat, N = Len(trace), NEW off, NEW L, Placed(off, L, N, trace),
         NEW rows, rows = Rows(trace), NEW n \in Nat, n = Len(rows), NEW r \in 1 .. N, NEW f
  PROVE  UsesAt(off, L, n, rows, r, f)
<1>1. /\ off \in [0 .. N -> Nat] /\ off[N] = n /\ L \in [1 .. N -> Nat]
      /\ L[r] = Len(trace[r].rows) /\ off[r] = off[r - 1] + L[r]
      /\ \A i \in 1 .. L[r] : off[r - 1] + i \in 1 .. n /\ rows[off[r - 1] + i] = trace[r].rows[i]
  BY DEF Placed
<1>2. r - 1 \in 0 .. N
  OBVIOUS
<1>3. PICK o \in Nat, m \in Nat : o = off[r - 1] /\ m = L[r]
  BY <1>1, <1>2
<1>4. DOMAIN trace[r].rows = 1 .. m
  BY <1>1, <1>3, RunTyped
<1>5. Uses(trace[r].rows, f) = {i \in 1 .. m : trace[r].rows[i].file = f}
  BY <1>4 DEF Uses
<1>6. UsesIn(rows, off, r, n, f) = {j \in 1 .. n : o < j /\ j <= o + m /\ rows[j].file = f}
  BY <1>1, <1>3 DEF UsesIn
<1>7. \A i \in 1 .. m : o + i \in 1 .. n /\ rows[o + i] = trace[r].rows[i] /\ o < o + i /\ o + i <= o + m
  BY <1>1, <1>3
<1>8. ASSUME NEW j \in 1 .. n, o < j, j <= o + m PROVE \E i \in 1 .. m : j = o + i
  <2>1. j - o \in 1 .. m /\ j = o + (j - o)
    BY <1>8
  <2> QED BY <2>1
<1>9. \A i \in Uses(trace[r].rows, f) : o + i \in UsesIn(rows, off, r, n, f)
  BY <1>5, <1>6, <1>7
<1>10. ASSUME NEW j \in UsesIn(rows, off, r, n, f) PROVE \E i \in Uses(trace[r].rows, f) : j = o + i
  <2>1. j \in 1 .. n /\ o < j /\ j <= o + m /\ rows[j].file = f
    BY <1>6, <1>10
  <2>2. PICK i \in 1 .. m : j = o + i
    BY <1>8, <2>1
  <2>3. trace[r].rows[i].file = f
    BY <1>7, <2>1, <2>2
  <2> QED BY <1>5, <2>2, <2>3
<1> QED BY <1>1, <1>3, <1>4, <1>5, <1>9, <1>10 DEF UsesAt

LEMMA UsesAre ==
  ASSUME trace \in Seq(Run), disk \in SUBSET Files, AllExecuted, NEW last \in Nat, Ordered(trace, last)
  PROVE  /\ Accounted(trace, disk).run = IF Len(trace) = 0 THEN 1 ELSE Len(trace)
         /\ \A f \in Files : ~EverExecuted(f) =>
               \A r \in 1 .. Len(trace) : UsesRight(Accounted(trace, disk), r, f)
<1>1. PICK N, rows : N \in Nat /\ N = Len(trace) /\ rows = Rows(trace)
  OBVIOUS
<1>2. PICK n \in Nat : n = Len(rows)
  <2>1. rows \in Seq(Row)
    BY <1>1, RowsTyped
  <2> QED BY <2>1
<1>3. PICK off, L : Placed(off, L, N, trace)
  BY <1>1, RowsPlaced
<1>4. PICK ts, at, acc : Looped(trace, disk, N, n, off, rows, ts, at, acc) /\ Accounted(trace, disk) = acc[n]
  <2>1. N \in Nat /\ N = Len(trace) /\ rows = Rows(trace) /\ n \in Nat /\ n = Len(rows)
        /\ Placed(off, L, N, trace)
    BY <1>1, <1>2, <1>3
  <2>2. Loop(trace, disk, N, n, off, rows)
    BY <2>1, LoopedExists
  <2> QED BY <2>2 DEF Loop
<1>p. \A r \in 1 .. N : \A f : UsesAt(off, L, n, rows, r, f)
  BY <1>1, <1>2, <1>3, UsesPlaced
<1>5. ASSUME NEW r \in 1 .. N PROVE off[r - 1] < off[r]
  <2>1. Executed(trace[r])
    BY <1>1, <1>5 DEF AllExecuted
  <2>2. \E i \in DOMAIN trace[r].rows : TRUE
    BY <2>1 DEF Executed
  <2>3. off[r - 1] \in Nat /\ L[r] \in Nat /\ \E i \in 1 .. L[r] : TRUE
    BY <1>p, <2>2 DEF UsesAt
  <2>4. off[r] = off[r - 1] + L[r]
    BY <1>3 DEF Placed
  <2>5. PICK o \in Nat, m \in Nat : o = off[r - 1] /\ m = L[r]
    BY <2>3
  <2>6. m # 0
    BY <2>3, <2>5
  <2> QED BY <2>4, <2>5, <2>6
<1>6. acc[n].run = IF N = 0 THEN 1 ELSE N
  BY <1>4, <1>5, AllReached
<1>7. ASSUME NEW f \in Files, ~EverExecuted(f), NEW r \in 1 .. N PROVE UsesRight(acc[n], r, f)
  <2> DEFINE mode == [j \in 1 .. n |-> rows[j].mode]
             U == Uses(trace[r].rows, f)
             S == UsesIn(rows, off, r, n, f)
             own == [i \in 1 .. L[r] |-> trace[r].rows[i].mode]
             rw == {i \in U : own[i] # "stat"}
  <2>1. PICK o \in Nat, m \in Nat :
          /\ o = off[r - 1] /\ m = L[r] /\ U \in SUBSET (1 .. m)
          /\ \A i \in 1 .. m : o + i \in 1 .. n /\ rows[o + i] = trace[r].rows[i]
          /\ \A i \in U : o + i \in S
          /\ \A j \in S : \E i \in U : j = o + i
    <3>1. UsesAt(off, L, n, rows, r, f)
      BY <1>p
    <3> QED BY <3>1 DEF UsesAt
  <2>2. Tells(acc[n].runs[r][f], mode, S)
    BY <1>4, RunTold
  <2>3. \A i \in U : own[i] = mode[o + i] /\ own[i] = trace[r].rows[i].mode
    BY <2>1
  <2>4. \A q \in 1 .. N : \A i \in Uses(trace[q].rows, f) : trace[q].rows[i].mode # "exec"
    BY <1>1, <1>7 DEF EverExecuted, ModesOf
  <2>5. \A i \in U : own[i] \in Modes /\ own[i] # "exec"
    <3>1. \A j \in 1 .. n : rows[j].mode \in Modes
      BY <1>4 DEF Looped
    <3> QED BY <2>1, <2>3, <2>4, <3>1
  <2>6. \A j \in 1 .. n : rows[j].file = f => rows[j].mode # "exec"
    <3> TAKE j \in 1 .. n
    <3> HAVE rows[j].file = f
    <3>1. PICK q \in 1 .. N : InRun(j, q, off, N)
      BY <1>4 DEF Looped, Laid
    <3>2. j \in UsesIn(rows, off, q, n, f)
      BY <3>1 DEF UsesIn, InRun
    <3>3. PICK i \in Uses(trace[q].rows, f) : j = off[q - 1] + i
      <4>1. UsesAt(off, L, n, rows, q, f)
        BY <1>p
      <4> QED BY <3>2, <4>1 DEF UsesAt
    <3>4. rows[j] = trace[q].rows[i]
      <4>1. UsesAt(off, L, n, rows, q, f)
        BY <1>p
      <4>2. i \in 1 .. L[q]
        BY <3>3, <4>1 DEF UsesAt
      <4> QED BY <3>3, <4>1, <4>2 DEF UsesAt
    <3> QED BY <2>4, <3>3, <3>4
  <2>7. WritesFirst(r, f) <=> rw # {} /\ own[Min(rw)] = "write"
    <3>1. rw = {i \in Uses(trace[r].rows, f) : trace[r].rows[i].mode # "stat"}
      BY <2>3
    <3>2. rw # {} => Min(rw) \in U
      <4>1. rw \in SUBSET Nat /\ \A i \in rw : i \in U
        BY <2>1
      <4>2. ASSUME rw # {} PROVE Min(rw) \in U
        <5> HIDE DEF rw, U
        <5>1. PICK x \in rw : \A y \in rw : x <= y
          BY <4>1, <4>2, LeastOf
        <5>2. Min(rw) = x
          BY <4>1, <5>1, MinIs
        <5> QED BY <4>1, <5>2
      <4> QED BY <4>2
    <3>3. rw # {} => own[Min(rw)] = trace[r].rows[Min(rw)].mode
      BY <2>3, <3>2
    <3>4. WritesFirst(r, f) <=> rw # {} /\ trace[r].rows[Min(rw)].mode = "write"
      BY <3>1 DEF WritesFirst
    <3> QED BY <3>3, <3>4
  <2>8. OnlyReads(r, f) <=> (\E i \in U : own[i] = "read") /\ \A i \in U : own[i] # "write"
    <3>1. OnlyReads(r, f) <=> /\ \E i \in Uses(trace[r].rows, f) : trace[r].rows[i].mode = "read"
                              /\ \A i \in Uses(trace[r].rows, f) : trace[r].rows[i].mode # "write"
      BY DEF OnlyReads, ModesOf
    <3>2. U = Uses(trace[r].rows, f)
      OBVIOUS
    <3> HIDE DEF U, own
    <3> QED BY <2>3, <3>1, <3>2
  <2>9. /\ f \notin acc[n].executed
        /\ f \in acc[n].access_files[r] <=> f \in disk /\ S # {}
    BY <1>4, <2>6, RunAccessed
  <2>10. U \in SUBSET Nat /\ (S # {} <=> U # {})
    BY <2>1
  <2>11. U # {} <=> Uses(trace[r].rows, f) # {}
    OBVIOUS
  <2>12. rw = {i \in U : own[i] # "stat"}
    OBVIOUS
  <2> HIDE DEF mode, U, S, own, rw
  <2>14. PICK use : use = acc[n].runs[r][f]
    OBVIOUS
  <2>a. (\A i \in U : o + i \in S /\ own[i] = mode[o + i]) /\ \A j \in S : \E i \in U : j = o + i
    BY <2>1, <2>3
  <2>13. Tells(use, own, U)
    <3>1. Shifted(S, mode, U, own, o)
      BY <2>10, <2>a DEF Shifted
    <3>2. Tells(use, mode, S)
      BY <2>2, <2>14
    <3> QED BY <3>1, <3>2, TellsShift, Zenon
  <2>b. (\A i \in U : own[i] \in Modes) /\ \A i \in U : own[i] # "exec"
    BY <2>5
  <2>15. /\ use = "written" <=> rw # {} /\ own[Min(rw)] = "write"
         /\ use = "read" <=> (\E i \in U : own[i] = "read") /\ \A i \in U : own[i] # "write"
    <3>1. What(use, own, U)
      BY <2>10, <2>13, <2>b, TellsWhat, Zenon
    <3> QED BY <2>12, <2>b, <3>1, Zenon DEF What
  <2> QED BY <2>7, <2>8, <2>9, <2>10, <2>11, <2>14, <2>15 DEF UsesRight
<1> QED BY <1>1, <1>4, <1>6, <1>7

\* The configuration lists each file for the runs that use it.
UseRight(c) ==
  \A f \in c.disk \ (Magic \cup System) : ~EverExecuted(f) =>
     /\ c.use[f].write_runs = {r \in DOMAIN trace : WritesFirst(r, f)}
     /\ c.use[f].read_runs  = IF f \in Hidden THEN {} ELSE {r \in DOMAIN trace : OnlyReads(r, f)}

UseInv ==
  /\ Settles /\ NoReboot => UseRight(config)
  /\ pc = "saving" /\ Plain /\ (loc.all \/ Clean) /\ NoReboot => UseRight(loc.config)

\* What izip() leaves of the inputs and outputs of each run.
UsedIn(use, f, N, inputs, outputs) ==
  /\ use.read_runs = {r \in 1 .. N : f \in inputs[r]}
  /\ use.write_runs = {r \in 1 .. N : f \in outputs[r]}

LEMMA Zipped ==
  ASSUME NEW N \in Nat, NEW run, run = IF N = 0 THEN 1 ELSE N, NEW inputs, NEW outputs,
         DOMAIN inputs = 1 .. run, DOMAIN outputs = 1 .. run, NEW f, NEW io,
         io = compile_inputs_outputs(N, inputs, outputs), NEW use,
         use = IF f \in DOMAIN io THEN io[f] ELSE [read_runs |-> {}, write_runs |-> {}]
  PROVE  UsedIn(use, f, N, inputs, outputs)
<1> DEFINE D == UNION {inputs[r] \cup outputs[r] : r \in DOMAIN inputs}
           In(g) == {r \in (1 .. N) \cap DOMAIN inputs : g \in inputs[r]}
           Out(g) == {r \in (1 .. N) \cap DOMAIN inputs : g \in outputs[r]}
<1>1. io = [g \in D |-> [read_runs |-> In(g), write_runs |-> Out(g)]]
  BY DEF compile_inputs_outputs
<1>2. (1 .. N) \cap DOMAIN inputs = 1 .. N
  OBVIOUS
<1>3. In(f) = {r \in 1 .. N : f \in inputs[r]} /\ Out(f) = {r \in 1 .. N : f \in outputs[r]}
  BY <1>2
<1>4. f \notin D => In(f) = {} /\ Out(f) = {}
  OBVIOUS
<1> HIDE DEF D, In, Out
<1> QED BY <1>1, <1>3, <1>4 DEF UsedIn

LEMMA UseIs ==
  ASSUME TypeInv, TimeInv, Plain, NoReboot, NEW overwrite, Runs(overwrite) = Numbers(Len(trace)), NEW sort
  PROVE  UseRight(Configuration(overwrite, sort))
<1> DEFINE s == Accounted(trace, disk)
           Of(r, use) == {f \in s.access_files[r] \cap disk : s.runs[r][f] = use} \ (Magic \cup System)
           inputs == [r \in 1 .. s.run |-> Of(r, "read") \ (s.executed \cup Hidden)]
           outputs == [r \in 1 .. s.run |-> Of(r, "written")]
<1>1. trace \in Seq(Run) /\ disk \in SUBSET Files /\ clock \in Nat
  BY DEF TypeInv, TypeOK
<1>2. Ordered(trace, clock) /\ AllExecuted
  BY DEF TimeInv, Plain
<1>3. PICK N \in Nat : N = Len(trace)
  BY <1>1
<1>4. Found.inputs = inputs /\ Found.outputs = outputs
  <2>1. Found = [files |-> {f \in s.seen : s.what[f] # "written"} \ Magic, inputs |-> inputs, outputs |-> outputs]
    BY FilesGot DEF Found
  <2> HIDE DEF inputs, outputs, s
  <2> QED BY <2>1
<1>5. DOMAIN inputs = 1 .. s.run /\ DOMAIN outputs = 1 .. s.run
  OBVIOUS
<1>6. s.run = IF N = 0 THEN 1 ELSE N
  BY <1>1, <1>2, <1>3, UsesAre
<1>7. \A f \in Files : ~EverExecuted(f) => \A r \in 1 .. N : UsesRight(s, r, f)
  BY <1>1, <1>2, <1>3, UsesAre
<1>8. ASSUME NEW f \in disk \ (Magic \cup System), ~EverExecuted(f), NEW r \in 1 .. N
      PROVE  /\ f \in outputs[r] <=> WritesFirst(r, f)
             /\ f \in inputs[r] <=> f \notin Hidden /\ OnlyReads(r, f)
  <2>1. UsesRight(s, r, f)
    BY <1>1, <1>7, <1>8
  <2>2. r \in 1 .. s.run
    BY <1>6
  <2> HIDE DEF s
  <2>3. WritesFirst(r, f) \/ OnlyReads(r, f) => Uses(trace[r].rows, f) # {}
    BY DEF WritesFirst, OnlyReads, ModesOf
  <2>4. /\ f \in s.access_files[r] <=> f \in disk /\ Uses(trace[r].rows, f) # {}
        /\ f \notin s.executed
        /\ s.runs[r][f] = "written" <=> WritesFirst(r, f)
        /\ s.runs[r][f] = "read" <=> OnlyReads(r, f)
    BY <2>1 DEF UsesRight
  <2>5. f \in outputs[r] <=> f \in s.access_files[r] /\ s.runs[r][f] = "written"
    BY <1>8, <2>2
  <2>6. f \in inputs[r] <=> f \in s.access_files[r] /\ s.runs[r][f] = "read" /\ f \notin Hidden
    BY <1>8, <2>2, <2>4
  <2> QED BY <1>8, <2>3, <2>4, <2>5, <2>6
<1> DEFINE c == Configuration(overwrite, sort)
<1>9. c.disk = disk /\ c.use = UseOf(overwrite)
  BY ConfigurationIs
<1> HIDE DEF inputs, outputs, s, c
<1>10. Len(Runs(overwrite)) = N
  <2>1. Numbers(N) \in [1 .. N -> Nat]
    BY DEF Numbers
  <2> QED BY <1>3, <2>1, SequenceOf
<1>11. DOMAIN trace = 1 .. N
  BY <1>1, <1>3
<1>12. ASSUME NEW f \in c.disk \ (Magic \cup System), ~EverExecuted(f)
       PROVE  /\ c.use[f].write_runs = {r \in DOMAIN trace : WritesFirst(r, f)}
              /\ c.use[f].read_runs  = IF f \in Hidden THEN {} ELSE {r \in DOMAIN trace : OnlyReads(r, f)}
  <2>1. PICK io : io = compile_inputs_outputs(N, inputs, outputs)
    OBVIOUS
  <2>2. Io(overwrite) = io /\ f \in Files
    BY <1>1, <1>4, <1>9, <1>10, <1>12, <2>1 DEF Io
  <2>3. PICK use : use = c.use[f]
    OBVIOUS
  <2>4. use = IF f \in DOMAIN io THEN io[f] ELSE [read_runs |-> {}, write_runs |-> {}]
    BY <1>9, <2>2, <2>3 DEF UseOf
  <2>5. PICK run : run = s.run
    OBVIOUS
  <2>6. /\ use.read_runs = {r \in 1 .. N : f \in inputs[r]}
        /\ use.write_runs = {r \in 1 .. N : f \in outputs[r]}
    <3>1. UsedIn(use, f, N, inputs, outputs)
      BY <1>5, <1>6, <2>1, <2>4, <2>5, Zipped
    <3> QED BY <3>1 DEF UsedIn
  <2>7. \A r \in 1 .. N : /\ f \in outputs[r] <=> WritesFirst(r, f)
                          /\ f \in inputs[r] <=> f \notin Hidden /\ OnlyReads(r, f)
    BY <1>8, <1>9, <1>12
  <2> QED BY <1>11, <2>3, <2>6, <2>7
<1> QED BY <1>12 DEF UseRight, c

LEMMA UseInit == Init => UseInv
<1> SUFFICES ASSUME Init PROVE UseInv
  OBVIOUS
<1>1. ~Loads(config) /\ pc = "idle"
  BY DEF Init, Loads, NoConfig
<1> QED BY <1>1 DEF UseInv, Settles

NextRight(e) ==
  \A f \in e.disk \ (Magic \cup System) : ~EverExecuted(f)' =>
     /\ e.use[f].write_runs = {r \in DOMAIN trace' : WritesFirst(r, f)'}
     /\ e.use[f].read_runs  = IF f \in Hidden THEN {} ELSE {r \in DOMAIN trace' : OnlyReads(r, f)'}

\* What a configuration says of the uses does not change with its lists.
LEMMA UseKept ==
  ASSUME UNCHANGED trace, NEW c, NEW e, UseRight(c), e.disk = c.disk, e.use = c.use
  PROVE  NextRight(e)
<1>1. \A f : EverExecuted(f)' <=> EverExecuted(f)
  BY DEF EverExecuted, ModesOf
<1>2. \A r, f : (WritesFirst(r, f)' <=> WritesFirst(r, f)) /\ (OnlyReads(r, f)' <=> OnlyReads(r, f))
  BY DEF WritesFirst, OnlyReads, ModesOf
<1> QED BY <1>1, <1>2 DEF UseRight, NextRight

\* A step that leaves alone the runs and what the configuration says of them.
LEMMA UseQuiet ==
  ASSUME UseInv, UNCHANGED <<trace, schema>>, pc \notin {"configuring", "saving"},
         pc' \notin {"configuring", "saving"}, Clean' => Clean, NoReboot' => NoReboot,
         Loads(config)' => Loads(config) /\ config'.use = config.use /\ config'.disk = config.disk
  PROVE  UseInv'
<1>1. AllExecuted' <=> AllExecuted
  BY DEF AllExecuted, Executed
<1>2. Settles' => Settles /\ Loads(config)'
  BY <1>1 DEF Settles, Plain
<1>3. ASSUME Settles', NoReboot' PROVE UseRight(config)'
  <2>1. UseRight(config)
    BY <1>2, <1>3 DEF UseInv
  <2>2. PICK c, e : c = config /\ e = config'
    OBVIOUS
  <2>3. e.use = c.use /\ e.disk = c.disk /\ UseRight(c)
    BY <1>2, <1>3, <2>1, <2>2
  <2>4. NextRight(e)
    BY <2>3, UseKept
  <2> QED BY <2>2, <2>4 DEF NextRight, UseRight
<1> QED BY <1>3 DEF UseInv

LEMMA UseStep == TypeInv /\ RunsInv /\ TimeInv /\ UseInv /\ [Next]_vars => UseInv'
<1> SUFFICES ASSUME TypeInv, RunsInv, TimeInv, UseInv, [Next]_vars PROVE UseInv'
  OBVIOUS
<1>0. config \in Config \cup {NoConfig}
  BY DEF TypeInv, TypeOK
<1>a. UNCHANGED trace => (AllExecuted' <=> AllExecuted)
  BY DEF AllExecuted, Executed
<1>c. UNCHANGED config => (Loads(config)' <=> Loads(config)) /\ config'.use = config.use /\ config'.disk = config.disk
  BY DEF Loads
<1>d. UNCHANGED gaps => (Clean' <=> Clean) /\ (NoReboot' <=> NoReboot)
  BY DEF Clean, NoReboot
<1>e. ASSUME pc' \notin {"configuring", "saving"}, Settles' /\ NoReboot' => UseRight(config)' PROVE UseInv'
  BY <1>e DEF UseInv
<1>f. ASSUME pc' = "configuring" \/ (pc' # "saving" /\ (~Loads(config)' \/ ~Clean')) PROVE UseInv'
  BY <1>f DEF UseInv, Settles
<1>1. CASE UNCHANGED vars
  <2>1. UNCHANGED <<trace, config, schema, gaps, pc, loc>>
    BY <1>1 DEF vars
  <2>2. ASSUME Settles', NoReboot' PROVE UseRight(config)'
    <3>1. UseRight(config)
      BY <1>a, <1>c, <1>d, <2>1, <2>2 DEF UseInv, Settles, Plain
    <3>2. PICK c, e : c = config /\ e = config'
      OBVIOUS
    <3>3. e.disk = c.disk /\ e.use = c.use /\ UseRight(c) /\ UNCHANGED trace
      BY <2>1, <3>1, <3>2
    <3>4. NextRight(e)
      BY <3>3, UseKept
    <3> QED BY <3>2, <3>4 DEF NextRight, UseRight
  <2>3. ASSUME (pc = "saving" /\ Plain /\ (loc.all \/ Clean) /\ NoReboot)' PROVE UseRight(loc.config)'
    <3>1. UseRight(loc.config)
      BY <1>a, <1>d, <2>1, <2>3 DEF UseInv, Plain
    <3>2. PICK c, e : c = loc.config /\ e = loc'.config
      OBVIOUS
    <3>3. e.disk = c.disk /\ e.use = c.use /\ UseRight(c) /\ UNCHANGED trace
      BY <2>1, <3>1, <3>2
    <3>4. NextRight(e)
      BY <3>3, UseKept
    <3> QED BY <3>2, <3>4 DEF NextRight, UseRight
  <2> QED BY <2>2, <2>3 DEF UseInv
<1>2. CASE Trace
  <2>1. pc = "idle" /\ pc' = "tracing"
    BY <1>2 DEF Trace, Idle, Step
  <2>2. CASE UNCHANGED <<trace, schema, config, gaps>>
    BY <2>1, <2>2, <1>c, <1>d, UseQuiet
  <2>3. CASE config' = NoConfig
    <3>1. ~Loads(config)'
      BY <2>3 DEF Loads, NoConfig
    <3> QED BY <1>f, <2>1, <3>1
  <2> QED BY <1>2, <2>2, <2>3 DEF Trace
<1>3. CASE TracerCommits
  <2>1. pc' = "configuring"
    BY <1>3 DEF TracerCommits, Step
  <2> QED BY <1>f, <2>1
<1>4. CASE TracerFails \/ PackStarts \/ PackAdds \/ PackEnds \/ PackFails \/ RemoveFile \/ RemovePack
  <2>1. /\ pc \notin {"configuring", "saving"} /\ pc' \notin {"configuring", "saving"}
        /\ UNCHANGED <<trace, schema, config, gaps>>
    BY <1>4 DEF TracerFails, PackStarts, PackAdds, PackEnds, PackFails, RemoveFile, RemovePack,
                Idle, Step, Return
  <2> QED BY <2>1, <1>c, <1>d, UseQuiet
<1>5. CASE Configure
  <2>1. pc = "configuring" /\ UNCHANGED <<schema, trace>>
    BY <1>5 DEF Configure
  <2>2. CASE Return /\ gaps' = gaps \cup {"killed"}
    <3>1. ~Clean' /\ pc' = "idle"
      BY <2>2 DEF Clean, Return, Step
    <3> QED BY <1>f, <3>1
  <2>3. ASSUME NEW sort \in BOOLEAN, NEW c, c = Configuration(loc.overwrite, sort),
               loc.overwrite \/ ~config.exists \/ Loads(config),
               Step("saving", [all |-> loc.overwrite \/ ~config.exists, config |-> c]), UNCHANGED gaps
        PROVE  UseInv'
    <3>1. pc' = "saving" /\ loc'.config = c /\ (loc'.all <=> loc.overwrite \/ ~config.exists)
      BY <2>3 DEF Step
    <3>2. ASSUME Plain, loc.overwrite \/ ~config.exists \/ Clean, NoReboot PROVE UseRight(c)
      <4>1. loc.overwrite \/ ~config.exists \/ (Len(trace) # 0 /\ config.runs = Numbers(Len(trace) - 1))
        BY <2>1, <2>3, <3>2 DEF RunsInv
      <4>2. PICK overwrite : overwrite = loc.overwrite
        OBVIOUS
      <4>3. trace \in Seq(Run) /\ AllExecuted
        BY <3>2 DEF TypeInv, TypeOK, Plain
      <4>4. Runs(overwrite) = Numbers(Len(trace))
        BY <4>1, <4>2, <4>3, RunsAre
      <4>5. UseRight(Configuration(overwrite, sort))
        BY <3>2, <4>4, UseIs
      <4> QED BY <2>3, <4>2, <4>5
    <3>3. Plain' /\ (loc'.all \/ Clean') /\ NoReboot' => Plain /\ (loc.overwrite \/ ~config.exists \/ Clean) /\ NoReboot
      BY <1>a, <1>d, <2>1, <2>3, <3>1 DEF Plain
    <3>4. ASSUME (pc = "saving" /\ Plain /\ (loc.all \/ Clean) /\ NoReboot)' PROVE UseRight(loc.config)'
      <4>1. UseRight(c)
        BY <3>2, <3>3, <3>4
      <4>2. PICK e : e = loc'.config
        OBVIOUS
      <4>3. e.disk = c.disk /\ e.use = c.use /\ UseRight(c) /\ UNCHANGED trace
        BY <2>1, <3>1, <4>1, <4>2
      <4>4. NextRight(e)
        BY <4>3, UseKept
      <4> QED BY <4>2, <4>4 DEF NextRight, UseRight
    <3>5. ~Settles'
      BY <3>1 DEF Settles
    <3> QED BY <3>4, <3>5 DEF UseInv
  <2> QED BY <1>5, <2>2, <2>3 DEF Configure
<1>6. CASE Save
  <2>1. /\ pc = "saving" /\ pc' = "idle" /\ config' = loc.config /\ UNCHANGED <<schema, trace>>
        /\ gaps' = IF loc.all THEN gaps \ {"killed"} ELSE gaps
    BY <1>6 DEF Save, Return, Step
  <2>2. Settles' /\ NoReboot' => Plain /\ (loc.all \/ Clean) /\ NoReboot
    BY <1>a, <2>1 DEF Settles, Plain, Clean, NoReboot
  <2>3. ASSUME Settles', NoReboot' PROVE UseRight(config)'
    <3>1. UseRight(loc.config)
      BY <2>1, <2>2, <2>3 DEF UseInv
    <3>2. PICK c, e : c = loc.config /\ e = config'
      OBVIOUS
    <3>3. e.disk = c.disk /\ e.use = c.use /\ UseRight(c) /\ UNCHANGED trace
      BY <2>1, <3>1, <3>2
    <3>4. NextRight(e)
      BY <3>3, UseKept
    <3> QED BY <3>2, <3>4 DEF NextRight, UseRight
  <2> QED BY <1>e, <2>1, <2>3
<1>7. CASE Reset \/ Combine
  <2>1. pc' = "configuring"
    BY <1>7 DEF Reset, Combine, Step
  <2> QED BY <1>f, <2>1
<1>8. CASE EditConfig
  <2>1. pc = "idle" /\ Loads(config) /\ UNCHANGED <<trace, schema, pc, gaps>>
    BY <1>8 DEF EditConfig, Idle
  <2>2. config \in Config
    BY <1>0, <2>1, LoadedTyped DEF Loads
  <2>3. config'.use = config.use /\ config'.disk = config.disk
    BY <1>8, <2>2 DEF EditConfig, Config
  <2> QED BY <2>1, <2>3, <1>d, UseQuiet
<1>9. CASE Kill
  <2>1. pc' = "idle" /\ UNCHANGED <<trace, schema, config>>
    BY <1>9 DEF Kill, Return, Step
  <2>2. CASE pc = "tracing"
    <3>1. UNCHANGED gaps
      BY <1>9, <2>2 DEF Kill
    <3> QED BY <2>1, <2>2, <3>1, <1>c, <1>d, UseQuiet
  <2>3. CASE pc = "configuring" /\ ~config.exists
    <3>1. ~Loads(config)'
      BY <2>1, <2>3 DEF Loads
    <3> QED BY <1>f, <2>1, <3>1
  <2>4. CASE ~(pc = "tracing" \/ (pc = "configuring" /\ ~config.exists))
    <3>1. ~Clean'
      BY <1>9, <2>4 DEF Kill, Clean
    <3> QED BY <1>f, <2>1, <3>1
  <2> QED BY <2>2, <2>3, <2>4
<1>10. CASE Reboot
  <2>1. pc = "idle" /\ UNCHANGED <<trace, schema, config, pc>> /\ (Clean' => Clean) /\ (NoReboot' => NoReboot)
    BY <1>10 DEF Reboot, Idle, Clean, NoReboot
  <2> QED BY <2>1, <1>c, UseQuiet
<1> QED BY <1>1, <1>2, <1>3, <1>4, <1>5, <1>6, <1>7, <1>8, <1>9, <1>10 DEF Next

LEMMA UseConclude == UseInv => FilesOfTheirRuns
<1> SUFFICES ASSUME UseInv, Settled, NoReboot PROVE UseRight(config)
  BY DEF FilesOfTheirRuns, UseRight, NoReboot
<1>1. Settles
  BY DEF Settles, Settled, Idle, Plain, Clean
<1> QED BY <1>1 DEF UseInv

-----------------------------------------------------------------------------
(* All of them together. *)

PackingInv == TypeInv /\ RunsInv /\ Counted /\ TimeInv /\ CompleteInv /\ UseInv

LEMMA PackingInductive == Spec => []PackingInv
<1>1. Init => PackingInv
  BY TypeInit, RunsInit, CompleteInit, UseInit DEF PackingInv
<1>2. PackingInv /\ [Next]_vars => PackingInv'
  BY TypeStep, RunsStep, CountedStep, TimeStep, CompleteStep, UseStep DEF PackingInv
<1> QED BY <1>1, <1>2, PTL DEF Spec

\* Whatever sequence of commands, failures, kills, edits and reboots, the state
\* is well typed: Configuration(), Canonical() and combine_traces() build
\* configurations that load_config() reads back, of runs that exist.
THEOREM PackTyped == Spec => []TypeOK
<1>1. PackingInv => TypeOK
  BY DEF PackingInv, TypeInv
<1> QED BY <1>1, PackingInductive, PTL

\* The runs of the configuration are those of the trace, in order: what
\* write_configuration() appends for 'trace --continue' and rebuilds for 'reset'.
THEOREM RunsAreConfigured == Spec => []RunsConfigured
<1>1. PackingInv => RunsConfigured
  BY RunsConclude DEF PackingInv
<1> QED BY <1>1, PackingInductive, PTL

\* get_files() and compile_inputs_outputs() list each file as an input of
\* exactly the runs that only read it, and as an output of exactly those that
\* write it first, although they see nothing but timestamps and counters.
THEOREM FilesAreOfTheirRuns == Spec => []FilesOfTheirRuns
<1>1. PackingInv => FilesOfTheirRuns
  BY UseConclude DEF PackingInv
<1> QED BY <1>1, PackingInductive, PTL

\* A pack made of a configuration as write_configuration() wrote it holds every
\* file that its runs used before they wrote it and that still existed.
THEOREM PacksAreComplete == Spec => []PackComplete
<1>1. PackingInv => PackComplete
  BY DEF PackingInv, CompleteInv
<1> QED BY <1>1, PackingInductive, PTL
=============================================================================
