-------------------------- MODULE ExperimentProofs --------------------------
(***************************************************************************)
(* The unpackers implement Experiment, for every set of files, runs,       *)
(* uploads and faults, and every bound: the files of an experiment change  *)
(* by a run's outputs, an upload or a reset, whatever fails or is killed.  *)
(* On the way: the types, and what becomes of the images that Docker       *)
(* commands replace.                                                       *)
(***************************************************************************)
EXTENDS UnpackersProofs

-----------------------------------------------------------------------------
(* Types. *)

\* What an upload can put in the experiment.
Uploads == LocalFiles \cup {"original", "installed"}
Patches == UNION {[S -> Uploads] : S \in SUBSET IoFiles}

Locals == [runs: SUBSET Runs, wrote: SUBSET IoFiles, told: SUBSET IoFiles,
           specs: Seq(Spec_), staged: Patches, image: Nat, box: Nat,
           then: {"none", "idle", "build", "dir", "vagrant run", "vagrant upload"}]

SharedTypes ==
    /\ dir \in BOOLEAN /\ crashed \in BOOLEAN /\ left \in BOOLEAN
    /\ meta \in Meta \cup {NoMeta} /\ dct \in Meta \cup {NoMeta}
    /\ backup \in [IoFiles -> {"original", "installed", "absent"}]
    /\ stale \in SUBSET IoFiles /\ loc \in Locals

\* The container that a run works in, until it is committed.
BoxPcs  == {"docker run", "docker commit", "docker record"}
BoxHeld == pc \in BoxPcs => loc.box \in BoxIds /\ boxes[loc.box] \in Box

\* A point is not mounted more often than the bound says.
MountRoom ==
    /\ ~left /\ meta.unpacker # "chroot" => mounts = NoMounts
    /\ pc = "mount dev"  => \A p \in Points : mounts[p] < MaxMounts
    /\ pc = "mount pts"  => mounts["pts"] < MaxMounts /\ mounts["proc"] < MaxMounts
    /\ pc = "mount proc" => mounts["proc"] < MaxMounts

\* An unpacked tree is there for the commands that work in it.
TreeInv == meta.unpacker \in {"directory", "chroot"} => fs \in World

\* There is a machine only for the directory it was made for.
MachineInv ==
    /\ ~left /\ meta.unpacker # "vagrant" => vm = NoMachine
    /\ vm.state = "none" => vm = NoMachine
    /\ pc \in VagrantPcs => dct.use_chroot = meta.use_chroot

TypesInv == SharedTypes /\ DockerTypeOK /\ LocalTypeOK /\ VagrantTypeOK

LEMMA RunsOfArgument == ASSUME NEW arg \in RunArgs PROVE GetRuns(arg) \subseteq Runs
<1>1. arg \in Seq(Nat \X Int) /\ NRuns \in Nat
  BY UnpackerAssumption
<1> DEFINE Last(i) == IF arg[i][2] = -1 THEN NRuns - 1 ELSE arg[i][2]
           Bad(i)  == arg[i][1] >= NRuns \/ Last(i) >= NRuns \/ Last(i) < arg[i][1]
<1>2. ASSUME NEW i \in DOMAIN arg, ~ Bad(i) PROVE arg[i][1] .. Last(i) \subseteq Runs
  <2>1. arg[i][1] \in Nat /\ arg[i][2] \in Int
    BY <1>1
  <2> QED
    BY <1>1, <1>2, <2>1 DEF Runs
<1>3. CASE arg # <<>> /\ ~ \E i \in DOMAIN arg : Bad(i)
  <2>1. GetRuns(arg) = UNION {arg[i][1] .. Last(i) : i \in DOMAIN arg}
    BY <1>3 DEF GetRuns
  <2> HIDE DEF Last, Bad
  <2> QED
    BY <1>2, <1>3, <2>1
<1>4. CASE arg = <<>>
  BY <1>4 DEF GetRuns
<1>5. CASE arg # <<>> /\ \E i \in DOMAIN arg : Bad(i)
  BY <1>5 DEF GetRuns
<1> QED
  BY <1>3, <1>4, <1>5

LEMMA OutputsAreFiles == ASSUME NEW rs PROVE OutputsOf(rs) \subseteq IoFiles
BY DEF OutputsOf

LEMMA OutputsGrow == ASSUME NEW rs \in SUBSET Runs PROVE OutputsOf(rs) \subseteq OutputsOf(Runs)
BY DEF OutputsOf

\* What one file specification does to the status and the files of an experiment.
LEMMA SpecsPut ==
  ASSUME SharedTypes, NEW s \in Spec_, SpecOutcome(s) = "put"
  PROVE  /\ s.name \in IoFiles /\ Uploaded(s) \in Uploads /\ Uploaded(s) \in Contents
         /\ \A files \in [IoFiles -> Status] : StatusAfter(files, s) \in [IoFiles -> Status]
         /\ \A set \in SUBSET IoFiles : StaleAfter(set, s) \in SUBSET IoFiles
<1>1. /\ s.name \in IoFiles /\ s.name # "unknown"
      /\ s.from = "restore" \/ s.from \in LocalFiles
      /\ s.from = "restore" => backup[s.name] # "absent"
  BY DEF SpecOutcome, Spec_
<1>2. backup[s.name] \in {"original", "installed", "absent"}
  BY <1>1 DEF SharedTypes
<1> QED
  BY <1>1, <1>2 DEF Uploaded, Uploads, Contents, StatusAfter, StaleAfter, Status

LEMMA SpecsGoOn ==
  ASSUME NEW specs \in Seq(Spec_), specs # <<>>
  PROVE  Head(specs) \in Spec_ /\ Tail(specs) \in Seq(Spec_)
OBVIOUS

LEMMA NothingStaged == <<>> \in Patches /\ NoLoc \in Locals
<1>1. <<>> \in [{} -> Uploads] /\ {} \in SUBSET IoFiles
  BY DEF Uploads
<1>2. <<>> \in Patches
  BY <1>1 DEF Patches
<1> QED
  BY <1>2 DEF NoLoc, Locals

LEMMA StagedTyped ==
  ASSUME NEW name \in IoFiles, NEW c \in Uploads, NEW p \in Patches
  PROVE  Overlay(name, c, p) \in Patches
<1>1. PICK S \in SUBSET IoFiles : p \in [S -> Uploads]
  BY DEF Patches
<1>2. Overlay(name, c, p) \in [S \cup {name} -> Uploads]
  BY <1>1 DEF Overlay
<1>3. S \cup {name} \in SUBSET IoFiles
  OBVIOUS
<1> QED
  BY <1>2, <1>3 DEF Patches

LEMMA PatchTyped ==
  ASSUME NEW p \in Patches, NEW f \in DOMAIN p
  PROVE  f \in IoFiles /\ p[f] \in Uploads
BY DEF Patches

LEMMA StatusTyped ==
  /\ metadata_initial_iofiles \in [IoFiles -> Status]
  /\ \A files \in [IoFiles -> Status] : \A rs : metadata_update_run(files, rs) \in [IoFiles -> Status]
BY DEF metadata_initial_iofiles, metadata_update_run, Status

LEMMA NewMetaTyped ==
  /\ \A type \in {"docker", "directory", "chroot", "vagrant"} : NewMeta(type) \in Meta
  /\ \A b \in BOOLEAN : [NewMeta("vagrant") EXCEPT !.use_chroot = b] \in Meta
BY StatusTyped DEF NewMeta, Meta, Image

LEMMA MetaTyped ==
  ASSUME NEW d \in Meta
  PROVE  /\ d.input_files \in [IoFiles -> Status]
         /\ \A v \in [IoFiles -> Status] : [d EXCEPT !.input_files = v] \in Meta
         /\ \A i \in Nat : [d EXCEPT !.current = i] \in Meta
         /\ \A i \in Nat : [d EXCEPT !.initial = i, !.current = i] \in Meta
         /\ \A b \in BOOLEAN : [d EXCEPT !.mounted = b] \in Meta
         /\ d # NoMeta
<1>1. d # NoMeta
  <2>1. d.unpacker # "none"
    BY DEF Meta
  <2> QED
    BY <2>1 DEF NoMeta
<1> QED
  BY <1>1 DEF Meta, Image

\* A dictionary in use is a whole one.
LEMMA DictTyped ==
  ASSUME SharedTypes, DictInv
  PROVE  /\ meta.unpacker # "none" => meta \in Meta
         /\ pc \in DockerPcs \cup LocalPcs \cup VagrantPcs => dct \in Meta /\ meta \in Meta
<1>1. meta.unpacker # "none" => meta \in Meta
  BY DEF SharedTypes, NoMeta
<1>2. pc \in DockerPcs \cup LocalPcs \cup VagrantPcs => Fields(dct) /\ meta.unpacker # "none"
  BY DEF DictInv
<1> QED
  BY <1>1, <1>2, FieldsNotNone DEF SharedTypes
\* What the steps that are alike do to the types.
LEMMA ReturnTyped ==
  ASSUME SharedTypes, Return, meta' \in Meta \cup {NoMeta},
         dir' \in BOOLEAN, crashed' \in BOOLEAN, left' \in BOOLEAN,
         backup' \in [IoFiles -> {"original", "installed", "absent"}], stale' \in SUBSET IoFiles
  PROVE  SharedTypes'
BY NothingStaged DEF SharedTypes, Return, Call

LEMMA CallTyped ==
  ASSUME SharedTypes, dct' \in Meta \cup {NoMeta}, loc' \in Locals,
         UNCHANGED <<dir, meta, backup, stale, crashed, left>>
  PROVE  SharedTypes'
BY DEF SharedTypes

LEMMA RmTreeTyped ==
  ASSUME SharedTypes, NEW remains \in BOOLEAN, RmTree(remains), Return
  PROVE  SharedTypes'
BY ReturnTyped DEF SharedTypes, RmTree, Nothing

LEMMA UnpackedTyped ==
  ASSUME SharedTypes, NEW m \in Meta, NEW archive \in [IoFiles -> {"original", "installed", "absent"}],
         Unpacked(m, archive), dct' \in Meta \cup {NoMeta}, loc' \in Locals
  PROVE  SharedTypes'
BY DEF SharedTypes, Unpacked

LEMMA LeftBehindTyped ==
  ASSUME SharedTypes, LeftBehind, UNCHANGED <<dct, loc>>
  PROVE  SharedTypes'
BY DEF SharedTypes, LeftBehind

LEMMA CrashTyped ==
  ASSUME SharedTypes, NEW types, Crash(types)
  PROVE  SharedTypes'
<1>1. stale' \in SUBSET IoFiles
  BY DEF Crash, SharedTypes, Locals
<1> QED
  BY <1>1, ReturnTyped DEF Crash, SharedTypes

\* The dictionary is written, and the command goes on or is over.
LEMMA WritesTyped ==
  ASSUME SharedTypes, NEW d \in Meta, Writes(d), KeepDir, UNCHANGED crashed,
         stale' \in SUBSET IoFiles, Return \/ UNCHANGED <<dct, loc>>
  PROVE  SharedTypes'
BY ReturnTyped DEF SharedTypes, Writes, KeepDir

\* Fresh locals of a command.
LEMMA FreshLocals ==
  /\ \A rs \in SUBSET Runs, b, i \in Nat :
        /\ [NoLoc EXCEPT !.runs = rs, !.box = b, !.image = i] \in Locals
        /\ [NoLoc EXCEPT !.runs = rs] \in Locals
  /\ \A specs \in Seq(Spec_), i \in Nat :
        /\ [NoLoc EXCEPT !.specs = specs, !.image = i] \in Locals
        /\ [NoLoc EXCEPT !.specs = specs] \in Locals
  /\ \A then \in {"none", "idle", "build", "dir"}, i \in Nat :
        /\ [NoLoc EXCEPT !.then = then, !.image = i] \in Locals
        /\ [NoLoc EXCEPT !.then = then] \in Locals
  /\ \A b \in Nat : [NoLoc EXCEPT !.box = b] \in Locals
  /\ [NoLoc EXCEPT !.wrote = IoFiles] \in Locals
BY NothingStaged DEF NoLoc, Locals

LEMMA LocalsKept ==
  ASSUME NEW l \in Locals
  PROVE  /\ \A w \in SUBSET IoFiles : [l EXCEPT !.wrote = w] \in Locals
         /\ \A specs \in Seq(Spec_) :
               /\ [l EXCEPT !.specs = specs] \in Locals
               /\ \A p \in Patches, t \in SUBSET IoFiles :
                     [l EXCEPT !.specs = specs, !.staged = p, !.told = t] \in Locals
               /\ \A w, t \in SUBSET IoFiles :
                     [l EXCEPT !.specs = specs, !.wrote = w, !.told = t] \in Locals
         /\ \A i \in Nat : [l EXCEPT !.image = i] \in Locals
         /\ \A then \in {"none", "idle", "build", "dir", "vagrant run", "vagrant upload"} :
               [l EXCEPT !.then = then] \in Locals
         /\ <<>> \in Seq(Spec_)
<1>1. \A specs \in Seq(Spec_), p \in Patches, t \in SUBSET IoFiles :
         [l EXCEPT !.specs = specs, !.staged = p, !.told = t] \in Locals
  BY DEF Locals
<1>2. \A specs \in Seq(Spec_), w, t \in SUBSET IoFiles :
         [l EXCEPT !.specs = specs, !.wrote = w, !.told = t] \in Locals
  BY DEF Locals
<1>3. /\ \A w \in SUBSET IoFiles : [l EXCEPT !.wrote = w] \in Locals
      /\ \A specs \in Seq(Spec_) : [l EXCEPT !.specs = specs] \in Locals
  BY DEF Locals
<1>4. /\ \A i \in Nat : [l EXCEPT !.image = i] \in Locals
      /\ \A then \in {"none", "idle", "build", "dir", "vagrant run", "vagrant upload"} :
            [l EXCEPT !.then = then] \in Locals
  BY DEF Locals
<1>5. <<>> \in Seq(Spec_)
  OBVIOUS
<1> QED
  BY <1>1, <1>2, <1>3, <1>4, <1>5, Zenon
-----------------------------------------------------------------------------
(* Every step keeps the types.                                             *)

LEMMA NewImageTyped ==
  ASSUME DockerTypeOK, NEW world \in World, NewImage(world)
  PROVE  /\ images' \in [ImageIds -> World \cup {NoImage}]
         /\ Least(FreshImages) \in Nat
<1>1. images = [i \in ImageIds |-> images[i]]
  BY DEF DockerTypeOK
<1>2. Least(FreshImages) \in ImageIds
  BY <1>1, NewImageKeeps
<1> QED
  BY <1>2, DockerAssumption DEF DockerTypeOK, NewImage, ImageIds

LEMMA RmiTyped ==
  ASSUME DockerTypeOK, NEW i, Rmi(i) \/ RmiFails(i)
  PROVE  images' \in [ImageIds -> World \cup {NoImage}] /\ kept' \subseteq ImageIds
<1>1. CASE Rmi(i)
  BY <1>1 DEF DockerTypeOK, Rmi, Exists
<1>2. CASE RmiFails(i)
  BY <1>2 DEF DockerTypeOK, RmiFails, Exists
<1> QED
  BY <1>1, <1>2

LEMMA NewBoxTyped ==
  ASSUME DockerTypeOK, NEW i, NEW purpose \in {"run", "detached", "copy"}, NewBox(i, purpose)
  PROVE  LET b == Least(FreshBoxes)
         IN  /\ boxes' \in [BoxIds -> Box \cup {NoBox}]
             /\ b \in BoxIds /\ b \in Nat
             /\ boxes' = [boxes EXCEPT ![b] = [image |-> i, for |-> purpose, fs |-> images[i]]]
             /\ boxes'[b] = [image |-> i, for |-> purpose, fs |-> images[i]]
             /\ boxes'[b] \in Box
<1> DEFINE b == Least(FreshBoxes)
<1>1. FreshBoxes \subseteq BoxIds /\ FreshBoxes \subseteq Nat /\ FreshBoxes # {}
  BY DockerAssumption DEF NewBox, FreshBoxes, BoxIds
<1>2. b \in BoxIds /\ b \in Nat
  BY <1>1, LeastIsMember
<1>3. boxes' = [boxes EXCEPT ![b] = [image |-> i, for |-> purpose, fs |-> images[i]]]
  BY DEF NewBox
<1>4. [image |-> i, for |-> purpose, fs |-> images[i]] \in Box
  BY DEF NewBox, Exists, DockerTypeOK, Box
<1> HIDE DEF b
<1>5. boxes' \in [BoxIds -> Box \cup {NoBox}] /\ boxes'[b] = [image |-> i, for |-> purpose, fs |-> images[i]]
  BY <1>2, <1>3, <1>4 DEF DockerTypeOK
<1> QED
  BY <1>2, <1>3, <1>4, <1>5 DEF b

LEMMA RmTyped ==
  ASSUME DockerTypeOK, NEW b, Rm(b)
  PROVE  boxes' \in [BoxIds -> Box \cup {NoBox}]
BY DEF DockerTypeOK, Rm

LEMMA RecipeTyped == \A install \in BOOLEAN : Recipe(install) \in World
BY DEF Recipe, World, Contents

LEMMA ArchivesTyped ==
  /\ DataTgz \in [IoFiles -> {"original", "installed", "absent"}]
  /\ \A type : /\ Extracted(type) \in World
               /\ InputsTar(Extracted(type)) \in [IoFiles -> {"original", "installed", "absent"}]
  /\ \A b : SetupSh(b) \in World
  /\ Nothing \in World
BY DEF DataTgz, Extracted, InputsTar, SetupSh, Nothing, World, Contents

LEMMA TypesInit == Init => TypesInv /\ BoxHeld /\ MountRoom /\ TreeInv /\ MachineInv
<1> SUFFICES ASSUME Init PROVE TypesInv /\ BoxHeld /\ MountRoom /\ TreeInv /\ MachineInv
  OBVIOUS
<1> USE DEF Init, SharedInit, DockerInit, LocalInit, VagrantInit
<1>1. SharedTypes
  BY NothingStaged DEF SharedTypes, Nothing
<1>2. DockerTypeOK
  BY ArchivesTyped DEF DockerTypeOK
<1>3. LocalTypeOK
  <2>1. 0 \in 0 .. MaxMounts
    BY LocalAssumption
  <2> QED
    BY <2>1 DEF LocalTypeOK, NoMounts
<1>4. VagrantTypeOK
  <2>1. 0 \in 0 .. MaxStack /\ Nothing \in World
    BY ArchivesTyped, VagrantAssumption
  <2> QED
    BY <2>1 DEF VagrantTypeOK, NoMachine, Machine
<1>5. BoxHeld /\ MountRoom /\ TreeInv /\ MachineInv
  BY DEF BoxHeld, BoxPcs, MountRoom, TreeInv, MachineInv, NoMachine, VagrantPcs, NoMeta
<1> QED
  BY <1>1, <1>2, <1>3, <1>4, <1>5 DEF TypesInv

LEMMA TypesDocker ==
  ASSUME TypesInv, BoxHeld, DictInv, LocInv, DockerNext
  PROVE  SharedTypes' /\ DockerTypeOK' /\ BoxHeld'
<1> USE DEF BoxPcs
<1>0. SharedTypes /\ DockerTypeOK /\ loc \in Locals
  BY DEF TypesInv, SharedTypes
<1>1. ASSUME SharedTypes', UNCHANGED <<dockerfile, images, boxes, destroyed, kept>>,
             \/ pc' \notin BoxPcs
             \/ pc \in BoxPcs /\ loc'.box = loc.box
      PROVE  SharedTypes' /\ DockerTypeOK' /\ BoxHeld'
  BY <1>0, <1>1 DEF DockerTypeOK, BoxHeld
<1>2. ASSUME SharedTypes', UNCHANGED <<dockerfile, boxes>>, destroyed' \in BOOLEAN,
             images' \in [ImageIds -> World \cup {NoImage}], kept' \subseteq ImageIds,
             pc' \notin BoxPcs
      PROVE  SharedTypes' /\ DockerTypeOK' /\ BoxHeld'
  BY <1>0, <1>2 DEF DockerTypeOK, BoxHeld
<1>3. ASSUME SharedTypes', UNCHANGED <<dockerfile, images, destroyed, kept>>, pc' \notin BoxPcs,
             boxes' \in [BoxIds -> Box \cup {NoBox}]
      PROVE  SharedTypes' /\ DockerTypeOK' /\ BoxHeld'
  BY <1>0, <1>3 DEF DockerTypeOK, BoxHeld
<1>4. meta.unpacker = "docker" => meta \in Meta
  BY <1>0, DictTyped
<1>5. pc \in DockerPcs => dct \in Meta /\ meta \in Meta
  BY <1>0, DictTyped
<1>6. CASE DockerCreate
  <2>1. SharedTypes' /\ UNCHANGED <<images, boxes, destroyed, kept>> /\ pc' \notin BoxPcs
    <3>1. CASE \E install \in BOOLEAN, then \in {"build", "none"} :
                  /\ Unpacked(NewMeta("docker"), DataTgz)
                  /\ IF then = "build" THEN Call("docker build", NoMeta, [NoLoc EXCEPT !.then = then])
                                       ELSE Continue("idle")
      <4>1. dct' \in Meta \cup {NoMeta} /\ loc' \in Locals /\ pc' \notin BoxPcs
        BY <1>0, <3>1, FreshLocals DEF Call, Continue, SharedTypes
      <4> QED
        BY <1>0, <1>6, <3>1, <4>1, UnpackedTyped, NewMetaTyped, ArchivesTyped DEF DockerCreate
    <3>2. CASE LeftBehind /\ Continue("idle")
      BY <1>0, <1>6, <3>2, LeftBehindTyped DEF Continue, DockerCreate
    <3> QED
      BY <1>6, <3>1, <3>2 DEF DockerCreate
  <2>2. dockerfile' \in World
    BY <1>0, <1>6, RecipeTyped DEF DockerCreate, DockerTypeOK
  <2> QED
    BY <1>0, <2>1, <2>2 DEF DockerTypeOK, BoxHeld
<1>7. CASE DockerBuild
  <2>1. meta \in Meta
    BY <1>4, <1>7 DEF DockerBuild, Reads, DictInv
  <2>2. UNCHANGED <<boxes, destroyed, kept>>
    BY <1>7 DEF DockerBuild
  <2>3. CASE /\ NewImage(dockerfile) /\ UNCHANGED dockerfile
             /\ Call("docker built", meta, [loc EXCEPT !.image = Least(FreshImages)])
             /\ KeepDir /\ UNCHANGED <<meta, stale, crashed>>
    <3>1. images' \in [ImageIds -> World \cup {NoImage}] /\ Least(FreshImages) \in Nat
      BY <1>0, <2>3, NewImageTyped DEF DockerTypeOK
    <3>2. loc' \in Locals /\ dct' \in Meta
      BY <1>0, <2>1, <2>3, <3>1, LocalsKept DEF Call
    <3> QED
      BY <1>0, <1>2, <2>2, <2>3, <3>1, <3>2, CallTyped DEF Call, KeepDir, DockerTypeOK
  <2>4. CASE RmTree(FALSE) /\ dockerfile' = Nothing /\ Return /\ UNCHANGED images
    BY <1>0, <2>2, <2>4, RmTreeTyped, ArchivesTyped DEF Return, Call, DockerTypeOK, BoxHeld
  <2>5. CASE KeepDir /\ UNCHANGED <<meta, stale, crashed, dockerfile, images>> /\ Return
    BY <1>0, <1>1, <2>2, <2>5, ReturnTyped DEF Return, Call, KeepDir, SharedTypes
  <2> QED
    BY <1>7, <2>3, <2>4, <2>5 DEF DockerBuild
<1>8. CASE DockerReset
  <2>1. /\ meta \in Meta /\ KeepDir /\ UNCHANGED <<meta, stale, crashed, dockerfile, boxes, destroyed>>
        /\ Rmi(meta.current) \/ RmiFails(meta.current)
        /\ Call("docker reset", [meta EXCEPT !.current = meta.initial], [NoLoc EXCEPT !.wrote = IoFiles])
    BY <1>4, <1>8 DEF DockerReset, Reads
  <2>2. meta.initial \in Nat
    BY <2>1 DEF Meta, Image
  <2>3. dct' \in Meta /\ loc' \in Locals /\ pc' = "docker reset"
    BY <2>1, <2>2, MetaTyped, FreshLocals DEF Call
  <2>4. SharedTypes'
    BY <1>0, <2>1, <2>3, CallTyped DEF KeepDir
  <2> QED
    BY <1>0, <1>2, <2>1, <2>3, <2>4, RmiTyped DEF DockerTypeOK
<1>9. CASE DockerRun
  <2>1. PICK arg \in RunArgs :
          Call("docker run", meta, [NoLoc EXCEPT !.runs = GetRuns(arg), !.box = Least(FreshBoxes),
                                                 !.image = meta.current])
    BY <1>9 DEF DockerRun
  <2>2. /\ meta \in Meta /\ NewBox(meta.current, "run")
        /\ KeepDir /\ UNCHANGED <<meta, stale, crashed, dockerfile, images, destroyed, kept>>
    BY <1>4, <1>9 DEF DockerRun, Reads
  <2>3. /\ boxes' \in [BoxIds -> Box \cup {NoBox}] /\ Least(FreshBoxes) \in BoxIds
        /\ Least(FreshBoxes) \in Nat /\ boxes'[Least(FreshBoxes)] \in Box
    BY <1>0, <2>2, NewBoxTyped
  <2>4. meta.current \in Nat /\ GetRuns(arg) \in SUBSET Runs
    BY <2>2, RunsOfArgument DEF Meta, Image
  <2>5. loc' \in Locals /\ dct' = meta
    BY <2>1, <2>3, <2>4, FreshLocals DEF Call
  <2>6. loc'.box = Least(FreshBoxes)
    BY <2>1 DEF Call, NoLoc
  <2> QED
    BY <1>0, <2>2, <2>3, <2>5, <2>6, CallTyped DEF KeepDir, DockerTypeOK, BoxHeld
<1>10. CASE DockerRunDetached
  <2>1. NewBox(meta.current, "detached") /\ UNCHANGED <<sharedVars, dockerfile, images, destroyed, kept>>
        /\ pc = "idle"
    BY <1>10 DEF DockerRunDetached, Reads, Idle
  <2> QED
    BY <1>0, <1>3, <2>1, NewBoxTyped DEF sharedVars, SharedTypes
<1>11. CASE DockerUpload
  <2>1. PICK specs \in UploadArgs :
          Call("docker upload", meta, [NoLoc EXCEPT !.specs = specs, !.image = meta.current])
    BY <1>11 DEF DockerUpload
  <2>2. specs \in Seq(Spec_) /\ meta \in Meta /\ KeepDir /\ UNCHANGED <<meta, stale, crashed, dockerVars>>
    BY <1>4, <1>11, UnpackerAssumption DEF DockerUpload, Reads
  <2>3. meta.current \in Nat
    BY <2>2 DEF Meta, Image
  <2>4. loc' \in Locals /\ dct' \in Meta /\ pc' = "docker upload"
    BY <2>1, <2>2, <2>3, FreshLocals DEF Call
  <2> QED
    BY <1>0, <1>1, <2>2, <2>4, CallTyped DEF KeepDir, dockerVars
<1>12. CASE DockerDownload
  <2>1. /\ NewBox(meta.current, "copy") /\ KeepDir
        /\ Call("docker cp", NoMeta, [NoLoc EXCEPT !.box = Least(FreshBoxes)])
        /\ UNCHANGED <<meta, stale, crashed, dockerfile, images, destroyed, kept>>
    BY <1>12 DEF DockerDownload
  <2>2. boxes' \in [BoxIds -> Box \cup {NoBox}] /\ Least(FreshBoxes) \in Nat
    BY <1>0, <2>1, NewBoxTyped
  <2>3. loc' \in Locals /\ dct' = NoMeta /\ pc' = "docker cp"
    BY <2>1, <2>2, FreshLocals DEF Call
  <2> QED
    BY <1>0, <1>3, <2>1, <2>2, <2>3, CallTyped DEF KeepDir
<1>13. CASE DockerDestroy
  <2>1. /\ KeepDir /\ UNCHANGED <<meta, stale, crashed, dockerfile, boxes>> /\ destroyed' = TRUE
        /\ Rmi(meta.current) \/ RmiFails(meta.current) \/ UNCHANGED <<images, kept>>
        /\ meta \in Meta
        /\ \E then \in {"dir", "none"} :
             Call("docker destroy", NoMeta, [NoLoc EXCEPT !.then = then, !.image = meta.initial])
    BY <1>4, <1>13 DEF DockerDestroy, Reads
  <2>2. meta.initial \in Nat
    BY <2>1 DEF Meta, Image
  <2>3. loc' \in Locals /\ dct' = NoMeta /\ pc' = "docker destroy"
    <3>1. PICK then \in {"dir", "none"} :
            Call("docker destroy", NoMeta, [NoLoc EXCEPT !.then = then, !.image = meta.initial])
      BY <2>1
    <3>2. [NoLoc EXCEPT !.then = then, !.image = meta.initial] \in Locals
      BY <2>2, FreshLocals
    <3> QED
      BY <3>1, <3>2 DEF Call
  <2>4. images' \in [ImageIds -> World \cup {NoImage}] /\ kept' \subseteq ImageIds
    BY <1>0, <2>1, RmiTyped DEF DockerTypeOK
  <2> QED
    BY <1>0, <1>2, <2>1, <2>3, <2>4, CallTyped DEF KeepDir
<1>14. CASE DockerDestroyDir
  <2>1. /\ RmTree(\E i \in ImageIds : Exists(i)) /\ Return /\ dockerfile' = Nothing
        /\ destroyed' = FALSE /\ UNCHANGED <<images, boxes, kept>>
    BY <1>14 DEF DockerDestroyDir
  <2>2. (\E i \in ImageIds : Exists(i)) \in BOOLEAN
    OBVIOUS
  <2>3. SharedTypes'
    BY <1>0, <2>1, <2>2, RmTreeTyped
  <2> QED
    BY <1>0, <2>1, <2>3, ArchivesTyped DEF Return, Call, DockerTypeOK, BoxHeld
<1>15. CASE UserRemovesBox
  <2>1. boxes' \in [BoxIds -> Box \cup {NoBox}] /\ pc = "idle"
    BY <1>0, <1>15 DEF UserRemovesBox, DockerTypeOK, Idle
  <2> QED
    BY <1>0, <1>3, <1>15, <2>1 DEF UserRemovesBox, sharedVars, SharedTypes
<1>16. CASE Crash({"docker"}) /\ UNCHANGED dockerVars
  BY <1>0, <1>1, <1>16, CrashTyped DEF Crash, Return, Call, dockerVars
<1>17. CASE DockerStep
  <2> USE DEF DockerPcs
  <2>1. CASE DockerBuilt
    <3>1. [dct EXCEPT !.initial = loc.image, !.current = loc.image] \in Meta
      BY <1>0, <1>5, <2>1, MetaTyped DEF DockerBuilt, Locals
    <3> QED
      BY <1>0, <1>1, <2>1, <3>1, WritesTyped DEF DockerBuilt, dockerVars, Return, Call, SharedTypes
  <2>2. CASE DockerResetDone
    BY <1>0, <1>1, <1>5, <2>2, WritesTyped DEF DockerResetDone, dockerVars, Return, Call
  <2>3. CASE DockerRunFails \/ DockerDownloadDone
    <3>1. /\ Return /\ KeepDir /\ UNCHANGED <<meta, stale, crashed, dockerfile, images, destroyed, kept>>
          /\ Rm(loc.box)
      BY <2>3 DEF DockerRunFails, DockerDownloadDone
    <3>2. SharedTypes' /\ pc' = "idle"
      BY <1>0, <3>1, ReturnTyped DEF SharedTypes, KeepDir, Return, Call
    <3> QED
      BY <1>0, <1>3, <3>1, <3>2, RmTyped
  <2>4. CASE DockerRunExits
    <3>1. PICK wrote \in SUBSET OutputsOf(loc.runs) :
            /\ boxes' = [boxes EXCEPT ![loc.box].fs =
                            [f \in IoFiles |-> IF f \in wrote THEN "generated" ELSE @[f]]]
            /\ Call("docker commit", dct, [loc EXCEPT !.wrote = wrote])
      BY <2>4 DEF DockerRunExits
    <3>2. /\ pc = "docker run" /\ dct \in Meta /\ KeepDir
          /\ UNCHANGED <<meta, stale, crashed, dockerfile, images, destroyed, kept>>
      BY <1>5, <2>4 DEF DockerRunExits
    <3>3. wrote \in SUBSET IoFiles
      BY <3>1, OutputsAreFiles
    <3>4. loc' \in Locals /\ loc'.box = loc.box /\ dct' = dct
      <4>1. loc' = [loc EXCEPT !.wrote = wrote] /\ dct' = dct
        BY <3>1 DEF Call
      <4>2. loc' \in Locals
        BY <1>0, <3>3, <4>1, LocalsKept
      <4> QED
        BY <1>0, <4>1, <4>2 DEF Locals
    <3>5. loc.box \in BoxIds /\ boxes[loc.box] \in Box
      BY <3>2 DEF BoxHeld
    <3>6. PICK new : /\ new = [f \in IoFiles |-> IF f \in wrote THEN "generated" ELSE boxes[loc.box].fs[f]]
                     /\ boxes' = [boxes EXCEPT ![loc.box] = [boxes[loc.box] EXCEPT !.fs = new]]
      BY <1>0, <3>1, <3>5 DEF DockerTypeOK
    <3>7. new \in World
      BY <3>5, <3>6 DEF Box, World, Contents
    <3>8. [boxes[loc.box] EXCEPT !.fs = new] \in Box
      BY <3>5, <3>7 DEF Box
    <3>9. boxes' \in [BoxIds -> Box \cup {NoBox}] /\ boxes'[loc.box] \in Box
      BY <1>0, <3>5, <3>6, <3>8 DEF DockerTypeOK
    <3> QED
      BY <1>0, <3>2, <3>4, <3>5, <3>9, CallTyped DEF KeepDir, DockerTypeOK, BoxHeld
  <2>5. CASE DockerCommit
    <3>1. CASE Return /\ UNCHANGED images
      BY <1>0, <1>1, <2>5, <3>1, ReturnTyped DEF DockerCommit, SharedTypes, KeepDir, Return, Call
    <3>2. CASE /\ NewImage(boxes[loc.box].fs)
               /\ Call("docker record", [dct EXCEPT !.current = Least(FreshImages)], loc)
      <4>1. /\ pc = "docker commit" /\ dct \in Meta /\ KeepDir
            /\ UNCHANGED <<meta, stale, crashed, dockerfile, boxes, destroyed, kept>>
        BY <1>5, <2>5 DEF DockerCommit
      <4>2. loc.box \in BoxIds /\ boxes[loc.box] \in Box /\ boxes[loc.box].fs \in World
        BY <4>1 DEF BoxHeld, Box
      <4>3. images' \in [ImageIds -> World \cup {NoImage}] /\ Least(FreshImages) \in Nat
        BY <1>0, <3>2, <4>2, NewImageTyped
      <4>4. dct' \in Meta /\ loc' = loc
        BY <3>2, <4>1, <4>3, MetaTyped DEF Call
      <4> QED
        BY <1>0, <4>1, <4>2, <4>3, <4>4, CallTyped DEF KeepDir, DockerTypeOK, BoxHeld
    <3> QED
      BY <2>5, <3>1, <3>2 DEF DockerCommit
  <2>6. CASE DockerRecord
    BY <1>0, <1>1, <1>5, <2>6, WritesTyped DEF DockerRecord, dockerVars, Continue, SharedTypes
  <2>7. CASE DockerRm
    <3>1. /\ KeepDir /\ UNCHANGED <<meta, stale, crashed, dct, loc, dockerfile, images, destroyed, kept>>
          /\ Rm(loc.box) /\ pc' \in {"docker rmi", "docker status"}
      BY <2>7 DEF DockerRm, Continue
    <3> QED
      BY <1>0, <1>3, <3>1, RmTyped DEF SharedTypes, KeepDir
  <2>8. CASE DockerUntag \/ DockerUploadUntag \/ DockerDestroyInitial
    <3>1. /\ Rmi(loc.image) \/ RmiFails(loc.image)
          /\ UNCHANGED <<dockerfile, boxes, destroyed, meta, crashed>> /\ KeepDir
          /\ Return \/ UNCHANGED <<dct, loc>>
          /\ pc' \in {"idle", "docker status", "docker upload record", "docker destroy dir"}
          /\ stale' \in {stale, stale \cup loc.wrote}
      BY <2>8 DEF DockerUntag, DockerUploadUntag, DockerDestroyInitial, Continue, Return, Call
    <3>2. stale' \in SUBSET IoFiles
      <4>1. loc.wrote \in SUBSET IoFiles /\ stale \in SUBSET IoFiles
        BY <1>0 DEF SharedTypes, Locals
      <4> QED
        BY <3>1, <4>1
    <3>3. SharedTypes'
      BY <1>0, <3>1, <3>2, ReturnTyped DEF SharedTypes, KeepDir
    <3> QED
      BY <1>0, <1>2, <3>1, <3>3, RmiTyped DEF DockerTypeOK
  <2>9. CASE DockerRunDone
    <3>1. dct \in Meta /\ dct.input_files \in [IoFiles -> Status]
      BY <1>5, <2>9, MetaTyped DEF DockerRunDone
    <3>2. [dct EXCEPT !.input_files = metadata_update_run(@, loc.runs)] \in Meta
      BY <3>1, MetaTyped, StatusTyped
    <3>3. stale' \in SUBSET IoFiles
      BY <1>0, <2>9, OutputsAreFiles DEF DockerRunDone, SharedTypes
    <3> QED
      BY <1>0, <1>1, <2>9, <3>2, <3>3, WritesTyped DEF DockerRunDone, dockerVars, Return, Call
  <2>10. CASE DockerUploadFile
    <3>1. /\ pc = "docker upload" /\ loc.specs # <<>> /\ dct \in Meta /\ pc' = "docker upload"
          /\ KeepDir /\ UNCHANGED <<meta, stale, crashed, dockerVars>>
      BY <1>5, <2>10 DEF DockerUploadFile, Call
    <3>2. PICK s : s = Head(loc.specs)
      OBVIOUS
    <3>3. s \in Spec_ /\ Tail(loc.specs) \in Seq(Spec_)
      BY <1>0, <3>1, <3>2, SpecsGoOn DEF Locals
    <3>4. CASE /\ SpecOutcome(s) = "put"
               /\ dct' = [dct EXCEPT !.input_files = StatusAfter(@, s)]
               /\ loc' = [loc EXCEPT !.specs = Tail(@), !.staged = Overlay(s.name, Uploaded(s), @),
                                     !.told = StaleAfter(@, s)]
      <4>1. dct' \in Meta
        BY <1>0, <3>1, <3>3, <3>4, SpecsPut, MetaTyped
      <4>2. Overlay(s.name, Uploaded(s), loc.staged) \in Patches
        BY <1>0, <3>3, <3>4, SpecsPut, StagedTyped DEF Locals
      <4>3. StaleAfter(loc.told, s) \in SUBSET IoFiles
        BY <1>0, <3>3, <3>4, SpecsPut DEF Locals
      <4>4. loc' \in Locals
        BY <1>0, <3>3, <3>4, <4>2, <4>3, LocalsKept
      <4> QED
        BY <1>0, <1>1, <3>1, <4>1, <4>4, CallTyped DEF KeepDir, dockerVars
    <3>5. CASE dct' = dct /\ \E specs \in {Tail(loc.specs), <<>>} : loc' = [loc EXCEPT !.specs = specs]
      <4>1. loc' \in Locals
        BY <1>0, <3>3, <3>5, LocalsKept
      <4> QED
        BY <1>0, <1>1, <3>1, <3>5, <4>1, CallTyped DEF KeepDir, dockerVars
    <3> QED
      BY <2>10, <3>2, <3>4, <3>5 DEF DockerUploadFile, Call
  <2>11. CASE DockerUploadBuild
    <3>1. pc = "docker upload" /\ UNCHANGED <<dockerfile, boxes, destroyed, kept, crashed>> /\ KeepDir
          /\ dct \in Meta
      BY <1>5, <2>11 DEF DockerUploadBuild
    <3>2. CASE Writes(dct) /\ Return /\ UNCHANGED images /\ stale' \in {stale, stale \cup DOMAIN loc.staged}
      <4>1. DOMAIN loc.staged \subseteq IoFiles
        BY <1>0, PatchTyped DEF Locals
      <4>2. stale' \in SUBSET IoFiles
        BY <1>0, <3>2, <4>1 DEF SharedTypes
      <4> QED
        BY <1>0, <1>1, <3>1, <3>2, <4>2, WritesTyped DEF Return, Call
    <3>3. CASE /\ Exists(loc.image)
               /\ NewImage([f \in IoFiles |-> IF f \in DOMAIN loc.staged THEN loc.staged[f]
                                                                       ELSE images[loc.image][f]])
               /\ dct' = [dct EXCEPT !.current = Least(FreshImages)] /\ loc' = loc
               /\ pc' \in {"docker upload rmi", "docker upload record"}
               /\ UNCHANGED <<meta, stale>>
      <4> DEFINE new == [f \in IoFiles |-> IF f \in DOMAIN loc.staged THEN loc.staged[f]
                                                                     ELSE images[loc.image][f]]
      <4>1. new \in World
        <5>1. images[loc.image] \in World
          BY <1>0, <3>3 DEF Exists, DockerTypeOK
        <5>2. \A f \in DOMAIN loc.staged : loc.staged[f] \in Contents
          BY <1>0, PatchTyped DEF Locals, Uploads, Contents
        <5> QED
          BY <5>1, <5>2 DEF World
      <4> HIDE DEF new
      <4>2. images' \in [ImageIds -> World \cup {NoImage}] /\ Least(FreshImages) \in Nat
        BY <1>0, <3>3, <4>1, NewImageTyped DEF new
      <4>3. dct' \in Meta
        BY <3>1, <3>3, <4>2, MetaTyped
      <4>4. SharedTypes'
        BY <1>0, <3>1, <3>3, <4>3, CallTyped DEF KeepDir
      <4> QED
        BY <1>0, <1>2, <3>1, <3>3, <4>2, <4>4 DEF DockerTypeOK
    <3> QED
      BY <2>11, <3>2, <3>3 DEF DockerUploadBuild, Call
  <2>12. CASE DockerUploadDone
    <3>1. stale' \in SUBSET IoFiles
      BY <1>0, <2>12 DEF DockerUploadDone, SharedTypes, Locals
    <3> QED
      BY <1>0, <1>1, <1>5, <2>12, <3>1, WritesTyped DEF DockerUploadDone, dockerVars, Return, Call
  <2> QED
    BY <1>17, <2>1, <2>2, <2>3, <2>4, <2>5, <2>6, <2>7, <2>8, <2>9, <2>10, <2>11, <2>12 DEF DockerStep
<1> QED
  BY <1>6, <1>7, <1>8, <1>9, <1>10, <1>11, <1>12, <1>13, <1>14, <1>15, <1>16, <1>17 DEF DockerNext
-----------------------------------------------------------------------------
(* Whose directory a command works on.                                     *)

Owners ==
    /\ pc \in OtherPcs => dct = NoMeta
    /\ pc = "rmtree" => meta.unpacker = "chroot"
    /\ pc = "vagrant rmtree" => meta.unpacker = "vagrant"
    /\ pc \in {"docker destroy", "docker destroy dir", "docker cp"} => meta.unpacker = "docker"

\* A command or the machine is stopped: what was on the disk stays there.
Stopped == pc' = "idle" /\ dct' = NoMeta /\ crashed' = TRUE /\ UNCHANGED <<dir, meta, backup, left>>

\* Setting up, working on and removing an unpacker's own directory.
Moves(types, pcs) ==
    /\ meta.unpacker \in types \/ meta = NoMeta
    /\ meta'.unpacker \in types \/ meta' = NoMeta
    /\ pc' \in pcs /\ (left => left')

DockerMoves == \/ UNCHANGED sharedVars
               \/ Stopped
               \/ Moves({"docker"}, DockerPcs \cup {"idle", "docker build", "docker cp",
                                                    "docker destroy", "docker destroy dir"})

LEMMA DockerOwners ==
  ASSUME DictInv, Owners, DockerNext
  PROVE  DockerMoves /\ Owners'
<1> USE DEF OtherPcs, DockerPcs
<1>0. ASSUME meta.unpacker = "docker" \/ meta = NoMeta, meta'.unpacker = "docker" \/ meta' = NoMeta,
             UNCHANGED left,
             \/ pc' \in DockerPcs
             \/ pc' \in {"docker build", "docker cp", "docker destroy", "docker destroy dir"}
                  /\ dct' = NoMeta /\ meta'.unpacker = "docker"
             \/ pc' = "idle" /\ dct' = NoMeta
      PROVE  DockerMoves /\ Owners'
  BY <1>0 DEF DockerMoves, Moves, Owners
<1>1. CASE DockerCreate
  <2>1. meta = NoMeta /\ pc = "idle" /\ dct = NoMeta
    BY <1>1 DEF DockerCreate, CanSetUp, Idle, DictInv, Owners
  <2>2. CASE LeftBehind /\ Continue("idle")
    BY <1>0, <2>1, <2>2 DEF LeftBehind, Continue
  <2>3. CASE Unpacked(NewMeta("docker"), DataTgz) /\ pc' \in {"idle", "docker build"} /\ dct' = NoMeta
    BY <1>0, <2>1, <2>3, NewMetaFields DEF Unpacked
  <2> QED
    BY <1>1, <2>1, <2>2, <2>3 DEF DockerCreate, Call, Continue
<1>2. CASE DockerBuild
  <2>1. meta.unpacker = "docker"
    BY <1>2 DEF DockerBuild, Reads, DictInv
  <2>2. CASE pc' = "docker built" /\ UNCHANGED <<meta, left>>
    BY <1>0, <2>1, <2>2
  <2>3. CASE RmTree(FALSE) /\ Return
    <3>1. meta' = NoMeta /\ pc' = "idle" /\ dct' = NoMeta /\ (left => left')
      BY <2>3 DEF RmTree, Return, Call
    <3> QED
      BY <2>1, <3>1 DEF DockerMoves, Moves, Owners
  <2>4. CASE pc' = "idle" /\ dct' = NoMeta /\ UNCHANGED <<meta, left>>
    BY <1>0, <2>1, <2>4
  <2> QED
    BY <1>2, <2>2, <2>3, <2>4 DEF DockerBuild, KeepDir, Return, Call
<1>3. CASE DockerReset
  BY <1>0, <1>3 DEF DockerReset, Reads, Call, KeepDir
<1>4. CASE DockerRun
  BY <1>0, <1>4 DEF DockerRun, Reads, Call, KeepDir
<1>5. CASE DockerUpload
  BY <1>0, <1>5 DEF DockerUpload, Reads, Call, KeepDir
<1>6. CASE DockerDownload
  BY <1>0, <1>6 DEF DockerDownload, Reads, Call, KeepDir
<1>7. CASE DockerDestroy
  <2>1. meta.unpacker = "docker" /\ UNCHANGED <<meta, left>> /\ pc' = "docker destroy" /\ dct' = NoMeta
    BY <1>7 DEF DockerDestroy, Reads, Call, KeepDir
  <2> QED
    BY <1>0, <2>1
<1>8. CASE DockerDestroyDir
  <2>1. meta.unpacker = "docker"
    BY <1>8 DEF DockerDestroyDir, Reads, Owners
  <2>2. meta' = NoMeta /\ pc' = "idle" /\ dct' = NoMeta /\ (left => left')
    BY <1>8 DEF DockerDestroyDir, RmTree, Return, Call
  <2> QED
    BY <2>1, <2>2 DEF DockerMoves, Moves, Owners
<1>9. CASE DockerRunDetached \/ UserRemovesBox
  BY <1>9 DEF DockerRunDetached, UserRemovesBox, sharedVars, DockerMoves, Owners
<1>10. CASE Crash({"docker"})
  BY <1>10 DEF Crash, Stopped, Return, Call, DockerMoves, Owners
<1>11. CASE DockerStep
  <2>0. pc \in DockerPcs => Fields(dct) /\ dct.unpacker = "docker" /\ meta.unpacker = "docker"
    BY DEF DictInv
  <2>1. ASSUME pc \in DockerPcs, UNCHANGED left, meta' = meta \/ meta' = dct,
               pc' \in DockerPcs \/ (pc' = "idle" /\ dct' = NoMeta)
        PROVE  DockerMoves /\ Owners'
    BY <1>0, <2>0, <2>1
  <2>2. CASE DockerBuilt
    <3>1. meta'.unpacker = dct.unpacker /\ pc = "docker built"
      BY <2>0, <2>2, FieldsExcept DEF DockerBuilt, Writes
    <3> QED
      BY <1>0, <2>0, <2>2, <3>1 DEF DockerBuilt, Return, Call, KeepDir
  <2>3. CASE DockerResetDone
    BY <2>1, <2>3 DEF DockerResetDone, Writes, Return, Call, KeepDir
  <2>4. CASE DockerRecord
    BY <2>1, <2>4 DEF DockerRecord, Writes, Continue, KeepDir
  <2>5. CASE DockerRunExits
    BY <2>1, <2>5 DEF DockerRunExits, Call, KeepDir
  <2>6. CASE DockerCommit
    BY <2>1, <2>6 DEF DockerCommit, Call, Return, KeepDir
  <2>7. CASE DockerRunFails
    BY <2>1, <2>7 DEF DockerRunFails, Call, Return, KeepDir
  <2>8. CASE DockerRm
    BY <2>1, <2>8 DEF DockerRm, Continue, KeepDir
  <2>9. CASE DockerUntag
    BY <2>1, <2>9 DEF DockerUntag, Continue, Return, Call, KeepDir
  <2>10. CASE DockerUploadUntag
    BY <2>1, <2>10 DEF DockerUploadUntag, Continue, KeepDir
  <2>11. CASE DockerRunDone
    <3>1. meta'.unpacker = dct.unpacker /\ pc = "docker status"
      BY <2>0, <2>11, FieldsExcept DEF DockerRunDone, Writes
    <3> QED
      BY <1>0, <2>0, <2>11, <3>1 DEF DockerRunDone, Return, Call, KeepDir
  <2>12. CASE DockerUploadFile
    BY <2>1, <2>12 DEF DockerUploadFile, Call, KeepDir
  <2>13. CASE DockerUploadBuild
    BY <2>1, <2>13 DEF DockerUploadBuild, Call, Return, Writes, KeepDir
  <2>14. CASE DockerUploadDone
    BY <2>1, <2>14 DEF DockerUploadDone, Call, Return, Writes, KeepDir
  <2>15. CASE DockerDownloadDone
    <3>1. pc = "docker cp" /\ pc' = "idle" /\ dct' = NoMeta /\ UNCHANGED <<meta, left>>
      BY <2>15 DEF DockerDownloadDone, Return, Call, KeepDir
    <3> QED
      BY <1>0, <3>1 DEF Owners
  <2>16. CASE DockerDestroyInitial
    <3>1. /\ pc = "docker destroy" /\ UNCHANGED <<meta, left>>
          /\ (pc' = "idle" /\ dct' = NoMeta) \/ (pc' = "docker destroy dir" /\ dct' = dct)
      BY <2>16 DEF DockerDestroyInitial, Return, Call, Continue, KeepDir
    <3> QED
      BY <1>0, <3>1 DEF Owners
  <2> QED
    BY <1>11, <2>2, <2>3, <2>4, <2>5, <2>6, <2>7, <2>8, <2>9, <2>10, <2>11, <2>12, <2>13, <2>14,
       <2>15, <2>16 DEF DockerStep
<1> QED
  BY <1>1, <1>2, <1>3, <1>4, <1>5, <1>6, <1>7, <1>8, <1>9, <1>10, <1>11 DEF DockerNext

LocalMoves == \/ UNCHANGED sharedVars
              \/ Stopped
              \/ Moves({"directory", "chroot"}, LocalPcs \cup {"idle", "rmtree"})

LEMMA LocalOwners ==
  ASSUME DictInv, MountInv, Owners, LocalNext
  PROVE  LocalMoves /\ Owners'
<1> USE DEF OtherPcs, LocalPcs, MountPcs, UmountPcs
<1>0. ASSUME meta.unpacker \in {"directory", "chroot"} \/ meta = NoMeta,
             meta'.unpacker \in {"directory", "chroot"} \/ meta' = NoMeta,
             UNCHANGED left,
             \/ pc' \in LocalPcs
             \/ pc' = "rmtree" /\ dct' = NoMeta /\ meta'.unpacker = "chroot"
             \/ pc' = "idle" /\ dct' = NoMeta
      PROVE  LocalMoves /\ Owners'
  BY <1>0 DEF LocalMoves, Moves, Owners
<1>1. CASE LocalCreate
  <2>1. meta = NoMeta /\ pc = "idle" /\ dct = NoMeta
    BY <1>1 DEF LocalCreate, CanSetUp, Idle, DictInv, Owners
  <2>2. CASE LeftBehind /\ Continue("idle")
    BY <1>0, <2>1, <2>2 DEF LeftBehind, Continue
  <2>3. ASSUME NEW type \in {"directory", "chroot"}, Unpacked(NewMeta(type), InputsTar(Extracted(type))),
               Call("mount dev", NewMeta(type), NoLoc) \/ Continue("idle")
        PROVE  LocalMoves /\ Owners'
    <3>1. meta'.unpacker = type /\ UNCHANGED left
      BY <2>3, NewMetaFields DEF Unpacked
    <3>2. pc' = "mount dev" \/ (pc' = "idle" /\ dct' = NoMeta)
      BY <2>1, <2>3 DEF Call, Continue
    <3> QED
      BY <1>0, <2>1, <3>1, <3>2
  <2> QED
    BY <1>1, <2>2, <2>3 DEF LocalCreate
<1>2. CASE LocalRun
  BY <1>0, <1>2 DEF LocalRun, Reads, Call, KeepDir
<1>3. CASE LocalUpload
  BY <1>0, <1>3 DEF LocalUpload, Reads, Call, KeepDir
<1>4. CASE ChrootMount
  BY <1>0, <1>4 DEF ChrootMount, Reads, Call, KeepDir
<1>5. CASE ChrootUnmount
  BY <1>0, <1>5 DEF ChrootUnmount, Reads, Call, KeepDir
<1>6. CASE LocalDestroyDir
  <2>1. meta.unpacker \in {"directory", "chroot"}
    BY <1>6 DEF LocalDestroyDir, Reads, Owners
  <2>2. meta' \in {meta, NoMeta} /\ pc' = "idle" /\ dct' = NoMeta /\ (left => left')
    BY <1>6 DEF LocalDestroyDir, RmTree, Return, Call
  <2> QED
    BY <2>1, <2>2 DEF LocalMoves, Moves, Owners
<1>7. CASE LocalCrash
  BY <1>7 DEF LocalCrash, Crash, Stopped, Return, Call, LocalMoves, Owners
<1>8. CASE Reboot
  BY <1>8 DEF Reboot, Stopped, Return, Call, LocalMoves, Owners
<1>9. CASE LocalStep
  <2>0. /\ pc \in LocalPcs => /\ Fields(dct) /\ dct.unpacker = meta.unpacker
                              /\ meta.unpacker \in {"directory", "chroot"}
        /\ pc \in MountPcs \cup UmountPcs => meta.unpacker = "chroot"
    BY DEF DictInv, MountInv
  <2>1. ASSUME pc \in LocalPcs, UNCHANGED left, meta'.unpacker = meta.unpacker,
               pc' \in LocalPcs \/ (pc' = "idle" /\ dct' = NoMeta)
        PROVE  LocalMoves /\ Owners'
    BY <1>0, <2>0, <2>1
  <2>2. CASE LocalRunExits
    BY <2>1, <2>2 DEF LocalRunExits, Call, KeepDir
  <2>3. CASE LocalRunDone
    <3>0. PICK v : meta' = [dct EXCEPT !.input_files = v] /\ pc = "local status"
      BY <2>3 DEF LocalRunDone, Writes
    <3>1. meta'.unpacker = meta.unpacker /\ pc = "local status"
      <4>1. Fields(dct) /\ dct.unpacker = meta.unpacker
        BY <2>0, <3>0
      <4> QED
        BY <3>0, <4>1 DEF Fields, Keys
    <3> QED
      BY <2>1, <2>3, <3>1 DEF LocalRunDone, Return, Call, KeepDir
  <2>4. CASE LocalUploadFile
    BY <2>1, <2>4 DEF LocalUploadFile, Call, KeepDir
  <2>5. CASE LocalUploadDone
    BY <2>0, <2>1, <2>5 DEF LocalUploadDone, Writes, Call, Return, KeepDir
  <2>6. CASE ChrootMounted
    <3>0. PICK v : meta' = [dct EXCEPT !.mounted = v] /\ pc = "mounted"
      BY <2>6 DEF ChrootMounted, Writes
    <3>1. meta'.unpacker = meta.unpacker /\ pc = "mounted"
      <4>1. Fields(dct) /\ dct.unpacker = meta.unpacker
        BY <2>0, <3>0
      <4> QED
        BY <3>0, <4>1 DEF Fields, Keys
    <3> QED
      BY <2>1, <2>6, <3>1 DEF ChrootMounted, Return, Call, KeepDir
  <2>7. CASE ChrootUnmounted
    <3>0. PICK v : meta' = [dct EXCEPT !.mounted = v] /\ pc = "unmounted"
      BY <2>7 DEF ChrootUnmounted, Writes
    <3>1. meta'.unpacker = meta.unpacker /\ pc = "unmounted"
      <4>1. Fields(dct) /\ dct.unpacker = meta.unpacker
        BY <2>0, <3>0
      <4> QED
        BY <3>0, <4>1 DEF Fields, Keys
    <3>2. meta'.unpacker = "chroot" /\ UNCHANGED left /\ pc' \in {"idle", "rmtree"} /\ dct' = NoMeta
      BY <2>0, <2>7, <3>1 DEF ChrootUnmounted, Return, Call, KeepDir
    <3> QED
      BY <1>0, <2>0, <3>1, <3>2
  <2>8. ASSUME NEW q \in Points, ChrootMountPoint(q) PROVE LocalMoves /\ Owners'
    <3>1. pc \in MountPcs /\ UNCHANGED <<meta, left>> /\ (pc' \in MountPcs \/ (pc' = "idle" /\ dct' = NoMeta))
      BY <2>8, LocalPoints DEF ChrootMountPoint, Continue, Return, Call, KeepDir
    <3> QED
      BY <2>1, <3>1
  <2>9. ASSUME NEW d \in {"dev", "proc"}, ChrootUmountPoint(d) PROVE LocalMoves /\ Owners'
    <3>1. pc \in UmountPcs /\ UNCHANGED <<meta, left>> /\ (pc' \in UmountPcs \/ (pc' = "idle" /\ dct' = NoMeta))
      BY <2>9 DEF ChrootUmountPoint, Continue, Return, Call, KeepDir
    <3> QED
      BY <2>1, <3>1
  <2> QED
    BY <1>9, <2>2, <2>3, <2>4, <2>5, <2>6, <2>7, <2>8, <2>9 DEF LocalStep
<1> QED
  BY <1>1, <1>2, <1>3, <1>4, <1>5, <1>6, <1>7, <1>8, <1>9 DEF LocalNext

VagrantMoves == \/ UNCHANGED sharedVars
                \/ Stopped
                \/ Moves({"vagrant"}, VagrantPcs \cup {"idle", "vagrant rmtree"})

LEMMA VagrantOwners ==
  ASSUME DictInv, Owners, VagrantNext
  PROVE  VagrantMoves /\ Owners'
<1> USE DEF OtherPcs, VagrantPcs
<1>0. ASSUME meta.unpacker = "vagrant" \/ meta = NoMeta, meta'.unpacker = "vagrant" \/ meta' = NoMeta,
             UNCHANGED left,
             \/ pc' \in VagrantPcs
             \/ pc' = "vagrant rmtree" /\ dct' = NoMeta /\ meta'.unpacker = "vagrant"
             \/ pc' = "idle" /\ dct' = NoMeta
      PROVE  VagrantMoves /\ Owners'
  BY <1>0 DEF VagrantMoves, Moves, Owners
<1>1. CASE VagrantCreate
  <2>1. meta = NoMeta /\ pc = "idle" /\ dct = NoMeta
    BY <1>1 DEF VagrantCreate, CanSetUp, Idle, DictInv, Owners
  <2>2. CASE LeftBehind /\ Continue("idle")
    BY <1>0, <2>1, <2>2 DEF LeftBehind, Continue
  <2>3. ASSUME NEW b \in BOOLEAN, Unpacked([NewMeta("vagrant") EXCEPT !.use_chroot = b], DataTgz),
               pc' = "vagrant ssh" \/ Continue("idle")
        PROVE  VagrantMoves /\ Owners'
    <3>1. meta'.unpacker = "vagrant" /\ UNCHANGED left
      BY <2>3 DEF Unpacked, NewMeta
    <3> QED
      BY <1>0, <2>1, <2>3, <3>1 DEF Continue
  <2> QED
    BY <1>1, <2>2, <2>3 DEF VagrantCreate, Call
<1>2. ASSUME NEW label, NEW l, VagrantCommand(label, l) PROVE VagrantMoves /\ Owners'
  BY <1>0, <1>2 DEF VagrantCommand, Reads, Call, KeepDir
<1>3. CASE VagrantStart \/ VagrantDownload \/ VagrantRun \/ VagrantUpload
  BY <1>2, <1>3 DEF VagrantStart, VagrantDownload, VagrantRun, VagrantUpload
<1>4. CASE VagrantSuspend
  BY <1>4 DEF VagrantSuspend, sharedVars, VagrantMoves, Owners
<1>5. CASE VagrantDestroyVm
  BY <1>0, <1>5 DEF VagrantDestroyVm, Reads, Call, Return, KeepDir
<1>6. CASE VagrantDestroyDir
  <2>1. meta.unpacker = "vagrant"
    BY <1>6 DEF VagrantDestroyDir, Reads, Owners
  <2>2. meta' = NoMeta /\ pc' = "idle" /\ dct' = NoMeta /\ (left => left')
    BY <1>6 DEF VagrantDestroyDir, RmTree, Return, Call
  <2> QED
    BY <2>1, <2>2 DEF VagrantMoves, Moves, Owners
<1>7. CASE VmPowerOff
  BY <1>7 DEF VmPowerOff, Stopped, Return, Call, VagrantMoves, Owners
<1>8. CASE Crash({"vagrant"})
  BY <1>8 DEF Crash, Stopped, Return, Call, VagrantMoves, Owners
<1>9. CASE VagrantStep
  <2>0. pc \in VagrantPcs => Fields(dct) /\ dct.unpacker = "vagrant" /\ meta.unpacker = "vagrant"
    BY DEF DictInv
  <2>1. ASSUME pc \in VagrantPcs, UNCHANGED left, meta'.unpacker = "vagrant",
               pc' \in VagrantPcs \/ (pc' = "idle" /\ dct' = NoMeta)
        PROVE  VagrantMoves /\ Owners'
    BY <1>0, <2>0, <2>1
  <2>2. CASE VagrantUp
    BY <2>0, <2>1, <2>2 DEF VagrantUp, Return, Call, KeepDir
  <2>3. CASE VagrantMachineReady
    <3>1. /\ pc = "vagrant ssh" /\ UNCHANGED <<meta, left>>
          /\ (pc' = loc.then /\ loc.then # "idle") \/ (pc' = "idle" /\ dct' = NoMeta)
      BY <2>3 DEF VagrantMachineReady, Continue, Return, Call, KeepDir
    <3>2. pc' \in VagrantPcs \/ (pc' = "idle" /\ dct' = NoMeta)
      BY <3>1 DEF DictInv
    <3> QED
      BY <2>0, <2>1, <3>1, <3>2
  <2>4. CASE VagrantRunExits
    BY <2>0, <2>1, <2>4 DEF VagrantRunExits, Return, Call, KeepDir
  <2>5. CASE VagrantRunDone
    <3>0. PICK v : meta' = [dct EXCEPT !.input_files = v] /\ pc = "vagrant status"
      BY <2>5 DEF VagrantRunDone, Writes
    <3>1. meta'.unpacker = "vagrant" /\ pc = "vagrant status"
      <4>1. Fields(dct) /\ dct.unpacker = "vagrant"
        BY <2>0, <3>0
      <4> QED
        BY <3>0, <4>1 DEF Fields, Keys
    <3> QED
      BY <2>1, <2>5, <3>1 DEF VagrantRunDone, Return, Call, KeepDir
  <2>6. CASE VagrantUploadFile
    BY <2>0, <2>1, <2>6 DEF VagrantUploadFile, Call, KeepDir
  <2>7. CASE VagrantUploadDone
    BY <2>0, <2>1, <2>7 DEF VagrantUploadDone, Writes, Call, Return, KeepDir
  <2> QED
    BY <1>9, <2>2, <2>3, <2>4, <2>5, <2>6, <2>7 DEF VagrantStep
<1> QED
  BY <1>1, <1>3, <1>4, <1>5, <1>6, <1>7, <1>8, <1>9 DEF VagrantNext

LEMMA OwnersInit == Init => Owners
BY DEF Init, SharedInit, Owners, OtherPcs

LEMMA OwnersStep == DictInv /\ MountInv /\ Owners /\ [Next]_unpackersVars => Owners'
<1>1. UNCHANGED unpackersVars /\ Owners => Owners'
  BY DEF unpackersVars, sharedVars, Owners, OtherPcs
<1> QED
  BY <1>1, DockerOwners, LocalOwners, VagrantOwners DEF Next
-----------------------------------------------------------------------------
(* The types, and the places a command works in, are kept by the steps of  *)
(* the directory, chroot and Vagrant unpackers.                            *)

LEMMA DockerElse ==
  ASSUME DictInv, Owners, DockerNext, UNCHANGED <<localVars, vagrantVars>>,
         MountRoom, TreeInv, MachineInv
  PROVE  MountRoom' /\ TreeInv' /\ MachineInv'
<1>1. DockerMoves /\ UNCHANGED <<fs, mounts, vm>>
  BY DockerOwners DEF localVars, vagrantVars
<1>2. NoMeta.unpacker = "none"
  BY DEF NoMeta
<1>3. CASE UNCHANGED sharedVars
  <2>1. UNCHANGED <<pc, dct, meta, left>>
    BY <1>3 DEF sharedVars
  <2> QED
    BY <1>1, <2>1 DEF MountRoom, TreeInv, MachineInv, NoMounts, NoMachine
<1>4. CASE Stopped
  <2>1. UNCHANGED <<meta, left>> /\ pc' = "idle"
    BY <1>4 DEF Stopped
  <2> QED
    BY <1>1, <2>1 DEF MountRoom, TreeInv, MachineInv, NoMounts, NoMachine, VagrantPcs
<1>5. CASE Moves({"docker"}, DockerPcs \cup {"idle", "docker build", "docker cp",
                                             "docker destroy", "docker destroy dir"})
  <2>1. /\ meta.unpacker \in {"docker", "none"} /\ meta'.unpacker \in {"docker", "none"}
        /\ ~left' => ~left
        /\ pc' \notin VagrantPcs \cup {"mount dev", "mount pts", "mount proc"}
    BY <1>2, <1>5 DEF Moves, DockerPcs, VagrantPcs
  <2> QED
    BY <1>1, <2>1 DEF MountRoom, TreeInv, MachineInv, NoMounts, NoMachine
<1> QED
  BY <1>1, <1>3, <1>4, <1>5 DEF DockerMoves

LEMMA TypesLocal ==
  ASSUME TypesInv, DictInv, LocInv, MountInv, Owners, MountRoom, TreeInv, MachineInv,
         LocalNext, UNCHANGED vagrantVars
  PROVE  SharedTypes' /\ LocalTypeOK' /\ MountRoom' /\ TreeInv' /\ MachineInv'
<1> USE DEF LocalPcs, MountPcs, UmountPcs
<1>0. SharedTypes /\ LocalTypeOK /\ loc \in Locals /\ UNCHANGED vm /\ NoMeta.unpacker = "none"
  BY DEF TypesInv, SharedTypes, vagrantVars, NoMeta
<1>1. MachineInv'
  <2>1. LocalMoves
    BY LocalOwners
  <2>2. CASE UNCHANGED sharedVars
    BY <1>0, <2>2 DEF sharedVars, MachineInv, NoMachine
  <2>3. CASE Stopped
    BY <1>0, <2>3 DEF Stopped, MachineInv, NoMachine, VagrantPcs
  <2>4. CASE Moves({"directory", "chroot"}, LocalPcs \cup {"idle", "rmtree"})
    <3>1. /\ meta.unpacker \in {"directory", "chroot", "none"} /\ pc' \notin VagrantPcs
          /\ ~left' => ~left
      BY <1>0, <2>4 DEF Moves, VagrantPcs
    <3> QED
      BY <1>0, <3>1 DEF MachineInv, NoMachine
  <2> QED
    BY <2>1, <2>2, <2>3, <2>4 DEF LocalMoves
<1>2. ASSUME SharedTypes', UNCHANGED <<mounts, hostWiped, torn, left>>, fs' = fs \/ fs' \in World,
             meta'.unpacker = meta.unpacker, pc' \notin {"mount dev", "mount pts", "mount proc"}
      PROVE  SharedTypes' /\ LocalTypeOK' /\ MountRoom' /\ TreeInv' /\ MachineInv'
  BY <1>0, <1>1, <1>2 DEF LocalTypeOK, MountRoom, TreeInv, NoMounts
<1>3. ASSUME NEW type \in {"directory", "chroot"}, Reads(type) PROVE meta \in Meta /\ pc = "idle"
  BY <1>0, <1>3, DictTyped DEF Reads, Idle
<1>4. pc \in LocalPcs => dct \in Meta /\ meta \in Meta
  BY <1>0, DictTyped
<1>5. CASE LocalCreate
  <2>1. meta = NoMeta /\ ~left /\ mounts = NoMounts /\ UNCHANGED <<mounts, hostWiped, torn>> /\ pc = "idle"
    BY <1>0, <1>5 DEF LocalCreate, CanSetUp, Idle, DictInv, MountRoom
  <2>2. \A p \in Points : mounts[p] < MaxMounts
    BY <2>1, LocalAssumption DEF NoMounts
  <2>3. CASE LeftBehind /\ Continue("idle") /\ UNCHANGED fs
    BY <1>0, <1>2, <2>1, <2>3, LeftBehindTyped DEF Continue, LeftBehind
  <2>4. ASSUME NEW type \in {"directory", "chroot"}, Unpacked(NewMeta(type), InputsTar(Extracted(type))),
               fs' = Extracted(type),
               Call("mount dev", NewMeta(type), NoLoc) \/ Continue("idle"),
               pc' = "mount dev" => type = "chroot"
        PROVE  SharedTypes' /\ LocalTypeOK' /\ MountRoom' /\ TreeInv' /\ MachineInv'
    <3>1. fs' \in World /\ NewMeta(type) \in Meta
          /\ InputsTar(Extracted(type)) \in [IoFiles -> {"original", "installed", "absent"}]
      BY <2>4, ArchivesTyped, NewMetaTyped
    <3>2. dct' \in Meta \cup {NoMeta} /\ loc' \in Locals /\ pc' \in {"idle", "mount dev"}
      BY <1>0, <2>1, <2>4, <3>1, NothingStaged DEF Call, Continue, SharedTypes
    <3>3. SharedTypes'
      BY <1>0, <2>4, <3>1, <3>2, UnpackedTyped
    <3>4. MountRoom'
      BY <2>1, <2>2, <3>2 DEF MountRoom, NoMounts
    <3> QED
      BY <1>0, <1>1, <2>1, <3>1, <3>3, <3>4 DEF LocalTypeOK, TreeInv
  <2>5. ASSUME NEW type \in {"directory", "chroot"}, NEW mount \in {type = "chroot", FALSE},
               Unpacked(NewMeta(type), InputsTar(Extracted(type))), fs' = Extracted(type),
               IF mount THEN Call("mount dev", NewMeta(type), NoLoc) ELSE Continue("idle")
        PROVE  SharedTypes' /\ LocalTypeOK' /\ MountRoom' /\ TreeInv' /\ MachineInv'
    <3>1. pc' = "mount dev" => type = "chroot"
      BY <2>1, <2>5 DEF Continue
    <3> QED
      BY <2>4, <2>5, <3>1
  <2> QED
    BY <1>5, <2>3, <2>5 DEF LocalCreate
<1>6. CASE LocalRun
  <2>1. PICK type \in {"directory", "chroot"} : Reads(type)
    BY <1>6 DEF LocalRun
  <2>2. PICK arg \in RunArgs : Call("local run", meta, [NoLoc EXCEPT !.runs = GetRuns(arg)])
    BY <1>6 DEF LocalRun
  <2>3. KeepDir /\ UNCHANGED <<meta, stale, crashed, localVars>>
    BY <1>6 DEF LocalRun
  <2>4. dct' \in Meta /\ loc' \in Locals /\ pc' = "local run"
    BY <1>3, <2>1, <2>2, RunsOfArgument, FreshLocals DEF Call
  <2> QED
    BY <1>0, <1>2, <2>3, <2>4, CallTyped DEF KeepDir, localVars
<1>7. CASE LocalUpload
  <2>1. PICK type \in {"directory", "chroot"} : Reads(type)
    BY <1>7 DEF LocalUpload
  <2>2. PICK specs \in UploadArgs : Call("local upload", meta, [NoLoc EXCEPT !.specs = specs])
    BY <1>7 DEF LocalUpload
  <2>3. KeepDir /\ UNCHANGED <<meta, stale, crashed, localVars>> /\ specs \in Seq(Spec_)
    BY <1>7, UnpackerAssumption DEF LocalUpload
  <2>4. dct' \in Meta /\ loc' \in Locals /\ pc' = "local upload"
    BY <1>3, <2>1, <2>2, <2>3, FreshLocals DEF Call
  <2> QED
    BY <1>0, <1>2, <2>3, <2>4, CallTyped DEF KeepDir, localVars
<1>8. CASE ChrootMount
  <2>1. Reads("chroot") /\ (\A p \in Points : mounts[p] < MaxMounts)
        /\ Call("mount dev", meta, NoLoc) /\ KeepDir /\ UNCHANGED <<meta, stale, crashed, localVars>>
    BY <1>8 DEF ChrootMount
  <2>2. dct' \in Meta /\ loc' \in Locals /\ pc' = "mount dev" /\ meta.unpacker = "chroot"
    BY <1>3, <2>1, NothingStaged DEF Call, Reads
  <2>3. SharedTypes' /\ UNCHANGED <<fs, mounts, hostWiped, torn, meta>>
    BY <1>0, <2>1, <2>2, CallTyped DEF KeepDir, localVars
  <2>4. MountRoom'
    BY <2>1, <2>2, <2>3 DEF MountRoom
  <2> QED
    BY <1>0, <1>1, <2>3, <2>4 DEF LocalTypeOK, TreeInv
<1>9. CASE ChrootUnmount
  <2>1. /\ Reads("chroot") /\ KeepDir /\ UNCHANGED <<meta, stale, crashed, localVars>>
        /\ \E then \in {"none", "dir"} :
              \/ Call("umount dev", meta, [NoLoc EXCEPT !.then = then])
              \/ Call("rmtree", NoMeta, NoLoc)
    BY <1>9 DEF ChrootUnmount
  <2>2. dct' \in Meta \cup {NoMeta} /\ loc' \in Locals /\ pc' \in {"umount dev", "rmtree"}
    BY <1>3, <2>1, FreshLocals, NothingStaged DEF Call
  <2> QED
    BY <1>0, <1>2, <2>1, <2>2, CallTyped DEF KeepDir, localVars
<1>10. CASE LocalDestroyDir
  <2>1. CASE RmTree(FALSE) /\ fs' = NoRoot /\ mounts = NoMounts
    <3>1. Return /\ UNCHANGED <<mounts, hostWiped>> /\ torn' = (torn /\ hostWiped)
      BY <1>10, <2>1 DEF LocalDestroyDir
    <3>2. SharedTypes'
      BY <1>0, <2>1, <3>1, RmTreeTyped
    <3>3. meta' = NoMeta /\ pc' = "idle"
      BY <2>1, <3>1 DEF RmTree, Return, Call
    <3> QED
      BY <1>0, <1>1, <2>1, <3>1, <3>2, <3>3 DEF LocalTypeOK, MountRoom, TreeInv, NoMounts
  <2>2. CASE /\ dir' = TRUE /\ meta' \in {meta, NoMeta} /\ backup' = Nothing
             /\ left' = TRUE
             /\ fs' = Nothing /\ stale' = IoFiles /\ UNCHANGED crashed
             /\ hostWiped' = TRUE /\ UNCHANGED torn
    <3>1. Return /\ UNCHANGED mounts
      BY <1>10 DEF LocalDestroyDir
    <3>2. backup' \in [IoFiles -> {"original", "installed", "absent"}] /\ fs' \in World
      BY <2>2, ArchivesTyped DEF Nothing
    <3>3. SharedTypes'
      BY <1>0, <2>2, <3>1, <3>2, ReturnTyped DEF SharedTypes
    <3>4. pc' = "idle"
      BY <3>1 DEF Return, Call
    <3> QED
      BY <1>0, <1>1, <2>2, <3>1, <3>2, <3>3, <3>4 DEF LocalTypeOK, MountRoom, TreeInv
  <2> QED
    BY <1>10, <2>1, <2>2 DEF LocalDestroyDir
<1>11. CASE LocalCrash
  <2>1. Crash({"directory", "chroot"}) /\ UNCHANGED <<fs, mounts, hostWiped>> /\ torn' \in BOOLEAN
    BY <1>11 DEF LocalCrash
  <2>2. SharedTypes' /\ UNCHANGED <<meta, left>> /\ pc' = "idle"
    BY <1>0, <2>1, CrashTyped DEF Crash, Return, Call
  <2> QED
    BY <1>0, <1>1, <2>1, <2>2 DEF LocalTypeOK, MountRoom, TreeInv, NoMounts
<1>12. CASE Reboot
  <2>1. stale' \in SUBSET IoFiles
    BY <1>0, <1>12 DEF Reboot, SharedTypes, Locals
  <2>2. SharedTypes' /\ UNCHANGED <<meta, left, fs, hostWiped, torn>> /\ pc' = "idle" /\ mounts' = NoMounts
    BY <1>0, <1>12, <2>1, ReturnTyped DEF Reboot, Return, Call, SharedTypes
  <2>3. NoMounts \in [Points -> 0 .. MaxMounts]
    BY LocalAssumption DEF NoMounts
  <2> QED
    BY <1>0, <1>1, <2>2, <2>3 DEF LocalTypeOK, MountRoom, TreeInv, NoMounts
<1>13. CASE LocalStep
  <2>1. CASE LocalRunExits
    <3>1. PICK wrote \in SUBSET OutputsOf(loc.runs) :
            /\ fs' = [f \in IoFiles |-> IF f \in wrote THEN "generated" ELSE fs[f]]
            /\ Call("local status", dct, [loc EXCEPT !.wrote = wrote])
      BY <2>1 DEF LocalRunExits
    <3>2. /\ pc = "local run" /\ dct \in Meta /\ KeepDir
          /\ UNCHANGED <<meta, stale, crashed, mounts, hostWiped, torn>>
      BY <1>4, <2>1 DEF LocalRunExits
    <3>3. fs \in World
      BY <3>2 DEF TreeInv, DictInv
    <3>4. fs' \in World
      BY <3>1, <3>3 DEF World, Contents
    <3>5. wrote \in SUBSET IoFiles
      BY <3>1, OutputsAreFiles
    <3>6. loc' \in Locals /\ dct' = dct /\ pc' = "local status"
      BY <1>0, <3>1, <3>5, LocalsKept DEF Call
    <3> QED
      BY <1>0, <1>2, <3>2, <3>4, <3>6, CallTyped DEF KeepDir
  <2>2. CASE LocalRunDone
    <3>1. dct \in Meta /\ dct.input_files \in [IoFiles -> Status] /\ meta.unpacker = dct.unpacker
      BY <1>4, <2>2, MetaTyped DEF LocalRunDone, DictInv
    <3>2. PICK files \in [IoFiles -> Status] : meta' = [dct EXCEPT !.input_files = files]
      BY <2>2, <3>1, StatusTyped DEF LocalRunDone, Writes
    <3>3. meta' \in Meta /\ meta'.unpacker = meta.unpacker
      BY <3>1, <3>2 DEF Meta
    <3>4. stale' \in SUBSET IoFiles
      BY <1>0, <2>2, OutputsAreFiles DEF LocalRunDone, SharedTypes
    <3>5. SharedTypes' /\ pc' = "idle" /\ UNCHANGED <<fs, mounts, hostWiped, torn, left>>
      BY <1>0, <2>2, <3>3, <3>4, ReturnTyped DEF LocalRunDone, SharedTypes, KeepDir, localVars, Return, Call
    <3> QED
      BY <1>2, <3>3, <3>5
  <2>3. CASE LocalUploadFile
    <3>1. /\ pc = "local upload" /\ loc.specs # <<>> /\ dct \in Meta /\ pc' = "local upload"
          /\ KeepDir /\ UNCHANGED <<meta, stale, crashed, mounts, hostWiped, torn>>
      BY <1>4, <2>3 DEF LocalUploadFile, Call
    <3>2. PICK s : s = Head(loc.specs)
      OBVIOUS
    <3>3. s \in Spec_ /\ Tail(loc.specs) \in Seq(Spec_)
      BY <1>0, <3>1, <3>2, SpecsGoOn DEF Locals
    <3>4. CASE /\ SpecOutcome(s) = "put" /\ fs' = [fs EXCEPT ![s.name] = Uploaded(s)]
               /\ dct' = [dct EXCEPT !.input_files = StatusAfter(@, s)]
               /\ loc' = [loc EXCEPT !.specs = Tail(@), !.wrote = @ \cup {s.name}, !.told = StaleAfter(@, s)]
      <4>1. dct' \in Meta
        BY <1>0, <3>1, <3>3, <3>4, SpecsPut, MetaTyped
      <4>2. /\ s.name \in IoFiles /\ Uploaded(s) \in Contents
            /\ loc.wrote \cup {s.name} \in SUBSET IoFiles /\ StaleAfter(loc.told, s) \in SUBSET IoFiles
        BY <1>0, <3>3, <3>4, SpecsPut DEF Locals
      <4>3. loc' \in Locals
        BY <1>0, <3>3, <3>4, <4>2, LocalsKept
      <4>4. fs \in World
        BY <3>1 DEF TreeInv, DictInv
      <4>5. fs' \in World
        BY <3>4, <4>2, <4>4 DEF World
      <4> QED
        BY <1>0, <1>2, <3>1, <4>1, <4>3, <4>5, CallTyped DEF KeepDir
    <3>5. CASE dct' = dct /\ UNCHANGED fs
               /\ \E specs \in {Tail(loc.specs), <<>>} : loc' = [loc EXCEPT !.specs = specs]
      <4>1. loc' \in Locals
        BY <1>0, <3>3, <3>5, LocalsKept
      <4> QED
        BY <1>0, <1>2, <3>1, <3>5, <4>1, CallTyped DEF KeepDir
    <3> QED
      BY <2>3, <3>2, <3>4, <3>5 DEF LocalUploadFile, Call
  <2>4. CASE LocalUploadDone
    <3>1. dct \in Meta /\ meta' = dct /\ meta'.unpacker = meta.unpacker
      BY <1>4, <2>4 DEF LocalUploadDone, DictInv, Writes
    <3>2. stale' \in SUBSET IoFiles
      BY <1>0, <2>4 DEF LocalUploadDone, SharedTypes, Locals
    <3>3. SharedTypes' /\ pc' = "idle" /\ UNCHANGED <<fs, mounts, hostWiped, torn, left>>
      BY <1>0, <2>4, <3>1, <3>2, ReturnTyped DEF LocalUploadDone, SharedTypes, KeepDir, localVars, Return, Call
    <3> QED
      BY <1>2, <3>1, <3>3
  <2>5. CASE ChrootMounted \/ ChrootUnmounted
    <3>1. dct \in Meta /\ meta.unpacker = dct.unpacker
      BY <1>4, <2>5 DEF ChrootMounted, ChrootUnmounted, DictInv
    <3>2. PICK b \in BOOLEAN : meta' = [dct EXCEPT !.mounted = b]
      BY <2>5 DEF ChrootMounted, ChrootUnmounted, Writes
    <3>3. meta' \in Meta /\ meta'.unpacker = meta.unpacker
      BY <3>1, <3>2 DEF Meta
    <3>4. dct' = NoMeta /\ loc' = NoLoc /\ pc' \in {"idle", "rmtree"} /\ KeepDir
          /\ UNCHANGED <<stale, crashed, fs, mounts, hostWiped, torn>>
      BY <2>5 DEF ChrootMounted, ChrootUnmounted, Return, Call, localVars
    <3>5. SharedTypes' /\ UNCHANGED left
      BY <1>0, <3>3, <3>4, NothingStaged DEF SharedTypes, KeepDir
    <3> QED
      BY <1>2, <3>3, <3>4, <3>5
  <2>6. ASSUME NEW q \in Points, ChrootMountPoint(q)
        PROVE  SharedTypes' /\ LocalTypeOK' /\ MountRoom' /\ TreeInv' /\ MachineInv'
    <3>1. /\ pc = MountPc(q) /\ KeepDir /\ UNCHANGED <<meta, stale, crashed, fs, hostWiped>>
      BY <2>6 DEF ChrootMountPoint
    <3>2. CASE Return /\ torn' = TRUE /\ UNCHANGED mounts
      <4>1. SharedTypes' /\ pc' = "idle" /\ UNCHANGED left
        BY <1>0, <3>1, <3>2, ReturnTyped DEF SharedTypes, KeepDir, Return, Call
      <4> QED
        BY <1>0, <1>1, <3>1, <3>2, <4>1 DEF LocalTypeOK, MountRoom, TreeInv, NoMounts
    <3>3. CASE mounts' = [mounts EXCEPT ![q] = @ + 1] /\ Continue(Next_(q)) /\ UNCHANGED torn
      <4>1. SharedTypes' /\ UNCHANGED left
        BY <1>0, <3>1, <3>3 DEF SharedTypes, KeepDir, Continue
      <4>2. meta.unpacker = "chroot" /\ mounts[q] < MaxMounts
        BY <3>1, LocalPoints DEF MountInv, MountRoom, MountPc, Points
      <4>3. mounts' \in [Points -> 0 .. MaxMounts]
        BY <1>0, <3>3, <4>2, LocalAssumption DEF LocalTypeOK
      <4>4. \A p \in Points : p # q => mounts'[p] = mounts[p]
        BY <1>0, <3>3 DEF LocalTypeOK
      <4>5. MountRoom'
        <5>1. CASE q = "dev"
          BY <3>1, <3>3, <4>2, <4>4, <5>1 DEF MountRoom, MountPc, Next_, Points, Continue
        <5>2. CASE q = "pts"
          BY <3>1, <3>3, <4>2, <4>4, <5>2 DEF MountRoom, MountPc, Next_, Points, Continue
        <5>3. CASE q = "proc"
          BY <3>1, <3>3, <4>2, <5>3 DEF MountRoom, Next_, Continue
        <5> QED
          BY <5>1, <5>2, <5>3 DEF Points
      <4> QED
        BY <1>0, <1>1, <3>1, <3>3, <4>1, <4>3, <4>5 DEF LocalTypeOK, TreeInv
    <3> QED
      BY <2>6, <3>2, <3>3 DEF ChrootMountPoint
  <2>7. ASSUME NEW d \in {"dev", "proc"}, ChrootUmountPoint(d)
        PROVE  SharedTypes' /\ LocalTypeOK' /\ MountRoom' /\ TreeInv' /\ MachineInv'
    <3>1. /\ pc \in UmountPcs /\ KeepDir /\ UNCHANGED <<meta, stale, crashed, fs, hostWiped, torn>>
          /\ Return \/ Continue("umount proc") \/ Continue("unmounted")
      BY <2>7 DEF ChrootUmountPoint
    <3>2. mounts' \in [Points -> 0 .. MaxMounts]
      <4>1. CASE mounts' = [p \in Points |-> IF p \in MountedUnder(d) THEN 0 ELSE mounts[p]]
        BY <1>0, <4>1, LocalAssumption DEF LocalTypeOK
      <4>2. CASE mounts' = [mounts EXCEPT !["pts"] = 0]
        <5>1. mounts \in [Points -> 0 .. MaxMounts] /\ 0 \in 0 .. MaxMounts
          BY <1>0, LocalAssumption DEF LocalTypeOK
        <5> QED
          BY <4>2, <5>1
      <4>3. CASE mounts' = mounts
        BY <1>0, <4>3 DEF LocalTypeOK
      <4> QED
        BY <2>7, <4>1, <4>2, <4>3 DEF ChrootUmountPoint
    <3>3. SharedTypes' /\ UNCHANGED left /\ pc' \in {"idle", "umount proc", "unmounted"}
      <4>1. CASE Return
        BY <1>0, <3>1, <4>1, ReturnTyped DEF SharedTypes, KeepDir, Return, Call
      <4>2. CASE UNCHANGED <<dct, loc>> /\ pc' \in {"umount proc", "unmounted"}
        BY <1>0, <3>1, <4>2 DEF SharedTypes, KeepDir
      <4> QED
        BY <3>1, <4>1, <4>2 DEF Continue
    <3>4. meta.unpacker = "chroot"
      BY <3>1 DEF MountInv
    <3> QED
      BY <1>0, <1>1, <3>1, <3>2, <3>3, <3>4 DEF LocalTypeOK, MountRoom, TreeInv
  <2> QED
    BY <1>13, <2>1, <2>2, <2>3, <2>4, <2>5, <2>6, <2>7 DEF LocalStep
<1> QED
  BY <1>5, <1>6, <1>7, <1>8, <1>9, <1>10, <1>11, <1>12, <1>13 DEF LocalNext

LEMMA TypesVagrant ==
  ASSUME TypesInv, DictInv, Owners, MountRoom, TreeInv, MachineInv,
         VagrantNext, UNCHANGED localVars
  PROVE  SharedTypes' /\ VagrantTypeOK' /\ MountRoom' /\ TreeInv' /\ MachineInv'
<1> USE DEF VagrantPcs
<1>0. /\ SharedTypes /\ VagrantTypeOK /\ vm \in Machine /\ loc \in Locals /\ UNCHANGED <<fs, mounts>>
      /\ NoMeta.unpacker = "none" /\ (vm.state = "none" => vm = NoMachine)
  BY DEF TypesInv, SharedTypes, VagrantTypeOK, localVars, NoMeta, MachineInv
<1>1. MountRoom' /\ TreeInv'
  <2>1. VagrantMoves
    BY VagrantOwners
  <2>2. CASE UNCHANGED sharedVars
    BY <1>0, <2>2 DEF sharedVars, MountRoom, TreeInv, NoMounts
  <2>3. CASE Stopped
    BY <1>0, <2>3 DEF Stopped, MountRoom, TreeInv, NoMounts
  <2>4. CASE Moves({"vagrant"}, VagrantPcs \cup {"idle", "vagrant rmtree"})
    <3>1. /\ meta.unpacker \in {"vagrant", "none"} /\ meta'.unpacker \in {"vagrant", "none"}
          /\ pc' \notin {"mount dev", "mount pts", "mount proc"} /\ (~left' => ~left)
      BY <1>0, <2>4 DEF Moves
    <3> QED
      BY <1>0, <3>1 DEF MountRoom, TreeInv, NoMounts
  <2> QED
    BY <2>1, <2>2, <2>3, <2>4 DEF VagrantMoves
<1>2. ASSUME SharedTypes', magicDirs' \in BOOLEAN, vm' \in Machine, vm' = NoMachine \/ vm'.state # "none",
             vm' = NoMachine \/ meta'.unpacker = "vagrant" \/ left',
             pc' \in VagrantPcs => dct'.use_chroot = meta'.use_chroot
      PROVE  SharedTypes' /\ VagrantTypeOK' /\ MountRoom' /\ TreeInv' /\ MachineInv'
  BY <1>1, <1>2 DEF VagrantTypeOK, MachineInv, NoMachine
<1>3. pc \in VagrantPcs => /\ dct \in Meta /\ meta \in Meta /\ meta.unpacker = "vagrant"
                           /\ dct.unpacker = "vagrant" /\ dct.use_chroot = meta.use_chroot
  BY <1>0, DictTyped DEF DictInv, MachineInv
<1>4. Reads("vagrant") => meta \in Meta /\ meta.unpacker = "vagrant" /\ pc = "idle"
  BY <1>0, DictTyped DEF Reads, Idle
<1>5. NoMachine \in Machine /\ magicDirs \in BOOLEAN
  BY <1>0, ArchivesTyped, VagrantAssumption DEF NoMachine, Machine, VagrantTypeOK
<1>6. ASSUME SharedTypes', UNCHANGED <<vm, magicDirs>>, meta.unpacker = "vagrant", meta'.unpacker = "vagrant",
             pc' \in VagrantPcs => dct'.use_chroot = meta'.use_chroot
      PROVE  SharedTypes' /\ VagrantTypeOK' /\ MountRoom' /\ TreeInv' /\ MachineInv'
  BY <1>0, <1>2, <1>5, <1>6
<1>7. CASE VagrantCreate
  <2>1. meta = NoMeta /\ ~left /\ pc = "idle" /\ vm = NoMachine /\ UNCHANGED vm
    BY <1>0, <1>7 DEF VagrantCreate, CanSetUp, Idle, DictInv, MachineInv
  <2>2. CASE LeftBehind /\ Continue("idle") /\ UNCHANGED magicDirs
    BY <1>0, <1>2, <1>5, <2>1, <2>2, LeftBehindTyped DEF Continue
  <2>3. ASSUME NEW use_chroot \in BOOLEAN, NEW m, m = [NewMeta("vagrant") EXCEPT !.use_chroot = use_chroot],
               Unpacked(m, DataTgz), magicDirs' \in {use_chroot, FALSE},
               Call("vagrant ssh", m, [NoLoc EXCEPT !.then = "idle"]) \/ Continue("idle")
        PROVE  SharedTypes' /\ VagrantTypeOK' /\ MountRoom' /\ TreeInv' /\ MachineInv'
    <3>1. m \in Meta /\ m.unpacker = "vagrant"
      BY <2>3, NewMetaTyped DEF NewMeta
    <3>2. dct' \in Meta \cup {NoMeta} /\ loc' \in Locals /\ (pc' = "vagrant ssh" => dct' = m)
          /\ pc' \in {"idle", "vagrant ssh"}
      BY <1>0, <2>1, <2>3, <3>1, FreshLocals DEF Call, Continue, SharedTypes
    <3>3. SharedTypes' /\ meta' = m
      BY <1>0, <2>3, <3>1, <3>2, UnpackedTyped, ArchivesTyped DEF Unpacked
    <3>4. magicDirs' \in BOOLEAN
      BY <2>3
    <3> QED
      BY <1>2, <1>5, <2>1, <3>2, <3>3, <3>4
  <2> QED
    BY <1>7, <2>2, <2>3 DEF VagrantCreate
<1>8. ASSUME NEW label, NEW l, VagrantCommand(label, l), [l EXCEPT !.then = label] \in Locals
      PROVE  SharedTypes' /\ VagrantTypeOK' /\ MountRoom' /\ TreeInv' /\ MachineInv'
  <2>1. /\ Reads("vagrant") /\ dct' = meta /\ loc' = [l EXCEPT !.then = label]
        /\ UNCHANGED <<dir, backup, left, meta, stale, crashed, vm, magicDirs>>
    BY <1>8 DEF VagrantCommand, Call, KeepDir, vagrantVars
  <2>2. SharedTypes'
    BY <1>0, <1>4, <1>8, <2>1, CallTyped
  <2> QED
    BY <1>4, <1>6, <2>1, <2>2
<1>9. CASE VagrantStart \/ VagrantDownload
  <2>1. VagrantCommand("idle", NoLoc) /\ [NoLoc EXCEPT !.then = "idle"] \in Locals
    BY <1>9, FreshLocals DEF VagrantStart, VagrantDownload
  <2> QED
    BY <1>8, <2>1
<1>10. CASE VagrantRun
  <2>1. PICK arg \in RunArgs : VagrantCommand("vagrant run", [NoLoc EXCEPT !.runs = GetRuns(arg)])
    BY <1>10 DEF VagrantRun
  <2>2. PICK l : l = [NoLoc EXCEPT !.runs = GetRuns(arg)]
    OBVIOUS
  <2>3. l \in Locals
    BY <2>2, RunsOfArgument, FreshLocals
  <2>4. [l EXCEPT !.then = "vagrant run"] \in Locals
    BY <2>3, LocalsKept
  <2> QED
    BY <1>8, <2>1, <2>2, <2>4
<1>11. CASE VagrantUpload
  <2>1. PICK specs \in UploadArgs : VagrantCommand("vagrant upload", [NoLoc EXCEPT !.specs = specs])
    BY <1>11 DEF VagrantUpload
  <2>2. PICK l : l = [NoLoc EXCEPT !.specs = specs]
    OBVIOUS
  <2>3. l \in Locals
    BY <2>2, UnpackerAssumption, FreshLocals
  <2>4. [l EXCEPT !.then = "vagrant upload"] \in Locals
    BY <2>3, LocalsKept
  <2> QED
    BY <1>8, <2>1, <2>2, <2>4
<1>12. CASE VagrantSuspend
  <2>1. Reads("vagrant") /\ vm.state = "running" /\ vm' = [vm EXCEPT !.state = "saved"]
        /\ UNCHANGED <<sharedVars, magicDirs>>
    BY <1>12 DEF VagrantSuspend
  <2>2. vm' \in Machine /\ vm'.state = "saved"
    BY <1>0, <2>1 DEF Machine
  <2>3. SharedTypes'
    BY <1>0, <2>1 DEF sharedVars, SharedTypes
  <2> QED
    BY <1>2, <1>4, <1>5, <2>1, <2>2, <2>3 DEF sharedVars
<1>13. CASE VagrantDestroyVm
  <2>1. /\ Reads("vagrant") /\ KeepDir /\ UNCHANGED <<meta, crashed, magicDirs>>
        /\ vm' = NoMachine \/ vm' = vm
        /\ stale' \in {stale, IoFiles}
        /\ dct' = NoMeta /\ loc' = NoLoc /\ pc' \in {"idle", "vagrant rmtree"}
    BY <1>13 DEF VagrantDestroyVm, Call, Return
  <2>2. SharedTypes'
    BY <1>0, <2>1, NothingStaged DEF SharedTypes, KeepDir
  <2> QED
    BY <1>0, <1>2, <1>4, <1>5, <2>1, <2>2
<1>14. CASE VagrantDestroyDir
  <2>1. RmTree(vm # NoMachine) /\ Return /\ magicDirs' = FALSE /\ UNCHANGED vm
    BY <1>14 DEF VagrantDestroyDir
  <2>2. SharedTypes' /\ pc' = "idle"
    BY <1>0, <2>1, RmTreeTyped DEF Return, Call
  <2>3. vm' = NoMachine \/ left'
    BY <2>1 DEF RmTree
  <2> QED
    BY <1>0, <1>2, <2>1, <2>2, <2>3
<1>15. CASE VmPowerOff
  <2>1. /\ meta.unpacker = "vagrant" /\ vm' = [vm EXCEPT !.state = "off", !.stack = 0] /\ Return
        /\ UNCHANGED <<dir, meta, backup, left, magicDirs>> /\ crashed' = TRUE /\ stale' = stale \cup loc.wrote
    BY <1>15 DEF VmPowerOff
  <2>2. vm' \in Machine /\ vm'.state = "off"
    <3>1. 0 \in 0 .. MaxStack /\ vm = [state |-> vm.state, fs |-> vm.fs, ready |-> vm.ready, stack |-> vm.stack]
      BY <1>0, VagrantAssumption DEF Machine
    <3>2. vm' = [state |-> "off", fs |-> vm.fs, ready |-> vm.ready, stack |-> 0]
      BY <2>1, <3>1
    <3> QED
      BY <1>0, <3>1, <3>2 DEF Machine
  <2>3. stale' \in SUBSET IoFiles
    BY <1>0, <2>1 DEF SharedTypes, Locals
  <2>4. SharedTypes' /\ pc' = "idle"
    BY <1>0, <2>1, <2>3, ReturnTyped DEF SharedTypes, Return, Call
  <2> QED
    BY <1>2, <1>5, <2>1, <2>2, <2>4
<1>16. CASE Crash({"vagrant"}) /\ UNCHANGED vagrantVars
  <2>1. SharedTypes' /\ meta' = meta /\ meta.unpacker = "vagrant" /\ pc' = "idle" /\ UNCHANGED <<vm, magicDirs>>
    BY <1>0, <1>16, CrashTyped DEF Crash, Return, Call, vagrantVars
  <2> QED
    BY <1>6, <2>1
<1>17. CASE VagrantStep
  <2>1. CASE VagrantUp
    <3>1. pc = "vagrant ssh" /\ KeepDir /\ UNCHANGED <<meta, crashed, magicDirs>>
      BY <2>1 DEF VagrantUp
    <3>2. CASE /\ vm' = [state |-> "running", fs |-> SetupSh(dct.use_chroot), ready |-> TRUE, stack |-> 0]
               /\ stale' = {f \in IoFiles : Origin[f] = "unpacked"} \cup
                           {f \in IoFiles : dct.input_files[f] # metadata_initial_iofiles[f]}
               /\ UNCHANGED <<pc, dct, loc>>
      <4>1. vm' \in Machine /\ vm'.state = "running"
        BY <3>2, ArchivesTyped, VagrantAssumption DEF Machine
      <4>2. SharedTypes'
        BY <1>0, <3>1, <3>2 DEF SharedTypes, KeepDir
      <4> QED
        BY <1>2, <1>3, <1>5, <3>1, <3>2, <4>1, <4>2
    <3>3. CASE vm' = [NoMachine EXCEPT !.state = "running"] /\ stale' = IoFiles /\ Return
      <4>1. vm' \in Machine /\ vm'.state = "running"
        BY <1>5, <3>3 DEF Machine
      <4>2. SharedTypes' /\ pc' = "idle"
        BY <1>0, <3>1, <3>3, ReturnTyped DEF SharedTypes, KeepDir, Return, Call
      <4> QED
        BY <1>2, <1>3, <1>5, <3>1, <4>1, <4>2
    <3>4. CASE vm' = [vm EXCEPT !.state = "running"] /\ UNCHANGED <<stale, pc, dct, loc>>
      <4>1. vm' \in Machine /\ vm'.state = "running"
        BY <1>0, <3>4 DEF Machine
      <4>2. SharedTypes'
        BY <1>0, <3>1, <3>4 DEF SharedTypes, KeepDir
      <4> QED
        BY <1>2, <1>3, <1>5, <3>1, <3>4, <4>1, <4>2
    <3> QED
      BY <2>1, <3>2, <3>3, <3>4 DEF VagrantUp
  <2>2. CASE VagrantMachineReady
    <3>1. /\ pc = "vagrant ssh" /\ vm.state = "running" /\ KeepDir /\ UNCHANGED <<meta, stale, crashed, magicDirs>>
          /\ Return \/ (Continue(loc.then) /\ UNCHANGED <<dct, loc>>)
          /\ vm' = vm \/ \E n \in {vm.stack, vm.stack + 1} :
                            vm' = [vm EXCEPT !.stack = n] /\ (n # vm.stack => vm.stack < MaxStack)
      BY <2>2 DEF VagrantMachineReady, Continue
    <3>2. vm' \in Machine /\ vm'.state = "running"
      <4>1. vm.stack \in 0 .. MaxStack
        BY <1>0 DEF Machine
      <4>2. vm.stack < MaxStack => vm.stack + 1 \in 0 .. MaxStack
        BY <4>1, VagrantAssumption
      <4>3. ASSUME NEW n \in 0 .. MaxStack, vm' = [vm EXCEPT !.stack = n]
            PROVE  vm' \in Machine /\ vm'.state = "running"
        BY <1>0, <3>1, <4>3 DEF Machine
      <4> QED
        BY <1>0, <3>1, <4>1, <4>2, <4>3
    <3>3. SharedTypes'
      BY <1>0, <3>1, ReturnTyped DEF SharedTypes, KeepDir, Continue
    <3>4. pc' \in VagrantPcs => dct' = dct
      BY <3>1 DEF Return, Call
    <3> QED
      BY <1>2, <1>3, <1>5, <3>1, <3>2, <3>3, <3>4
  <2>3. CASE VagrantRunExits
    <3>0. PICK wrote \in SUBSET OutputsOf(loc.runs) :
            /\ vm' = [vm EXCEPT !.fs = [f \in IoFiles |-> IF f \in wrote THEN "generated" ELSE vm.fs[f]]]
            /\ \/ /\ Call("vagrant status", dct, [loc EXCEPT !.wrote = wrote])
                  /\ UNCHANGED stale
               \/ Return /\ stale' = stale \cup wrote
      BY <2>3 DEF VagrantRunExits
    <3>1. PICK new : /\ new = [f \in IoFiles |-> IF f \in wrote THEN "generated" ELSE vm.fs[f]]
                     /\ vm' = [vm EXCEPT !.fs = new]
      BY <3>0
    <3>2. pc = "vagrant run" /\ vm.state = "running" /\ KeepDir /\ UNCHANGED <<meta, crashed, magicDirs>>
      BY <2>3 DEF VagrantRunExits
    <3>3. new \in World /\ wrote \in SUBSET IoFiles
      BY <1>0, <3>0, <3>1, OutputsAreFiles DEF Machine, World, Contents
    <3>4. vm' \in Machine /\ vm'.state = "running"
      BY <1>0, <3>1, <3>2, <3>3 DEF Machine
    <3>5. SharedTypes' /\ (pc' \in VagrantPcs => dct' = dct)
      <4>1. CASE Call("vagrant status", dct, [loc EXCEPT !.wrote = wrote]) /\ UNCHANGED stale
        <5>1. loc' \in Locals
          BY <1>0, <3>3, <4>1, LocalsKept DEF Call
        <5> QED
          BY <1>0, <1>3, <3>2, <4>1, <5>1, CallTyped DEF Call, KeepDir
      <4>2. CASE Return /\ stale' = stale \cup wrote
        <5>1. stale' \in SUBSET IoFiles
          BY <1>0, <3>3, <4>2 DEF SharedTypes
        <5> QED
          BY <1>0, <3>2, <4>2, <5>1, ReturnTyped DEF SharedTypes, KeepDir, Return, Call
      <4> QED
        BY <3>0, <4>1, <4>2
    <3> QED
      BY <1>2, <1>3, <1>5, <3>2, <3>4, <3>5
  <2>4. CASE VagrantRunDone
    <3>1. dct \in Meta /\ dct.input_files \in [IoFiles -> Status] /\ dct.unpacker = "vagrant"
      BY <1>3, <2>4, MetaTyped DEF VagrantRunDone
    <3>2. PICK files \in [IoFiles -> Status] : meta' = [dct EXCEPT !.input_files = files]
      BY <2>4, <3>1, StatusTyped DEF VagrantRunDone, Writes
    <3>3. meta' \in Meta /\ meta'.unpacker = "vagrant"
      BY <3>1, <3>2 DEF Meta
    <3>4. stale' \in SUBSET IoFiles
      BY <1>0, <2>4, OutputsAreFiles DEF VagrantRunDone, SharedTypes
    <3>5. SharedTypes' /\ pc' = "idle" /\ UNCHANGED <<vm, magicDirs>>
      BY <1>0, <2>4, <3>3, <3>4, ReturnTyped DEF VagrantRunDone, SharedTypes, KeepDir, vagrantVars, Return, Call
    <3>6. meta.unpacker = "vagrant"
      BY <1>3, <2>4 DEF VagrantRunDone
    <3> QED
      BY <1>6, <3>3, <3>5, <3>6
  <2>5. CASE VagrantUploadFile
    <3>1. /\ pc = "vagrant upload" /\ loc.specs # <<>> /\ dct \in Meta /\ pc' = "vagrant upload"
          /\ KeepDir /\ UNCHANGED <<meta, stale, crashed, magicDirs>>
      BY <1>3, <2>5 DEF VagrantUploadFile, Call
    <3>2. PICK s : s = Head(loc.specs)
      OBVIOUS
    <3>3. s \in Spec_ /\ Tail(loc.specs) \in Seq(Spec_)
      BY <1>0, <3>1, <3>2, SpecsGoOn DEF Locals
    <3>4. CASE /\ SpecOutcome(s) = "put" /\ vm.state = "running" /\ vm' = [vm EXCEPT !.fs[s.name] = Uploaded(s)]
               /\ dct' = [dct EXCEPT !.input_files = StatusAfter(@, s)]
               /\ loc' = [loc EXCEPT !.specs = Tail(@), !.wrote = @ \cup {s.name}, !.told = StaleAfter(@, s)]
      <4>1. PICK files \in [IoFiles -> Status] : dct' = [dct EXCEPT !.input_files = files]
        BY <1>0, <3>1, <3>3, <3>4, SpecsPut, MetaTyped
      <4>2. dct' \in Meta /\ dct'.use_chroot = dct.use_chroot
        BY <3>1, <4>1 DEF Meta
      <4>3. /\ s.name \in IoFiles /\ Uploaded(s) \in Contents
            /\ loc.wrote \cup {s.name} \in SUBSET IoFiles /\ StaleAfter(loc.told, s) \in SUBSET IoFiles
        BY <1>0, <3>3, <3>4, SpecsPut DEF Locals
      <4>4. loc' \in Locals
        BY <1>0, <3>3, <3>4, <4>3, LocalsKept
      <4>5. PICK new : new = [vm.fs EXCEPT ![s.name] = Uploaded(s)] /\ vm' = [vm EXCEPT !.fs = new]
        BY <3>4
      <4>6. new \in World
        BY <1>0, <4>3, <4>5 DEF Machine, World
      <4>7. vm' \in Machine /\ vm'.state = "running"
        BY <1>0, <3>4, <4>5, <4>6 DEF Machine
      <4>8. SharedTypes'
        BY <1>0, <3>1, <4>2, <4>4, CallTyped DEF KeepDir
      <4> QED
        BY <1>2, <1>3, <1>5, <3>1, <4>2, <4>7, <4>8
    <3>5. CASE dct' = dct /\ UNCHANGED vm
               /\ \E specs \in {Tail(loc.specs), <<>>} : loc' = [loc EXCEPT !.specs = specs]
      <4>1. loc' \in Locals
        BY <1>0, <3>3, <3>5, LocalsKept
      <4>2. SharedTypes'
        BY <1>0, <3>1, <3>5, <4>1, CallTyped DEF KeepDir
      <4> QED
        BY <1>3, <1>6, <3>1, <3>5, <4>2
    <3> QED
      BY <2>5, <3>2, <3>4, <3>5 DEF VagrantUploadFile, Call
  <2>6. CASE VagrantUploadDone
    <3>1. dct \in Meta /\ meta' = dct /\ meta'.unpacker = "vagrant" /\ meta.unpacker = "vagrant"
      BY <1>3, <2>6 DEF VagrantUploadDone, Writes
    <3>2. stale' \in SUBSET IoFiles
      BY <1>0, <2>6 DEF VagrantUploadDone, SharedTypes, Locals
    <3>3. SharedTypes' /\ pc' = "idle" /\ UNCHANGED <<vm, magicDirs>>
      BY <1>0, <2>6, <3>1, <3>2, ReturnTyped DEF VagrantUploadDone, SharedTypes, KeepDir, vagrantVars, Return, Call
    <3> QED
      BY <1>6, <3>1, <3>3
  <2> QED
    BY <1>17, <2>1, <2>2, <2>3, <2>4, <2>5, <2>6 DEF VagrantStep
<1> QED
  BY <1>7, <1>9, <1>10, <1>11, <1>12, <1>13, <1>14, <1>15, <1>16, <1>17 DEF VagrantNext

HomeInv == TypesInv /\ BoxHeld /\ MountRoom /\ TreeInv /\ MachineInv

LEMMA HomeStep ==
  DictInv /\ LocInv /\ MountInv /\ Owners /\ HomeInv /\ [Next]_unpackersVars => HomeInv'
<1> SUFFICES ASSUME DictInv, LocInv, MountInv, Owners, HomeInv, [Next]_unpackersVars PROVE HomeInv'
  OBVIOUS
<1>0. TypesInv /\ BoxHeld /\ MountRoom /\ TreeInv /\ MachineInv
  BY DEF HomeInv
<1>1. UNCHANGED dockerVars => DockerTypeOK'
  BY <1>0 DEF dockerVars, TypesInv, DockerTypeOK
<1>2. UNCHANGED localVars => LocalTypeOK'
  BY <1>0 DEF localVars, TypesInv, LocalTypeOK
<1>3. UNCHANGED vagrantVars => VagrantTypeOK'
  BY <1>0 DEF vagrantVars, TypesInv, VagrantTypeOK
<1>4. LocalMoves \/ VagrantMoves => (UNCHANGED dockerVars => BoxHeld')
  <2>1. LocalMoves \/ VagrantMoves => UNCHANGED <<pc, loc>> \/ pc' \notin BoxPcs
    BY DEF LocalMoves, VagrantMoves, Moves, Stopped, BoxPcs, LocalPcs, MountPcs, UmountPcs, VagrantPcs, sharedVars
  <2> QED
    BY <1>0, <2>1 DEF BoxHeld, dockerVars
<1>5. CASE DockerNext /\ UNCHANGED <<localVars, vagrantVars>>
  <2>1. SharedTypes' /\ DockerTypeOK' /\ BoxHeld'
    BY <1>0, <1>5, TypesDocker
  <2>2. MountRoom' /\ TreeInv' /\ MachineInv'
    BY <1>0, <1>5, DockerElse
  <2> QED
    BY <1>2, <1>3, <1>5, <2>1, <2>2 DEF HomeInv, TypesInv
<1>6. CASE LocalNext /\ UNCHANGED <<dockerVars, vagrantVars>>
  <2>1. SharedTypes' /\ LocalTypeOK' /\ MountRoom' /\ TreeInv' /\ MachineInv'
    BY <1>0, <1>6, TypesLocal
  <2>2. BoxHeld'
    BY <1>4, <1>6, LocalOwners
  <2> QED
    BY <1>1, <1>3, <1>6, <2>1, <2>2 DEF HomeInv, TypesInv
<1>7. CASE VagrantNext /\ UNCHANGED <<dockerVars, localVars>>
  <2>1. SharedTypes' /\ VagrantTypeOK' /\ MountRoom' /\ TreeInv' /\ MachineInv'
    BY <1>0, <1>7, TypesVagrant
  <2>2. BoxHeld'
    BY <1>4, <1>7, VagrantOwners
  <2> QED
    BY <1>1, <1>2, <1>7, <2>1, <2>2 DEF HomeInv, TypesInv
<1>8. CASE UNCHANGED unpackersVars
  <2>1. UNCHANGED <<sharedVars, dockerVars, localVars, vagrantVars>>
    BY <1>8 DEF unpackersVars
  <2>2. SharedTypes'
    BY <1>0, <2>1 DEF TypesInv, SharedTypes, sharedVars
  <2>3. BoxHeld'
    BY <1>0, <2>1 DEF BoxHeld, sharedVars, dockerVars
  <2>4. MountRoom' /\ TreeInv' /\ MachineInv'
    BY <1>0, <2>1 DEF MountRoom, TreeInv, MachineInv, sharedVars, localVars, vagrantVars, NoMounts, NoMachine
  <2> QED
    BY <1>1, <1>2, <1>3, <2>1, <2>2, <2>3, <2>4 DEF HomeInv, TypesInv
<1> QED
  BY <1>5, <1>6, <1>7, <1>8 DEF Next

\* Every variable of the unpackers keeps its type: the dictionaries, the images
\* and containers, the tree, the machine and the mounts, which never pile up
\* beyond the bound.
THEOREM UnpackersTyped == Spec => []TypeOK
<1>1. Init => DictInv /\ LocInv /\ MountInv /\ Owners /\ HomeInv
  BY DictInit, MountInit, OwnersInit, TypesInit DEF Init, SharedInit, LocInv, HomeInv
<1>2. DictInv /\ LocInv /\ MountInv /\ Owners /\ HomeInv /\ [Next]_unpackersVars
        => (DictInv /\ LocInv /\ MountInv /\ Owners /\ HomeInv)'
  BY DictStep, LocStep, MountStep, OwnersStep, HomeStep
<1>3. DictInv /\ HomeInv => TypeOK
  <2> SUFFICES ASSUME DictInv, HomeInv PROVE TypeOK
    OBVIOUS
  <2>1. TypesInv
    BY DEF HomeInv
  <2>2. backup \in World
    BY <2>1 DEF TypesInv, SharedTypes, World, Contents
  <2>3. SharedTypeOK
    BY <2>1, <2>2 DEF TypesInv, SharedTypes, SharedTypeOK, DictInv, Locals
  <2> QED
    BY <2>1, <2>3 DEF TypesInv, TypeOK
<1> QED
  BY <1>1, <1>2, <1>3, PTL DEF Spec
-----------------------------------------------------------------------------
(* What becomes of the images.                                             *)

\* What a docker command has in hand: the dictionary it will write, the image
\* it replaces and the one it makes.
ShelfInv ==
    /\ meta.unpacker = "docker" /\ meta.initial = 0 => meta.current = 0
    /\ pc \in DockerPcs /\ pc # "docker built" => meta.initial # 0
    /\ pc \in {"docker built", "docker run", "docker commit", "docker rm", "docker rmi", "docker status"}
          => dct = meta
    /\ pc = "docker upload" => dct.current = meta.current /\ loc.image = meta.current
    /\ pc = "docker reset" => dct.current = meta.initial
    /\ pc \in {"docker rm", "docker rmi"} => loc.image # meta.current
    /\ pc \in BoxPcs => /\ Exists(meta.current) /\ boxes[loc.box].image = meta.current
                        /\ loc.image = meta.current
    /\ pc = "docker run" => boxes[loc.box].fs = images[meta.current]
    /\ pc \in {"docker commit", "docker record"} =>
          /\ loc.wrote \subseteq OutputsOf(Runs)
          /\ boxes[loc.box].fs = [f \in IoFiles |-> IF f \in loc.wrote THEN "generated"
                                                                      ELSE images[meta.current][f]]
    /\ pc = "docker record" => images[dct.current] = boxes[loc.box].fs
    /\ pc \in {"docker record", "docker upload rmi", "docker upload record"} =>
          /\ Exists(dct.current) /\ dct.current # meta.current /\ loc.image = meta.current
    /\ pc \in {"docker upload rmi", "docker upload record"} /\ Exists(meta.current) =>
          \A f \in IoFiles : images[dct.current][f] \in Uploads \cup {images[meta.current][f]}
    /\ pc = "docker upload rmi" => Exists(meta.current)
    /\ pc = "docker upload record" /\ Exists(meta.current) => meta.current = meta.initial \/ meta.current \in kept

\* The images a command accounts for, besides the initial one and those kept.
Given(i) ==
    \/ i = meta.current /\ pc \notin {"docker built", "docker upload record", "docker reset"}
    \/ i = loc.image    /\ pc \in {"docker built", "docker rm", "docker rmi"}
    \/ i = dct.current  /\ pc \in {"docker record", "docker upload rmi", "docker upload record"}

CurrentKept ==
    /\ meta.unpacker = "docker" /\ meta.current # 0 /\ ~destroyed /\ ~crashed
    /\ pc \notin {"docker reset", "docker upload record"}
    => Exists(meta.current)

ImagesKept ==
    meta.unpacker = "docker" /\ ~crashed =>
       \A i \in ImageIds : Exists(i) => i = meta.initial \/ i \in kept \/ Given(i)

NoImageYet ==
    (~left /\ meta.unpacker # "docker") \/ pc = "docker build" => \A i \in ImageIds : ~Exists(i)

KeepInv == CurrentKept /\ ImagesKept /\ NoImageYet

LEMMA ShelfInit == Init => ShelfInv /\ KeepInv
BY DEF Init, SharedInit, DockerInit, ShelfInv, KeepInv, CurrentKept, ImagesKept, NoImageYet, NoMeta,
       DockerPcs, BoxPcs, Exists

\* A new image has a name of its own, and leaves the others as they are.
LEMMA NewImageShelf ==
  ASSUME IoFiles # {}, NEW world \in World, NewImage(world), images = [i \in ImageIds |-> images[i]]
  PROVE  /\ images' = [i \in ImageIds |-> images'[i]]
         /\ Least(FreshImages) \in ImageIds /\ images'[Least(FreshImages)] = world
         /\ world # NoImage
         /\ Least(FreshImages) # loc.image
         /\ meta # NoMeta => Least(FreshImages) # meta.initial /\ Least(FreshImages) # meta.current
         /\ \A i \in ImageIds : i # Least(FreshImages) => images'[i] = images[i]
         /\ images[Least(FreshImages)] = NoImage
<1>1. Least(FreshImages) \in FreshImages
  <2>1. FreshImages \subseteq Nat /\ FreshImages # {}
    BY DockerAssumption DEF FreshImages, NewImage, ImageIds
  <2> QED
    BY <2>1, LeastIsMember
<1>2. /\ Least(FreshImages) \in ImageIds /\ images[Least(FreshImages)] = NoImage
      /\ Least(FreshImages) # loc.image
      /\ meta # NoMeta => Least(FreshImages) # meta.initial /\ Least(FreshImages) # meta.current
  BY <1>1 DEF FreshImages, Exists
<1>3. world # NoImage
  BY DEF World, NoImage
<1>4. images' = [images EXCEPT ![Least(FreshImages)] = world]
  BY DEF NewImage
<1> HIDE DEF Least
<1>5. \A i \in ImageIds : i # Least(FreshImages) => images'[i] = images[i]
  BY <1>2, <1>4
<1> QED
  BY <1>2, <1>3, <1>4, <1>5

\* The daemon removes that image, or keeps it; no other one changes.
LEMMA RmiShelf ==
  ASSUME NEW i, Rmi(i) \/ RmiFails(i), images = [j \in ImageIds |-> images[j]]
  PROVE  /\ \A j \in ImageIds : j # i => images'[j] = images[j] /\ (j \in kept => j \in kept')
         /\ \A j \in ImageIds : images'[j] # NoImage => images'[j] = images[j]
         /\ i \in ImageIds /\ images'[i] # NoImage => i \in kept'
<1>1. CASE Rmi(i)
  BY <1>1 DEF Rmi, Exists
<1>2. CASE RmiFails(i)
  BY <1>2 DEF RmiFails, Exists
<1> QED
  BY <1>1, <1>2

LEMMA ShelfDocker ==
  ASSUME IoFiles # {}, DictInv, LocInv, ImageInv, Owners, HomeInv, ShelfInv, KeepInv,
         DockerNext, ImageInv'
  PROVE  ShelfInv' /\ KeepInv'
<1> USE DEF DockerPcs, BoxPcs, OtherPcs
<1>0. /\ SharedTypes /\ DockerTypeOK /\ BoxHeld /\ images = [i \in ImageIds |-> images[i]]
      /\ NoMeta.unpacker = "none" /\ 0 \notin ImageIds
      /\ CurrentKept /\ ImagesKept /\ NoImageYet
  BY DEF HomeInv, TypesInv, DockerTypeOK, NoMeta, ImageIds, KeepInv
<1>1. ASSUME UNCHANGED <<images, kept, meta, destroyed, crashed, left>>,
             pc' \notin DockerPcs \cup {"docker build"},
             pc \notin {"docker built", "docker rm", "docker rmi", "docker record", "docker reset",
                        "docker upload rmi", "docker upload record"}
      PROVE  ShelfInv' /\ KeepInv'
  <2>1. ShelfInv'
    BY <1>1 DEF ShelfInv
  <2>2. CurrentKept'
    BY <1>0, <1>1 DEF CurrentKept, Exists, ImageIds, NoImage
  <2>3. ImagesKept'
    BY <1>0, <1>1 DEF ImagesKept, Given, Exists, ImageIds, NoImage
  <2>4. NoImageYet'
    BY <1>0, <1>1 DEF NoImageYet, Exists, ImageIds, NoImage
  <2> QED
    BY <2>1, <2>2, <2>3, <2>4 DEF KeepInv
<1>2. CASE DockerCreate
  <2>1. /\ meta = NoMeta /\ ~left /\ pc = "idle" /\ UNCHANGED <<images, boxes, destroyed, kept>>
        /\ \A i \in ImageIds : images[i] = NoImage
    BY <1>0, <1>2 DEF DockerCreate, CanSetUp, Idle, DictInv, NoImageYet, Exists
  <2>2. CASE LeftBehind /\ Continue("idle")
    BY <1>1, <2>1, <2>2 DEF LeftBehind, Continue
  <2>3. CASE Unpacked(NewMeta("docker"), DataTgz) /\ pc' \in {"idle", "docker build"}
    <3>1. meta'.unpacker = "docker" /\ meta'.initial = 0 /\ meta'.current = 0
      BY <2>3 DEF Unpacked, NewMeta
    <3>2. ShelfInv'
      BY <2>3, <3>1 DEF ShelfInv
    <3>3. CurrentKept' /\ ImagesKept' /\ NoImageYet'
      BY <2>1, <3>1 DEF CurrentKept, ImagesKept, NoImageYet, Exists, ImageIds, NoImage
    <3> QED
      BY <3>2, <3>3 DEF KeepInv
  <2> QED
    BY <1>2, <2>1, <2>2, <2>3 DEF DockerCreate, Call, Continue
<1>3. CASE DockerBuild
  <2>1. /\ pc \in {"idle", "docker build"} /\ meta.unpacker = "docker" /\ meta.initial = 0
        /\ meta.current = 0 /\ UNCHANGED <<boxes, destroyed, kept>>
    BY <1>3 DEF DockerBuild, Reads, Idle, DictInv, ImageInv, ShelfInv
  <2>2. \A i \in ImageIds : images[i] # NoImage => crashed \/ i \in kept
    BY <1>0, <2>1 DEF ImagesKept, Given, Exists
  <2>3. CASE NewImage(dockerfile) /\ Call("docker built", meta, [loc EXCEPT !.image = Least(FreshImages)])
             /\ KeepDir /\ UNCHANGED <<meta, stale, crashed>>
    <3>1. PICK n : n = Least(FreshImages)
      OBVIOUS
    <3>2. n \in ImageIds /\ \A i \in ImageIds : i # n => images'[i] = images[i]
      BY <1>0, <2>3, <3>1, NewImageShelf DEF DockerTypeOK
    <3>3. loc'.image = n /\ dct' = meta' /\ meta' = meta /\ pc' = "docker built" /\ UNCHANGED <<left, crashed>>
      BY <1>0, <2>3, <3>1 DEF Call, KeepDir, SharedTypes, Locals
    <3>4. ShelfInv'
      BY <2>1, <3>3 DEF ShelfInv
    <3>5. CurrentKept' /\ NoImageYet'
      BY <2>1, <3>3 DEF CurrentKept, NoImageYet
    <3>6. ImagesKept'
      BY <2>1, <2>2, <3>2, <3>3 DEF ImagesKept, Given, Exists, ImageIds, NoImage
    <3> QED
      BY <3>4, <3>5, <3>6 DEF KeepInv
  <2>4. CASE RmTree(FALSE) /\ loc.then = "build" /\ Return /\ UNCHANGED images
    <3>0. NoLoc.then = "none"
      BY DEF NoLoc
    <3>1. pc = "docker build"
      BY <2>1, <2>4, <3>0 DEF LocInv
    <3>2. \A i \in ImageIds : images[i] = NoImage
      BY <1>0, <3>1 DEF NoImageYet, Exists
    <3>3. meta' = NoMeta /\ pc' = "idle" /\ UNCHANGED images
      BY <2>4 DEF RmTree, Return, Call
    <3>4. ShelfInv'
      BY <1>0, <3>3 DEF ShelfInv
    <3>5. CurrentKept' /\ ImagesKept' /\ NoImageYet'
      BY <1>0, <3>2, <3>3 DEF CurrentKept, ImagesKept, NoImageYet, Exists, ImageIds, NoImage
    <3> QED
      BY <3>4, <3>5 DEF KeepInv
  <2>5. CASE KeepDir /\ UNCHANGED <<meta, stale, crashed, dockerfile, images>> /\ Return
    BY <1>1, <2>1, <2>5 DEF KeepDir, Return, Call
  <2> QED
    BY <1>3, <2>3, <2>4, <2>5 DEF DockerBuild
<1>4. CASE DockerReset
  <2>1. /\ pc = "idle" /\ meta.unpacker = "docker" /\ meta.initial # 0
        /\ Rmi(meta.current) \/ RmiFails(meta.current)
        /\ dct' = [meta EXCEPT !.current = meta.initial] /\ pc' = "docker reset"
        /\ UNCHANGED <<meta, crashed, destroyed, left>>
    BY <1>4 DEF DockerReset, Reads, Idle, Call, KeepDir
  <2>2. dct'.current = meta.initial
    BY <1>0, <2>1, DictTyped DEF Meta
  <2>3. \A i \in ImageIds : images'[i] # NoImage =>
            /\ images'[i] = images[i] /\ (i # meta.current /\ i \in kept => i \in kept')
            /\ (i = meta.current => i \in kept')
    BY <1>0, <2>1, RmiShelf
  <2>4. ShelfInv'
    BY <2>1, <2>2 DEF ShelfInv
  <2>5. CurrentKept' /\ NoImageYet'
    BY <2>1 DEF CurrentKept, NoImageYet
  <2>6. ImagesKept'
    BY <1>0, <2>1, <2>3 DEF ImagesKept, Given, Exists, ImageIds, NoImage
  <2> QED
    BY <2>4, <2>5, <2>6 DEF KeepInv
<1>5. CASE DockerRun
  <2>1. PICK arg \in RunArgs :
          Call("docker run", meta, [NoLoc EXCEPT !.runs = GetRuns(arg), !.box = Least(FreshBoxes),
                                                 !.image = meta.current])
    BY <1>5 DEF DockerRun
  <2>2. /\ pc = "idle" /\ meta.unpacker = "docker" /\ meta.current # 0 /\ NewBox(meta.current, "run")
        /\ UNCHANGED <<meta, crashed, images, destroyed, kept, left>>
    BY <1>5 DEF DockerRun, Reads, Idle, KeepDir
  <2>3. PICK b : b = Least(FreshBoxes)
    OBVIOUS
  <2>4. boxes'[b] = [image |-> meta.current, for |-> "run", fs |-> images[meta.current]]
    BY <1>0, <2>2, <2>3, NewBoxTyped
  <2>5. dct' = meta /\ loc'.image = meta.current /\ loc'.box = b /\ pc' = "docker run"
    BY <2>1, <2>3 DEF Call, NoLoc
  <2>6. Exists(meta.current)
    BY <2>2 DEF NewBox
  <2>7. ShelfInv'
    <3>1. boxes'[loc'.box].image = meta'.current /\ boxes'[loc'.box].fs = images'[meta'.current]
      <4>1. boxes'[b].image = meta.current /\ boxes'[b].fs = images[meta.current]
        BY <2>4
      <4> QED
        BY <2>2, <2>5, <4>1
    <3>2. Exists(meta.current)' /\ loc'.image = meta'.current /\ dct' = meta'
      BY <2>2, <2>5, <2>6 DEF Exists, ImageIds, NoImage
    <3>3. meta'.initial # 0
      BY <2>2 DEF ShelfInv
    <3> QED
      BY <2>5, <3>1, <3>2, <3>3 DEF ShelfInv
  <2>8. CurrentKept' /\ NoImageYet'
    BY <2>2, <2>5, <2>6 DEF CurrentKept, NoImageYet, Exists, ImageIds, NoImage
  <2>9. ImagesKept'
    BY <1>0, <2>2, <2>5 DEF ImagesKept, Given, Exists, ImageIds, NoImage
  <2> QED
    BY <2>7, <2>8, <2>9 DEF KeepInv
<1>6. CASE DockerRunDetached \/ UserRemovesBox
  BY <1>1, <1>6 DEF DockerRunDetached, UserRemovesBox, sharedVars, Reads, Idle
<1>7. CASE DockerUpload
  <2>1. PICK specs \in UploadArgs :
          Call("docker upload", meta, [NoLoc EXCEPT !.specs = specs, !.image = meta.current])
    BY <1>7 DEF DockerUpload
  <2>2. /\ pc = "idle" /\ meta.unpacker = "docker" /\ meta.current # 0
        /\ UNCHANGED <<meta, crashed, images, destroyed, kept, left>>
    BY <1>7 DEF DockerUpload, Reads, Idle, KeepDir, dockerVars
  <2>3. dct' = meta /\ loc'.image = meta.current /\ pc' = "docker upload"
    BY <2>1 DEF Call, NoLoc
  <2>4. ShelfInv'
    BY <2>2, <2>3 DEF ShelfInv
  <2>5. CurrentKept' /\ ImagesKept' /\ NoImageYet'
    BY <1>0, <2>2, <2>3 DEF CurrentKept, ImagesKept, Given, NoImageYet, Exists, ImageIds, NoImage
  <2> QED
    BY <2>4, <2>5 DEF KeepInv
<1>8. CASE DockerDownload
  BY <1>1, <1>8 DEF DockerDownload, Reads, Idle, Call, KeepDir
<1>9. CASE DockerDestroy
  <2>1. /\ pc = "idle" /\ meta.unpacker = "docker" /\ pc' = "docker destroy" /\ destroyed' = TRUE
        /\ \/ Rmi(meta.current) \/ RmiFails(meta.current)
           \/ meta.current = meta.initial /\ UNCHANGED <<images, kept>>
        /\ UNCHANGED <<meta, crashed, left>>
    BY <1>9 DEF DockerDestroy, Reads, Idle, Call, KeepDir
  <2>2. \A i \in ImageIds : images'[i] # NoImage =>
            /\ images'[i] = images[i] /\ (i # meta.current /\ i \in kept => i \in kept')
            /\ (i = meta.current => i \in kept' \/ meta.current = meta.initial)
    BY <1>0, <2>1, RmiShelf
  <2>3. ShelfInv'
    BY <2>1 DEF ShelfInv
  <2>4. CurrentKept' /\ NoImageYet'
    BY <2>1 DEF CurrentKept, NoImageYet
  <2>5. ImagesKept'
    BY <1>0, <2>1, <2>2 DEF ImagesKept, Given, Exists, ImageIds, NoImage
  <2> QED
    BY <2>3, <2>4, <2>5 DEF KeepInv
<1>10. CASE DockerDestroyDir
  <2>1. /\ meta' = NoMeta /\ pc' = "idle" /\ UNCHANGED images
        /\ ~left' => \A i \in ImageIds : images[i] = NoImage
    BY <1>10 DEF DockerDestroyDir, RmTree, Return, Call, Exists
  <2>2. ShelfInv'
    BY <1>0, <2>1 DEF ShelfInv
  <2>3. CurrentKept' /\ ImagesKept' /\ NoImageYet'
    BY <1>0, <2>1 DEF CurrentKept, ImagesKept, NoImageYet, Exists, ImageIds, NoImage
  <2> QED
    BY <2>2, <2>3 DEF KeepInv
<1>11. CASE Crash({"docker"}) /\ UNCHANGED dockerVars
  <2>1. meta.unpacker = "docker" /\ meta' = meta /\ pc' = "idle" /\ crashed' = TRUE
    BY <1>11 DEF Crash, Return, Call
  <2>2. ShelfInv'
    BY <2>1 DEF ShelfInv
  <2>3. CurrentKept' /\ ImagesKept' /\ NoImageYet'
    BY <2>1 DEF CurrentKept, ImagesKept, NoImageYet
  <2> QED
    BY <2>2, <2>3 DEF KeepInv
<1>12. CASE DockerStep
  <2>0. /\ pc \in DockerPcs => dct \in Meta /\ meta \in Meta /\ meta.unpacker = "docker" /\ dct.unpacker = "docker"
        /\ pc \in DockerPcs /\ pc # "docker built" => dct.initial = meta.initial /\ meta.initial # 0
    BY <1>0, DictTyped DEF DictInv, ImageInv, ShelfInv
  <2>1. CASE DockerBuilt
    <3>1. /\ pc = "docker built" /\ meta' = [dct EXCEPT !.initial = loc.image, !.current = loc.image] /\ pc' = "idle"
          /\ UNCHANGED <<images, destroyed, kept, crashed, left>>
      BY <2>1 DEF DockerBuilt, Writes, Return, Call, KeepDir, dockerVars
    <3>2. meta'.unpacker = "docker" /\ meta'.initial = loc.image /\ meta'.current = loc.image
      BY <2>0, <3>1 DEF Meta
    <3>3. Exists(loc.image) /\ meta.initial = 0
      BY <3>1 DEF ImageInv
    <3>4. ShelfInv'
      BY <1>0, <3>1, <3>2, <3>3 DEF ShelfInv, Exists
    <3>5. CurrentKept' /\ NoImageYet'
      BY <3>1, <3>2, <3>3 DEF CurrentKept, NoImageYet, Exists, ImageIds, NoImage
    <3>6. ImagesKept'
      BY <1>0, <2>0, <3>1, <3>2, <3>3 DEF ImagesKept, Given, Exists, ImageIds, NoImage
    <3> QED
      BY <3>4, <3>5, <3>6 DEF KeepInv
  <2>2. CASE DockerResetDone
    <3>1. /\ pc = "docker reset" /\ meta' = dct /\ pc' = "idle"
          /\ UNCHANGED <<images, destroyed, kept, crashed, left>>
      BY <2>2 DEF DockerResetDone, Writes, Return, Call, KeepDir, dockerVars
    <3>2. dct.current = meta.initial /\ dct.initial = meta.initial /\ meta.initial # 0 /\ dct.unpacker = "docker"
      BY <2>0, <3>1 DEF ShelfInv
    <3>3. ~destroyed => Exists(meta.initial)
      BY <1>0, <2>0, <3>1, <3>2 DEF ImageInv, InitialImageKept
    <3>4. ShelfInv'
      BY <3>1, <3>2 DEF ShelfInv
    <3>5. CurrentKept' /\ NoImageYet'
      BY <3>1, <3>2, <3>3 DEF CurrentKept, NoImageYet, Exists, ImageIds, NoImage
    <3>6. ImagesKept'
      BY <1>0, <2>0, <3>1, <3>2 DEF ImagesKept, Given, Exists, ImageIds, NoImage
    <3> QED
      BY <3>4, <3>5, <3>6 DEF KeepInv
  <2>3. CASE DockerRunFails \/ DockerDownloadDone
    BY <1>1, <2>3 DEF DockerRunFails, DockerDownloadDone, Return, Call, KeepDir
  <2>4. CASE DockerRunExits
    <3>1. PICK wrote \in SUBSET OutputsOf(loc.runs) :
            /\ boxes' = [boxes EXCEPT ![loc.box].fs =
                            [f \in IoFiles |-> IF f \in wrote THEN "generated" ELSE @[f]]]
            /\ Call("docker commit", dct, [loc EXCEPT !.wrote = wrote])
      BY <2>4 DEF DockerRunExits
    <3>2. /\ pc = "docker run" /\ UNCHANGED <<meta, crashed, images, destroyed, kept, left>>
      BY <2>4 DEF DockerRunExits, KeepDir
    <3>3. /\ pc' = "docker commit" /\ dct' = dct /\ loc'.wrote = wrote /\ loc'.box = loc.box
          /\ loc'.image = loc.image
      BY <1>0, <3>1 DEF Call, SharedTypes, Locals
    <3>4. wrote \subseteq OutputsOf(Runs)
      BY <1>0, <3>1, OutputsGrow DEF SharedTypes, Locals
    <3>5. /\ dct = meta /\ Exists(meta.current) /\ boxes[loc.box].image = meta.current
          /\ loc.image = meta.current /\ boxes[loc.box].fs = images[meta.current]
      BY <3>2 DEF ShelfInv
    <3>6. loc.box \in BoxIds /\ boxes[loc.box] \in Box
      BY <1>0, <3>2 DEF BoxHeld
    <3>7. PICK new : /\ new = [f \in IoFiles |-> IF f \in wrote THEN "generated" ELSE boxes[loc.box].fs[f]]
                     /\ boxes' = [boxes EXCEPT ![loc.box] = [boxes[loc.box] EXCEPT !.fs = new]]
      BY <1>0, <3>1, <3>6 DEF DockerTypeOK
    <3>8. boxes'[loc.box] = [boxes[loc.box] EXCEPT !.fs = new]
      BY <1>0, <3>6, <3>7 DEF DockerTypeOK
    <3>9. boxes'[loc.box].fs = new /\ boxes'[loc.box].image = meta.current
      BY <3>5, <3>6, <3>8 DEF Box
    <3>10. new = [f \in IoFiles |-> IF f \in wrote THEN "generated" ELSE images[meta.current][f]]
      BY <3>5, <3>7
    <3>11. ShelfInv'
      <4>1. boxes'[loc'.box].fs = [f \in IoFiles |-> IF f \in loc'.wrote THEN "generated"
                                                                        ELSE images'[meta'.current][f]]
        BY <3>2, <3>3, <3>9, <3>10
      <4>2. /\ boxes'[loc'.box].image = meta'.current /\ loc'.image = meta'.current /\ dct' = meta'
            /\ loc'.wrote \subseteq OutputsOf(Runs)
        BY <3>2, <3>3, <3>4, <3>5, <3>9
      <4>3. Exists(meta.current)'
        BY <3>2, <3>5 DEF Exists, ImageIds, NoImage
      <4>4. meta'.initial # 0
        BY <2>0, <3>2
      <4> QED
        BY <3>3, <4>1, <4>2, <4>3, <4>4 DEF ShelfInv, OutputsOf, Runs
    <3>12. CurrentKept' /\ ImagesKept' /\ NoImageYet'
      BY <1>0, <3>2, <3>3, <3>5 DEF CurrentKept, ImagesKept, Given, NoImageYet, Exists, ImageIds, NoImage
    <3> QED
      BY <3>11, <3>12 DEF KeepInv
  <2>5. CASE DockerCommit
    <3>1. /\ pc = "docker commit" /\ UNCHANGED <<meta, crashed, boxes, destroyed, kept, left>>
      BY <2>5 DEF DockerCommit, KeepDir
    <3>2. CASE Return /\ UNCHANGED images
      BY <1>1, <3>1, <3>2 DEF Return, Call
    <3>3. CASE /\ NewImage(boxes[loc.box].fs)
               /\ Call("docker record", [dct EXCEPT !.current = Least(FreshImages)], loc)
      <4>1. PICK n : n = Least(FreshImages)
        OBVIOUS
      <4>2. boxes[loc.box].fs \in World /\ meta # NoMeta
        BY <1>0, <2>0, <3>1 DEF BoxHeld, Box
      <4>3. /\ n \in ImageIds /\ images'[n] = boxes[loc.box].fs /\ boxes[loc.box].fs # NoImage
            /\ n # meta.current /\ images[n] = NoImage
            /\ \A i \in ImageIds : i # n => images'[i] = images[i]
        BY <1>0, <3>3, <4>1, <4>2, NewImageShelf
      <4>4. pc' = "docker record" /\ loc' = loc /\ dct'.current = n
        BY <2>0, <3>1, <3>3, <4>1 DEF Call, Meta
      <4>5. /\ meta.current \in ImageIds /\ images[meta.current] # NoImage
            /\ boxes[loc.box].image = meta.current /\ loc.image = meta.current
            /\ loc.wrote \subseteq OutputsOf(Runs)
            /\ boxes[loc.box].fs = [f \in IoFiles |-> IF f \in loc.wrote THEN "generated"
                                                                        ELSE images[meta.current][f]]
        BY <3>1 DEF ShelfInv, Exists
      <4>6. images'[meta.current] = images[meta.current]
        BY <4>3, <4>5
      <4>7. Exists(meta.current)' /\ Exists(dct.current)'
        BY <3>1, <4>3, <4>4, <4>5, <4>6 DEF Exists, ImageIds, NoImage
      <4>8. ShelfInv'
        <5>1. boxes'[loc'.box].fs = [f \in IoFiles |-> IF f \in loc'.wrote THEN "generated"
                                                                          ELSE images'[meta'.current][f]]
          BY <3>1, <4>4, <4>5, <4>6
        <5>2. /\ boxes'[loc'.box].image = meta'.current /\ loc'.image = meta'.current
              /\ loc'.wrote \subseteq OutputsOf(Runs) /\ images'[dct'.current] = boxes'[loc'.box].fs
              /\ dct'.current # meta'.current /\ meta'.initial # 0
          BY <2>0, <3>1, <4>3, <4>4, <4>5
        <5> QED
          BY <4>4, <4>7, <5>1, <5>2 DEF ShelfInv, OutputsOf, Runs
      <4>9. CurrentKept' /\ NoImageYet'
        BY <2>0, <3>1, <4>4, <4>7 DEF CurrentKept, NoImageYet
      <4>10. ImagesKept'
        BY <1>0, <2>0, <3>1, <4>3, <4>4 DEF ImagesKept, Given, Exists, ImageIds, NoImage
      <4> QED
        BY <4>8, <4>9, <4>10 DEF KeepInv
    <3> QED
      BY <2>5, <3>2, <3>3 DEF DockerCommit
  <2>6. CASE DockerRecord
    <3>1. /\ pc = "docker record" /\ pc' = "docker rm" /\ meta' = dct
          /\ UNCHANGED <<dct, loc, crashed, images, boxes, destroyed, kept, left>>
      BY <2>6 DEF DockerRecord, Writes, Continue, KeepDir, dockerVars
    <3>2. Exists(dct.current) /\ dct.current # meta.current /\ loc.image = meta.current
      BY <3>1 DEF ShelfInv
    <3>3. dct.unpacker = "docker" /\ dct.initial = meta.initial /\ meta.initial # 0
      BY <2>0, <3>1
    <3>4. ShelfInv'
      BY <3>1, <3>2, <3>3 DEF ShelfInv
    <3>5. CurrentKept' /\ NoImageYet'
      BY <3>1, <3>2, <3>3 DEF CurrentKept, NoImageYet, Exists, ImageIds, NoImage
    <3>6. ImagesKept'
      BY <1>0, <2>0, <3>1, <3>2, <3>3 DEF ImagesKept, Given, Exists, ImageIds, NoImage
    <3> QED
      BY <3>4, <3>5, <3>6 DEF KeepInv
  <2>7. CASE DockerRm
    <3>1. /\ pc = "docker rm" /\ UNCHANGED <<meta, dct, loc, crashed, images, destroyed, kept, left>>
          /\ pc' \in {"docker rmi", "docker status"} /\ (pc' = "docker status" => loc.image = dct.initial)
      BY <2>7 DEF DockerRm, Continue, KeepDir
    <3>2. dct = meta /\ loc.image # meta.current /\ meta.initial # 0
      BY <2>0, <3>1 DEF ShelfInv
    <3>3. ShelfInv'
      BY <2>0, <3>1, <3>2 DEF ShelfInv
    <3>4. CurrentKept' /\ NoImageYet'
      BY <1>0, <2>0, <3>1 DEF CurrentKept, NoImageYet, Exists, ImageIds, NoImage
    <3>5. ImagesKept'
      BY <1>0, <3>1, <3>2 DEF ImagesKept, Given, Exists, ImageIds, NoImage
    <3> QED
      BY <3>3, <3>4, <3>5 DEF KeepInv
  <2>8. CASE DockerUntag
    <3>1. /\ pc = "docker rmi" /\ (Rmi(loc.image) \/ RmiFails(loc.image))
          /\ (pc' = "docker status" /\ dct' = dct) \/ pc' = "idle"
          /\ UNCHANGED <<meta, crashed, destroyed, left>>
      BY <2>8 DEF DockerUntag, Continue, Return, Call, KeepDir
    <3>2. dct = meta /\ loc.image # meta.current /\ meta.initial # 0 /\ meta.unpacker = "docker"
      BY <2>0, <3>1 DEF ShelfInv
    <3>3. /\ \A i \in ImageIds : i # loc.image => images'[i] = images[i] /\ (i \in kept => i \in kept')
          /\ \A i \in ImageIds : images'[i] # NoImage => images'[i] = images[i]
          /\ loc.image \in ImageIds /\ images'[loc.image] # NoImage => loc.image \in kept'
      BY <1>0, <3>1, RmiShelf
    <3>4. ShelfInv'
      BY <3>1, <3>2 DEF ShelfInv
    <3>5. CurrentKept' /\ NoImageYet'
      BY <1>0, <3>1, <3>2, <3>3 DEF CurrentKept, NoImageYet, Exists, ImageIds, NoImage
    <3>6. ImagesKept'
      <4>1. ASSUME ~crashed, NEW i \in ImageIds, images'[i] # NoImage
            PROVE  i = meta.initial \/ i \in kept' \/ i = meta.current
        BY <1>0, <3>1, <3>2, <3>3, <4>1 DEF ImagesKept, Given, Exists
      <4> QED
        BY <3>1, <4>1 DEF ImagesKept, Given, Exists, ImageIds, NoImage
    <3> QED
      BY <3>4, <3>5, <3>6 DEF KeepInv
  <2>9. CASE DockerRunDone
    <3>1. PICK files : /\ meta' = [dct EXCEPT !.input_files = files] /\ pc = "docker status" /\ pc' = "idle"
                       /\ UNCHANGED <<images, destroyed, kept, crashed, left>>
      BY <2>9 DEF DockerRunDone, Writes, Return, Call, KeepDir, dockerVars
    <3>2. dct = meta /\ meta \in Meta /\ meta.unpacker = "docker" /\ meta.initial # 0
      BY <2>0, <3>1 DEF ShelfInv
    <3>3. meta'.unpacker = "docker" /\ meta'.initial = meta.initial /\ meta'.current = meta.current
      BY <3>1, <3>2 DEF Meta
    <3>4. ShelfInv'
      BY <3>1, <3>2, <3>3 DEF ShelfInv
    <3>5. CurrentKept' /\ NoImageYet'
      BY <1>0, <3>1, <3>2, <3>3 DEF CurrentKept, NoImageYet, Exists, ImageIds, NoImage
    <3>6. ImagesKept'
      BY <1>0, <3>1, <3>2, <3>3 DEF ImagesKept, Given, Exists, ImageIds, NoImage
    <3> QED
      BY <3>4, <3>5, <3>6 DEF KeepInv
  <2>10. CASE DockerUploadFile
    <3>1. /\ pc = "docker upload" /\ pc' = "docker upload"
          /\ UNCHANGED <<meta, images, destroyed, kept, crashed, left>>
      BY <2>10 DEF DockerUploadFile, Call, KeepDir, dockerVars
    <3>2. dct \in Meta /\ dct.current = meta.current /\ loc.image = meta.current /\ meta.initial # 0
          /\ loc \in Locals
      BY <1>0, <2>0, <3>1 DEF ShelfInv, SharedTypes
    <3>3. /\ dct' = dct \/ \E files : dct' = [dct EXCEPT !.input_files = files]
          /\ \/ \E specs : loc' = [loc EXCEPT !.specs = specs]
             \/ \E specs, p, t : loc' = [loc EXCEPT !.specs = specs, !.staged = p, !.told = t]
      <4>1. PICK s : s = Head(loc.specs)
        OBVIOUS
      <4>2. CASE /\ dct' = [dct EXCEPT !.input_files = StatusAfter(@, s)]
                 /\ loc' = [loc EXCEPT !.specs = Tail(@), !.staged = Overlay(s.name, Uploaded(s), @),
                                       !.told = StaleAfter(@, s)]
        BY <4>2
      <4>3. CASE dct' = dct /\ \E specs \in {Tail(loc.specs), <<>>} : loc' = [loc EXCEPT !.specs = specs]
        BY <4>3
      <4> QED
        BY <2>10, <4>1, <4>2, <4>3 DEF DockerUploadFile, Call
    <3>4. dct'.current = meta.current
      BY <3>2, <3>3 DEF Meta
    <3>5. loc'.image = meta.current
      BY <3>2, <3>3 DEF Locals
    <3>6. ShelfInv'
      BY <3>1, <3>2, <3>4, <3>5, <2>0 DEF ShelfInv
    <3>7. CurrentKept' /\ ImagesKept' /\ NoImageYet'
      BY <1>0, <3>1 DEF CurrentKept, ImagesKept, Given, NoImageYet, Exists, ImageIds, NoImage
    <3> QED
      BY <3>6, <3>7 DEF KeepInv
  <2>11. CASE DockerUploadBuild
    <3>1. pc = "docker upload" /\ UNCHANGED <<boxes, destroyed, kept, crashed, left>>
      BY <2>11 DEF DockerUploadBuild, KeepDir
    <3>2. /\ dct \in Meta /\ dct.current = meta.current /\ loc.image = meta.current /\ meta.initial # 0
          /\ dct.initial = meta.initial /\ dct.unpacker = "docker" /\ meta.unpacker = "docker" /\ meta # NoMeta
      BY <1>0, <2>0, <3>1 DEF ShelfInv
    <3>3. CASE meta' = dct /\ pc' = "idle" /\ UNCHANGED images
      <4>1. ShelfInv'
        BY <3>2, <3>3 DEF ShelfInv
      <4>2. CurrentKept' /\ NoImageYet'
        BY <1>0, <3>1, <3>2, <3>3 DEF CurrentKept, NoImageYet, Exists, ImageIds, NoImage
      <4>3. ImagesKept'
        BY <1>0, <3>1, <3>2, <3>3 DEF ImagesKept, Given, Exists, ImageIds, NoImage
      <4> QED
        BY <4>1, <4>2, <4>3 DEF KeepInv
    <3>4. CASE /\ Exists(loc.image)
               /\ NewImage([f \in IoFiles |-> IF f \in DOMAIN loc.staged THEN loc.staged[f]
                                                                       ELSE images[loc.image][f]])
               /\ dct' = [dct EXCEPT !.current = Least(FreshImages)] /\ loc' = loc /\ UNCHANGED meta
               /\ pc' = IF loc.image # dct.initial THEN "docker upload rmi" ELSE "docker upload record"
      <4>1. PICK n, new : /\ n = Least(FreshImages)
                          /\ new = [f \in IoFiles |-> IF f \in DOMAIN loc.staged THEN loc.staged[f]
                                                                                 ELSE images[loc.image][f]]
        OBVIOUS
      <4>2. images[loc.image] \in World
        BY <1>0, <3>4 DEF Exists, DockerTypeOK
      <4>3. \A f \in DOMAIN loc.staged : loc.staged[f] \in Uploads
        BY <1>0, PatchTyped DEF Locals, SharedTypes
      <4>4. new \in World
        BY <4>1, <4>2, <4>3 DEF World, Uploads, Contents
      <4>5. /\ n \in ImageIds /\ images'[n] = new /\ new # NoImage /\ n # meta.current
            /\ \A i \in ImageIds : i # n => images'[i] = images[i]
        BY <1>0, <3>2, <3>4, <4>1, <4>4, NewImageShelf
      <4>6. dct'.current = n
        BY <3>2, <3>4, <4>1 DEF Meta
      <4>7. meta.current \in ImageIds /\ images[meta.current] # NoImage /\ images'[meta.current] = images[meta.current]
        BY <3>2, <3>4, <4>5 DEF Exists
      <4>8. Exists(dct.current)' /\ Exists(meta.current)'
        BY <3>4, <4>5, <4>6, <4>7 DEF Exists, ImageIds, NoImage
      <4>9. /\ pc' \in {"docker upload rmi", "docker upload record"}
            /\ pc' = "docker upload record" => meta.current = meta.initial
        BY <3>2, <3>4
      <4>10. \A f \in IoFiles : images'[dct'.current][f] \in Uploads \cup {images'[meta'.current][f]}
        <5>1. \A f \in IoFiles : new[f] \in Uploads \cup {images[meta.current][f]}
          BY <3>2, <4>1, <4>3
        <5> QED
          BY <3>4, <4>5, <4>6, <4>7, <5>1
      <4>11. ShelfInv'
        BY <3>2, <3>4, <4>5, <4>6, <4>8, <4>9, <4>10 DEF ShelfInv, Uploads
      <4>12. CurrentKept' /\ NoImageYet'
        BY <3>2, <3>4, <4>8, <4>9 DEF CurrentKept, NoImageYet
      <4>13. ImagesKept'
        <5>1. ASSUME ~crashed, NEW i \in ImageIds, images'[i] # NoImage
              PROVE  i = meta.initial \/ i \in kept \/ i = meta.current \/ i = n
          BY <1>0, <3>1, <3>2, <4>5, <5>1 DEF ImagesKept, Given, Exists
        <5> QED
          BY <3>1, <3>4, <4>6, <4>9, <5>1 DEF ImagesKept, Given, Exists, ImageIds, NoImage
      <4> QED
        BY <4>11, <4>12, <4>13 DEF KeepInv
    <3> QED
      BY <2>11, <3>3, <3>4 DEF DockerUploadBuild, Call, Return, Writes
  <2>12. CASE DockerUploadUntag
    <3>1. /\ pc = "docker upload rmi" /\ (Rmi(loc.image) \/ RmiFails(loc.image)) /\ pc' = "docker upload record"
          /\ UNCHANGED <<meta, dct, loc, crashed, destroyed, left>>
      BY <2>12 DEF DockerUploadUntag, Continue, KeepDir
    <3>2. /\ Exists(dct.current) /\ dct.current # meta.current /\ loc.image = meta.current
          /\ Exists(meta.current) /\ meta.initial # 0 /\ meta.unpacker = "docker"
          /\ \A f \in IoFiles : images[dct.current][f] \in Uploads \cup {images[meta.current][f]}
      BY <2>0, <3>1 DEF ShelfInv
    <3>3. /\ \A i \in ImageIds : i # loc.image => images'[i] = images[i] /\ (i \in kept => i \in kept')
          /\ \A i \in ImageIds : images'[i] # NoImage => images'[i] = images[i]
          /\ loc.image \in ImageIds /\ images'[loc.image] # NoImage => loc.image \in kept'
      BY <1>0, <3>1, RmiShelf
    <3>4. Exists(dct.current)' /\ images'[dct.current] = images[dct.current]
      BY <3>1, <3>2, <3>3 DEF Exists, ImageIds, NoImage
    <3>5. Exists(meta.current)' => images'[meta.current] = images[meta.current] /\ meta.current \in kept'
      BY <3>1, <3>2, <3>3 DEF Exists, ImageIds, NoImage
    <3>6. ShelfInv'
      <4>1. Exists(meta.current)' =>
               \A f \in IoFiles : images'[dct'.current][f] \in Uploads \cup {images'[meta'.current][f]}
        BY <3>1, <3>2, <3>4, <3>5
      <4> QED
        BY <3>1, <3>2, <3>4, <3>5, <4>1 DEF ShelfInv, Uploads
    <3>7. CurrentKept' /\ NoImageYet'
      BY <3>1, <3>2 DEF CurrentKept, NoImageYet
    <3>8. ImagesKept'
      <4>1. ASSUME ~crashed, NEW i \in ImageIds, images'[i] # NoImage
            PROVE  i = meta.initial \/ i \in kept' \/ i = dct.current
        BY <1>0, <3>1, <3>2, <3>3, <4>1 DEF ImagesKept, Given, Exists
      <4> QED
        BY <3>1, <4>1 DEF ImagesKept, Given, Exists, ImageIds, NoImage
    <3> QED
      BY <3>6, <3>7, <3>8 DEF KeepInv
  <2>13. CASE DockerUploadDone
    <3>1. /\ pc = "docker upload record" /\ meta' = dct /\ pc' = "idle"
          /\ UNCHANGED <<images, destroyed, kept, crashed, left>>
      BY <2>13 DEF DockerUploadDone, Writes, Return, Call, KeepDir, dockerVars
    <3>2. /\ Exists(dct.current) /\ dct.unpacker = "docker" /\ dct.initial = meta.initial
          /\ meta.initial # 0 /\ meta.unpacker = "docker"
      BY <2>0, <3>1 DEF ShelfInv
    <3>3. ShelfInv'
      BY <3>1, <3>2 DEF ShelfInv
    <3>4. CurrentKept' /\ NoImageYet'
      BY <3>1, <3>2 DEF CurrentKept, NoImageYet, Exists, ImageIds, NoImage
    <3>5. ImagesKept'
      BY <1>0, <3>1, <3>2 DEF ImagesKept, Given, Exists, ImageIds, NoImage
    <3> QED
      BY <3>3, <3>4, <3>5 DEF KeepInv
  <2>14. CASE DockerDestroyInitial
    <3>1. /\ pc = "docker destroy" /\ (Rmi(loc.image) \/ RmiFails(loc.image))
          /\ pc' \in {"idle", "docker destroy dir"} /\ UNCHANGED <<meta, crashed, destroyed, left>>
      BY <2>14 DEF DockerDestroyInitial, Continue, Return, Call, KeepDir
    <3>2. destroyed /\ meta.unpacker = "docker"
      BY <3>1 DEF ImageInv, Owners
    <3>3. /\ \A i \in ImageIds : i # loc.image => images'[i] = images[i] /\ (i \in kept => i \in kept')
          /\ \A i \in ImageIds : images'[i] # NoImage => images'[i] = images[i]
          /\ loc.image \in ImageIds /\ images'[loc.image] # NoImage => loc.image \in kept'
      BY <1>0, <3>1, RmiShelf
    <3>4. ShelfInv'
      BY <3>1 DEF ShelfInv
    <3>5. CurrentKept' /\ NoImageYet'
      BY <3>1, <3>2 DEF CurrentKept, NoImageYet
    <3>6. ImagesKept'
      <4>1. ASSUME ~crashed, NEW i \in ImageIds, images'[i] # NoImage
            PROVE  i = meta.initial \/ i \in kept' \/ i = meta.current
        BY <1>0, <3>1, <3>2, <3>3, <4>1 DEF ImagesKept, Given, Exists
      <4> QED
        BY <3>1, <4>1 DEF ImagesKept, Given, Exists, ImageIds, NoImage
    <3> QED
      BY <3>4, <3>5, <3>6 DEF KeepInv
  <2> QED
    BY <1>12, <2>1, <2>2, <2>3, <2>4, <2>5, <2>6, <2>7, <2>8, <2>9, <2>10, <2>11, <2>12, <2>13, <2>14
       DEF DockerStep
<1> QED
  BY <1>2, <1>3, <1>4, <1>5, <1>6, <1>7, <1>8, <1>9, <1>10, <1>11, <1>12 DEF DockerNext
\* The other unpackers neither touch the images nor the dictionary of Docker.
LEMMA ShelfElsewhere ==
  ASSUME HomeInv, ShelfInv, KeepInv, UNCHANGED dockerVars,
         LocalMoves \/ VagrantMoves \/ UNCHANGED sharedVars
  PROVE  ShelfInv' /\ KeepInv'
<1>0. /\ UNCHANGED <<images, boxes, destroyed, kept>> /\ CurrentKept /\ ImagesKept /\ NoImageYet
      /\ NoMeta.unpacker = "none"
  BY DEF dockerVars, KeepInv, NoMeta
<1>1. CASE UNCHANGED sharedVars
  <2>1. UNCHANGED <<pc, dct, loc, meta, crashed, left>>
    BY <1>1 DEF sharedVars
  <2>2. ShelfInv'
    BY <1>0, <2>1 DEF ShelfInv, Exists, ImageIds, NoImage, OutputsOf, Runs, Uploads, DockerPcs, BoxPcs
  <2>3. CurrentKept'
    BY <1>0, <2>1 DEF CurrentKept, Exists, ImageIds, NoImage
  <2>4. ImagesKept' /\ NoImageYet'
    BY <1>0, <2>1 DEF ImagesKept, Given, NoImageYet, Exists, ImageIds, NoImage
  <2> QED
    BY <2>2, <2>3, <2>4 DEF KeepInv
<1>2. CASE Stopped
  <2>1. pc' = "idle" /\ crashed' = TRUE /\ UNCHANGED <<meta, left>>
    BY <1>2 DEF Stopped
  <2>2. ShelfInv'
    BY <1>0, <2>1 DEF ShelfInv, DockerPcs, BoxPcs
  <2>3. CurrentKept' /\ ImagesKept' /\ NoImageYet'
    BY <1>0, <2>1 DEF CurrentKept, ImagesKept, NoImageYet, Exists, ImageIds, NoImage
  <2> QED
    BY <2>2, <2>3 DEF KeepInv
<1>3. CASE \/ Moves({"directory", "chroot"}, LocalPcs \cup {"idle", "rmtree"})
           \/ Moves({"vagrant"}, VagrantPcs \cup {"idle", "vagrant rmtree"})
  <2>1. /\ meta.unpacker # "docker" /\ meta'.unpacker # "docker" /\ (left => left')
        /\ pc' \notin DockerPcs \cup {"docker build"}
    BY <1>0, <1>3 DEF Moves, DockerPcs, LocalPcs, MountPcs, UmountPcs, VagrantPcs
  <2>2. ShelfInv'
    BY <2>1 DEF ShelfInv, DockerPcs, BoxPcs
  <2>3. CurrentKept' /\ ImagesKept'
    BY <2>1 DEF CurrentKept, ImagesKept
  <2>4. NoImageYet'
    BY <1>0, <2>1 DEF NoImageYet, Exists, ImageIds, NoImage
  <2> QED
    BY <2>2, <2>3, <2>4 DEF KeepInv
<1> QED
  BY <1>1, <1>2, <1>3 DEF LocalMoves, VagrantMoves

\* The inductive invariant of the unpackers as a whole.
WholeInv ==
    /\ DictInv /\ LocInv /\ MountInv /\ ImageInv /\ Owners
    /\ HomeInv /\ ShelfInv /\ KeepInv

LEMMA WholeInit == Init => WholeInv
BY DictInit, MountInit, ImageInit, OwnersInit, TypesInit, ShelfInit
   DEF Init, SharedInit, LocInv, HomeInv, WholeInv

LEMMA WholeStep == IoFiles # {} => (WholeInv /\ [Next]_unpackersVars => WholeInv')
<1> SUFFICES ASSUME IoFiles # {}, WholeInv, [Next]_unpackersVars PROVE WholeInv'
  OBVIOUS
<1>1. DictInv /\ LocInv /\ MountInv /\ ImageInv /\ Owners /\ HomeInv /\ ShelfInv /\ KeepInv
  BY DEF WholeInv
<1>2. (DictInv /\ LocInv /\ MountInv /\ ImageInv /\ Owners /\ HomeInv)'
  BY <1>1, DictStep, LocStep, MountStep, ImageStep, OwnersStep, HomeStep
<1>3. ShelfInv' /\ KeepInv'
  <2>1. CASE DockerNext
    BY <1>1, <1>2, <2>1, ShelfDocker
  <2>2. CASE LocalNext /\ UNCHANGED dockerVars
    BY <1>1, <2>2, LocalOwners, ShelfElsewhere
  <2>3. CASE VagrantNext /\ UNCHANGED dockerVars
    BY <1>1, <2>3, VagrantOwners, ShelfElsewhere
  <2>4. CASE UNCHANGED unpackersVars
    BY <1>1, <2>4, ShelfElsewhere DEF unpackersVars
  <2> QED
    BY <2>1, <2>2, <2>3, <2>4 DEF Next
<1> QED
  BY <1>2, <1>3 DEF WholeInv

\* Between two commands the recorded image exists, for every pack that has an
\* input or output file, every run, upload and failure, unless a command was
\* killed or destroy was called: no command removes it before it has recorded
\* another one.
THEOREM CurrentImageSafe == ASSUME IoFiles # {} PROVE Spec => []CurrentImageExists
<1>1. WholeInv => CurrentImageExists
  BY DEF WholeInv, KeepInv, CurrentKept, CurrentImageExists, Idle
<1> QED
  BY <1>1, WholeInit, WholeStep, PTL DEF Spec

\* Between two commands every image is the initial one, the current one or one
\* the daemon refused to remove, for every pack that has an input or output file,
\* every run, upload and failure, unless a command was killed: runs and uploads
\* do not pile up images.
THEOREM ImagesAccounted == ASSUME IoFiles # {} PROVE Spec => []NoImageLost
<1>1. WholeInv => NoImageLost
  BY DEF WholeInv, KeepInv, ImagesKept, Given, NoImageLost, Idle
<1> QED
  BY <1>1, WholeInit, WholeStep, PTL DEF Spec
-----------------------------------------------------------------------------
(* The abstract experiment.  A step of an unpacker is one of its steps, or *)
(* shows nothing: Allowed.                                                 *)

Allowed == [E!Next]_(E!vars)

\* The experiment is there no more.
LEMMA Lost == ASSUME ~Ready' PROVE Allowed
<1>1. CASE Ready
  BY <1>1 DEF Allowed, E!Next, E!Lose, E!Nobody, Files, AtFirst, Nothing
<1>2. CASE ~Ready
  BY <1>2 DEF Allowed, E!vars, Files, AtFirst, Nothing
<1> QED
  BY <1>1, <1>2

\* It stays as it is.
LEMMA Same == ASSUME Ready' <=> Ready, Ready => Files' = Files /\ AtFirst' = AtFirst PROVE Allowed
<1>1. CASE Ready
  BY <1>1 DEF Allowed, E!vars
<1>2. CASE ~Ready
  BY <1>2, Lost
<1> QED
  BY <1>1, <1>2

\* It is as it was unpacked: made ready, or reset.
LEMMA AsUnpacked ==
  ASSUME Ready' => Files' = AtFirst' /\ AtFirst' \in World,
         Ready /\ Ready' => AtFirst' = AtFirst
  PROVE  Allowed
<1>1. CASE Ready /\ Ready'
  BY <1>1 DEF Allowed, E!Next, E!Reset
<1>2. CASE ~Ready /\ Ready'
  BY <1>2 DEF Allowed, E!Next, E!Setup, E!World, World
<1> QED
  BY <1>1, <1>2, Lost

\* Its runs generate outputs.
LEMMA HasRun ==
  ASSUME Ready' <=> Ready, Ready => AtFirst' = AtFirst,
         NEW wrote \in SUBSET OutputsOf(Runs),
         Ready => Files' = [f \in IoFiles |-> IF f \in wrote THEN "generated" ELSE Files[f]]
  PROVE  Allowed
<1>1. CASE Ready
  BY <1>1 DEF Allowed, E!Next, E!Run
<1> QED
  BY <1>1, Lost

\* Files are put in it.
LEMMA HasFiles ==
  ASSUME Ready' <=> Ready, Ready => AtFirst' = AtFirst,
         Ready => Files' \in World /\ \A f \in IoFiles : Files'[f] \in Uploads \cup {Files[f]}
  PROVE  Allowed
<1>1. CASE Ready
  BY <1>1 DEF Allowed, E!Next, E!Upload, E!World, World, Uploads
<1> QED
  BY <1>1, Lost

LEMMA AllowedInit == Init => E!Init
BY DEF Init, SharedInit, Ready, Files, AtFirst, E!Init, E!Nobody, Nothing

\* Steps that touch nothing of what is seen.
LEMMA NothingSeen ==
  ASSUME UNCHANGED <<dir, meta, dct, images, destroyed, fs, hostWiped, vm>> PROVE Allowed
<1>1. CurrentImage' = CurrentImage /\ Ready' = Ready
  BY DEF CurrentImage, Ready, Exists, ImageIds, NoImage, NoMeta, NoRoot
<1>2. Files' = Files /\ AtFirst' = AtFirst
  BY <1>1 DEF Files, AtFirst, Nothing, SetupSh, Extracted, Packed
<1> QED
  BY <1>1, <1>2, Same

-----------------------------------------------------------------------------
(* The experiment in Docker. *)

\* What the abstract experiment is, for a whole directory of Docker.
DockerSight ==
    WholeInv /\ meta.unpacker = "docker" =>
        /\ Ready <=> Exists(CurrentImage) /\ ~destroyed
        /\ Ready => /\ Files = images[CurrentImage] /\ Files \in World
                    /\ AtFirst = dockerfile /\ AtFirst \in World
                    /\ meta.initial # 0

LEMMA DockerSeen == DockerSight /\ DockerSight'
<1>1. DockerSight
  <2> SUFFICES ASSUME WholeInv, meta.unpacker = "docker"
               PROVE  /\ Ready <=> Exists(CurrentImage) /\ ~destroyed
                      /\ Ready => /\ Files = images[CurrentImage] /\ Files \in World
                                  /\ AtFirst = dockerfile /\ AtFirst \in World
                                  /\ meta.initial # 0
    BY DEF DockerSight
  <2>0. /\ DictInv /\ Owners /\ ShelfInv /\ ImageInv /\ HomeInv
    BY DEF WholeInv
  <2>1. DockerTypeOK /\ InitialImageKept
    BY <2>0 DEF ImageInv, HomeInv, TypesInv
  <2>2. meta # NoMeta /\ dir
    <3>1. meta # NoMeta
      BY DEF NoMeta
    <3> QED
      BY <2>0, <3>1 DEF DictInv
  <2>3. Ready <=> Exists(CurrentImage) /\ ~destroyed
    BY <2>2 DEF Ready
  <2>4. ASSUME Ready PROVE meta.initial # 0
    <3>1. CASE Exists(meta.current)
      <4>1. meta.current # 0
        BY <3>1 DEF Exists, ImageIds
      <4> QED
        BY <2>0, <4>1 DEF ShelfInv
    <3>2. CASE ~Exists(meta.current)
      <4>1. dct # NoMeta /\ Exists(dct.current)
        BY <2>3, <2>4, <3>2 DEF CurrentImage
      <4>2. pc \in DockerPcs
        BY <2>0, <4>1 DEF DictInv, Owners, LocalPcs, MountPcs, UmountPcs, VagrantPcs, OtherPcs
      <4>3. pc # "docker built"
        BY <2>0, <3>2, <4>1 DEF ShelfInv
      <4> QED
        BY <2>0, <4>2, <4>3 DEF ShelfInv
    <3> QED
      BY <3>1, <3>2
  <2>5. ASSUME Ready PROVE Files = images[CurrentImage] /\ AtFirst = images[meta.initial]
    BY <2>5 DEF Files, AtFirst
  <2>6. ASSUME Ready PROVE images[CurrentImage] \in World /\ images[meta.initial] \in World
                           /\ images[meta.initial] = dockerfile
    BY <2>1, <2>2, <2>3, <2>4, <2>6 DEF InitialImageKept, Exists, DockerTypeOK
  <2> QED
    BY <2>3, <2>4, <2>5, <2>6
<1> QED
  BY <1>1, PTL

\* The same image is current, and unchanged.
LEMMA DockerSame ==
  ASSUME WholeInv, WholeInv', meta.unpacker = "docker", meta'.unpacker = "docker",
         NEW c, CurrentImage = c, CurrentImage' = c, images'[c] = images[c],
         UNCHANGED <<dockerfile, destroyed>>
  PROVE  Allowed
<1>1. Ready' <=> Ready
  BY DockerSeen DEF DockerSight, Exists, ImageIds, NoImage
<1>2. Ready => Files' = Files /\ AtFirst' = AtFirst
  BY <1>1, DockerSeen DEF DockerSight
<1> QED
  BY <1>1, <1>2, Same

\* The image that becomes current is the initial one.
LEMMA DockerFirst ==
  ASSUME WholeInv, WholeInv', meta.unpacker = "docker", meta'.unpacker = "docker",
         CurrentImage' = meta'.initial, UNCHANGED dockerfile
  PROVE  Allowed
<1>1. Ready' => Files' = AtFirst' /\ AtFirst' \in World
  BY DockerSeen DEF DockerSight, AtFirst
<1>2. Ready /\ Ready' => AtFirst' = AtFirst
  BY DockerSeen DEF DockerSight
<1> QED
  BY <1>1, <1>2, AsUnpacked

\* Another image takes its place.
LEMMA DockerOther ==
  ASSUME WholeInv, WholeInv', meta.unpacker = "docker", meta'.unpacker = "docker",
         UNCHANGED <<dockerfile, destroyed>>,
         Exists(CurrentImage) <=> Exists(CurrentImage)',
         \/ \A f \in IoFiles : images'[CurrentImage'][f] \in Uploads \cup {images[CurrentImage][f]}
         \/ \E wrote \in SUBSET OutputsOf(Runs) :
              images'[CurrentImage'] = [f \in IoFiles |-> IF f \in wrote THEN "generated"
                                                                        ELSE images[CurrentImage][f]]
  PROVE  Allowed
<1>1. Ready' <=> Ready
  BY DockerSeen DEF DockerSight
<1>2. Ready => /\ Files' = images'[CurrentImage'] /\ Files' \in World /\ Files = images[CurrentImage]
               /\ AtFirst' = AtFirst
  BY <1>1, DockerSeen DEF DockerSight
<1>3. CASE \A f \in IoFiles : images'[CurrentImage'][f] \in Uploads \cup {images[CurrentImage][f]}
  BY <1>1, <1>2, <1>3, HasFiles
<1>4. ASSUME NEW wrote \in SUBSET OutputsOf(Runs),
             images'[CurrentImage'] = [f \in IoFiles |-> IF f \in wrote THEN "generated"
                                                                       ELSE images[CurrentImage][f]]
      PROVE  Allowed
  BY <1>1, <1>2, <1>4, HasRun
<1> QED
  BY <1>3, <1>4

\* It is not built yet, or it is removed.
LEMMA DockerGone ==
  ASSUME WholeInv',
         \/ meta' = NoMeta \/ ~dir'
         \/ meta'.unpacker = "docker" /\ (destroyed' \/ meta'.initial = 0)
  PROVE  Allowed
<1>1. ~Ready'
  BY DockerSeen DEF DockerSight, Ready
<1> QED
  BY <1>1, Lost

\* A command is stopped: what it held in memory is gone.
LEMMA Interrupted ==
  ASSUME WholeInv, WholeInv', dct' = NoMeta,
         UNCHANGED <<dir, meta, images, dockerfile, destroyed, fs, hostWiped, vm>>
  PROVE  Allowed
<1>1. CurrentImage' = meta.current
  BY DEF CurrentImage
<1>2. CASE meta.unpacker = "docker" /\ Exists(meta.current)
  <2>1. CurrentImage = meta.current
    BY <1>2 DEF CurrentImage
  <2> QED
    BY <1>1, <1>2, <2>1, DockerSame
<1>3. CASE meta.unpacker = "docker" /\ ~Exists(meta.current)
  <2>1. ~Exists(CurrentImage)'
    BY <1>1, <1>3 DEF Exists, ImageIds, NoImage
  <2>2. ~Ready'
    BY <1>3, <2>1, DockerSeen DEF DockerSight
  <2> QED
    BY <2>2, Lost
<1>4. CASE meta.unpacker # "docker"
  <2>1. Ready' <=> Ready
    BY <1>4 DEF Ready, NoMeta, NoRoot
  <2>2. Ready => Files' = Files /\ AtFirst' = AtFirst
    BY <1>4, <2>1 DEF Files, AtFirst, SetupSh, Extracted, Packed
  <2> QED
    BY <2>1, <2>2, Same
<1> QED
  BY <1>2, <1>3, <1>4

LEMMA DockerAllowed ==
  ASSUME WholeInv, WholeInv', DockerNext, UNCHANGED <<localVars, vagrantVars>>
  PROVE  Allowed
<1>0. /\ DictInv /\ Owners /\ ShelfInv /\ ImageInv /\ SharedTypes /\ DockerTypeOK
      /\ images = [i \in ImageIds |-> images[i]] /\ 0 \notin ImageIds
      /\ NoMeta.unpacker = "none"
  <2>1. /\ DictInv /\ Owners /\ ShelfInv /\ ImageInv /\ HomeInv
    BY DEF WholeInv
  <2>2. images = [i \in ImageIds |-> images[i]] /\ SharedTypes /\ DockerTypeOK
    BY <2>1 DEF ImageInv, HomeInv, TypesInv
  <2>3. 0 \notin ImageIds /\ NoMeta.unpacker = "none"
    BY DEF ImageIds, NoMeta
  <2> QED
    BY <2>1, <2>2, <2>3
<1>1. DictInv' /\ Owners' /\ ShelfInv' /\ ImageInv'
  BY DEF WholeInv
<1>2. pc = "idle" => dct = NoMeta
  BY <1>0 DEF Owners, OtherPcs
<1>3. pc \in DockerPcs => /\ dct \in Meta /\ dct # NoMeta /\ meta.unpacker = "docker" /\ dct.unpacker = "docker"
                          /\ pc # "docker built" => dct.initial = meta.initial
  BY <1>0, DictTyped, MetaTyped DEF DictInv, ImageInv
<1>4. pc' \in DockerPcs => dct' # NoMeta /\ meta'.unpacker = "docker"
  BY <1>0, <1>1 DEF DictInv
<1> USE DEF DockerPcs
<1>5. CASE DockerCreate
  <2>1. CASE LeftBehind
    BY <1>0, <1>5, <2>1, NothingSeen, DockerGone DEF LeftBehind, DockerCreate, CanSetUp, DictInv
  <2>2. CASE Unpacked(NewMeta("docker"), DataTgz)
    <3>1. meta'.unpacker = "docker" /\ meta'.initial = 0
      BY <2>2 DEF Unpacked, NewMeta
    <3> QED
      BY <3>1, DockerGone
  <2> QED
    BY <1>5, <2>1, <2>2 DEF DockerCreate
<1>6. CASE DockerBuild
  <2>1. meta.unpacker = "docker" /\ meta.initial = 0 /\ (meta' = meta \/ meta' = NoMeta)
    BY <1>0, <1>6 DEF DockerBuild, Reads, DictInv, ImageInv, RmTree
  <2> QED
    BY <2>1, DockerGone
<1>7. CASE DockerReset
  <2>1. /\ pc = "idle" /\ meta.unpacker = "docker" /\ meta' = meta /\ meta.current # meta.initial
        /\ Rmi(meta.current) \/ RmiFails(meta.current)
        /\ dct' = [meta EXCEPT !.current = meta.initial] /\ pc' = "docker reset"
        /\ UNCHANGED <<dockerfile, destroyed>>
    BY <1>7 DEF DockerReset, Reads, Idle, Call
  <2>2. dct'.current = meta'.initial /\ dct' # NoMeta
    BY <1>1, <1>4, <2>1 DEF ShelfInv
  <2>3. CurrentImage = meta.current
    BY <1>2, <2>1 DEF CurrentImage
  <2>4. CASE Exists(meta.current)'
    <3>1. CurrentImage' = meta.current /\ images'[meta.current] = images[meta.current]
      BY <1>0, <2>1, <2>4, RmiShelf DEF CurrentImage, Exists
    <3> QED
      BY <2>1, <2>3, <3>1, DockerSame
  <2>5. CASE ~Exists(meta.current)'
    <3>1. CurrentImage' = meta'.initial
      BY <2>2, <2>5 DEF CurrentImage
    <3> QED
      BY <2>1, <3>1, DockerFirst
  <2> QED
    BY <2>4, <2>5
<1>8. CASE DockerRun
  <2>1. /\ meta.unpacker = "docker" /\ meta' = meta /\ Exists(meta.current)
        /\ UNCHANGED <<images, dockerfile, destroyed>>
    BY <1>8 DEF DockerRun, Reads, NewBox
  <2>2. CurrentImage = meta.current /\ CurrentImage' = meta.current
    BY <2>1 DEF CurrentImage, Exists, ImageIds, NoImage
  <2> QED
    BY <2>1, <2>2, DockerSame
<1>9. CASE DockerRunDetached \/ UserRemovesBox
  BY <1>9, NothingSeen DEF DockerRunDetached, UserRemovesBox, sharedVars, localVars, vagrantVars
<1>10. CASE DockerUpload
  <2>1. /\ pc = "idle" /\ meta.unpacker = "docker" /\ meta' = meta /\ dct' = meta
        /\ UNCHANGED <<images, dockerfile, destroyed>>
    BY <1>10 DEF DockerUpload, Reads, Idle, Call, dockerVars
  <2>2. CurrentImage = meta.current /\ CurrentImage' = meta.current
    BY <1>2, <2>1 DEF CurrentImage
  <2> QED
    BY <2>1, <2>2, DockerSame
<1>11. CASE DockerDownload
  <2>1. pc = "idle" /\ dct' = NoMeta /\ UNCHANGED <<dir, meta, images, destroyed>>
    BY <1>11 DEF DockerDownload, Reads, Idle, Call, KeepDir
  <2> QED
    BY <1>2, <2>1, NothingSeen DEF localVars, vagrantVars
<1>12. CASE DockerDestroy
  BY <1>12, DockerGone DEF DockerDestroy, Reads
<1>13. CASE DockerDestroyDir
  BY <1>13, DockerGone DEF DockerDestroyDir, RmTree
<1>14. CASE Crash({"docker"}) /\ UNCHANGED dockerVars
  BY <1>14, Interrupted DEF Crash, Return, Call, dockerVars, localVars, vagrantVars
<1>15. CASE DockerStep
  <2>1. CASE DockerBuilt
    <3>1. /\ pc = "docker built" /\ meta' = [dct EXCEPT !.initial = loc.image, !.current = loc.image]
          /\ dct' = NoMeta /\ UNCHANGED dockerfile
      BY <2>1 DEF DockerBuilt, Writes, Return, Call, dockerVars
    <3>2. meta'.unpacker = "docker" /\ meta'.initial = loc.image /\ meta'.current = loc.image
      BY <1>3, <3>1 DEF Meta
    <3>3. CurrentImage' = meta'.initial
      BY <3>1, <3>2 DEF CurrentImage
    <3> QED
      BY <1>3, <3>1, <3>2, <3>3, DockerFirst
  <2>2. CASE DockerResetDone
    <3>1. pc = "docker reset" /\ meta' = dct /\ dct' = NoMeta /\ UNCHANGED dockerfile
      BY <2>2 DEF DockerResetDone, Writes, Return, Call, dockerVars
    <3>2. dct.current = dct.initial
      BY <1>0, <1>3, <3>1 DEF ShelfInv
    <3>3. CurrentImage' = meta'.initial
      BY <3>1, <3>2 DEF CurrentImage
    <3> QED
      BY <1>3, <3>1, <3>3, DockerFirst
  <2>3. CASE DockerRunFails \/ DockerRunExits
    <3>1. pc = "docker run" /\ meta' = meta /\ UNCHANGED <<images, dockerfile, destroyed>>
      BY <2>3 DEF DockerRunFails, DockerRunExits
    <3>2. Exists(meta.current)
      BY <1>0, <3>1 DEF ShelfInv, BoxPcs
    <3>3. CurrentImage = meta.current /\ CurrentImage' = meta.current
      BY <3>1, <3>2 DEF CurrentImage, Exists, ImageIds, NoImage
    <3> QED
      BY <1>3, <3>1, <3>3, DockerSame
  <2>4. CASE DockerCommit
    <3>1. pc = "docker commit" /\ meta' = meta /\ UNCHANGED <<dockerfile, destroyed>>
          /\ (images' = images \/ NewImage(boxes[loc.box].fs))
      BY <2>4 DEF DockerCommit
    <3>2. Exists(meta.current)
      BY <1>0, <3>1 DEF ShelfInv, BoxPcs
    <3>3. images'[meta.current] = images[meta.current]
      BY <1>0, <3>1, <3>2, NewImageKeeps DEF Exists
    <3>4. CurrentImage = meta.current /\ CurrentImage' = meta.current
      BY <3>1, <3>2, <3>3 DEF CurrentImage, Exists, ImageIds, NoImage
    <3> QED
      BY <1>3, <3>1, <3>3, <3>4, DockerSame
  <2>5. CASE DockerRecord
    <3>1. pc = "docker record" /\ meta' = dct /\ UNCHANGED <<dct, images, dockerfile, destroyed>>
      BY <2>5 DEF DockerRecord, Writes, Continue, dockerVars
    <3>2. /\ Exists(meta.current) /\ Exists(dct.current) /\ loc.wrote \in SUBSET OutputsOf(Runs)
          /\ images[dct.current] = [f \in IoFiles |-> IF f \in loc.wrote THEN "generated"
                                                                        ELSE images[meta.current][f]]
      BY <1>0, <3>1 DEF ShelfInv, BoxPcs
    <3>3. CurrentImage = meta.current /\ CurrentImage' = dct.current
      BY <3>1, <3>2 DEF CurrentImage, Exists, ImageIds, NoImage
    <3>4. Exists(CurrentImage) /\ Exists(CurrentImage)'
      BY <3>1, <3>2, <3>3 DEF Exists, ImageIds, NoImage
    <3> QED
      BY <1>3, <3>1, <3>2, <3>3, <3>4, DockerOther
  <2>6. CASE DockerRm \/ DockerDownloadDone
    <3>1. /\ UNCHANGED <<dir, meta, images, destroyed>>
          /\ dct' = dct \/ (pc = "docker cp" /\ dct' = NoMeta)
      BY <2>6 DEF DockerRm, DockerDownloadDone, Continue, Return, Call, KeepDir
    <3>2. dct' = dct
      BY <1>0, <3>1 DEF Owners, OtherPcs
    <3> QED
      BY <3>1, <3>2, NothingSeen DEF localVars, vagrantVars
  <2>7. CASE DockerUntag
    <3>1. /\ pc = "docker rmi" /\ (Rmi(loc.image) \/ RmiFails(loc.image)) /\ (dct' = dct \/ dct' = NoMeta)
          /\ UNCHANGED <<meta, dockerfile, destroyed>>
      BY <2>7 DEF DockerUntag, Continue, Return, Call
    <3>2. dct = meta /\ loc.image # meta.current
      BY <1>0, <3>1 DEF ShelfInv
    <3>3. CurrentImage = meta.current /\ CurrentImage' = meta.current
      BY <3>1, <3>2 DEF CurrentImage
    <3>4. CASE meta.current \in ImageIds
      <4>1. images'[meta.current] = images[meta.current]
        BY <1>0, <3>1, <3>2, <3>4, RmiShelf
      <4> QED
        BY <1>3, <3>1, <3>3, <4>1, DockerSame
    <3>5. CASE meta.current \notin ImageIds
      <4>1. ~Exists(CurrentImage)'
        BY <3>3, <3>5 DEF Exists, ImageIds
      <4>2. ~Ready'
        BY <1>3, <3>1, <4>1, DockerSeen DEF DockerSight
      <4> QED
        BY <4>2, Lost
    <3> QED
      BY <3>4, <3>5
  <2>8. CASE DockerRunDone
    <3>1. PICK files : /\ meta' = [dct EXCEPT !.input_files = files] /\ pc = "docker status"
                       /\ dct' = NoMeta /\ UNCHANGED <<images, dockerfile, destroyed>>
      BY <2>8 DEF DockerRunDone, Writes, Return, Call, dockerVars
    <3>2. dct = meta
      BY <1>0, <3>1 DEF ShelfInv
    <3>3. meta'.unpacker = "docker" /\ meta'.current = meta.current
      BY <1>3, <3>1, <3>2 DEF Meta
    <3>4. CurrentImage = meta.current /\ CurrentImage' = meta.current
      BY <3>1, <3>2, <3>3 DEF CurrentImage
    <3> QED
      BY <1>3, <3>1, <3>3, <3>4, DockerSame
  <2>9. CASE DockerUploadFile
    <3>1. pc = "docker upload" /\ pc' = "docker upload" /\ UNCHANGED <<meta, images, dockerfile, destroyed>>
      BY <2>9 DEF DockerUploadFile, Call, dockerVars
    <3>2. dct.current = meta.current /\ dct'.current = meta.current
      BY <1>0, <1>1, <3>1 DEF ShelfInv
    <3>3. CurrentImage = meta.current /\ CurrentImage' = meta.current
      BY <3>1, <3>2 DEF CurrentImage
    <3> QED
      BY <1>3, <3>1, <3>3, DockerSame
  <2>10. CASE DockerUploadBuild
    <3>1. pc = "docker upload" /\ UNCHANGED <<dockerfile, destroyed>>
      BY <2>10 DEF DockerUploadBuild
    <3>2. dct.current = meta.current /\ loc.image = meta.current /\ CurrentImage = meta.current
      BY <1>0, <3>1 DEF ShelfInv, CurrentImage
    <3>3. CASE meta' = dct /\ dct' = NoMeta /\ UNCHANGED images
      <4>1. CurrentImage' = meta.current
        BY <3>2, <3>3 DEF CurrentImage
      <4> QED
        BY <1>3, <3>1, <3>2, <3>3, <4>1, DockerSame
    <3>4. CASE /\ Exists(loc.image) /\ UNCHANGED meta
               /\ NewImage([f \in IoFiles |-> IF f \in DOMAIN loc.staged THEN loc.staged[f]
                                                                       ELSE images[loc.image][f]])
      <4>1. images'[meta.current] = images[meta.current] /\ images[meta.current] # NoImage
            /\ meta.current \in ImageIds
        BY <1>0, <3>2, <3>4, NewImageKeeps DEF Exists
      <4>2. CurrentImage' = meta.current
        BY <3>4, <4>1 DEF CurrentImage, Exists, ImageIds, NoImage
      <4> QED
        BY <1>3, <3>1, <3>2, <3>4, <4>1, <4>2, DockerSame
    <3> QED
      BY <2>10, <3>3, <3>4 DEF DockerUploadBuild, Call, Return, Writes
  <2>11. CASE DockerUploadUntag
    <3>1. /\ pc = "docker upload rmi" /\ (Rmi(loc.image) \/ RmiFails(loc.image)) /\ pc' = "docker upload record"
          /\ UNCHANGED <<meta, dct, dockerfile, destroyed>>
      BY <2>11 DEF DockerUploadUntag, Continue
    <3>2. /\ Exists(meta.current) /\ loc.image = meta.current
          /\ Exists(dct.current) /\ dct.current # meta.current
          /\ \A f \in IoFiles : images[dct.current][f] \in Uploads \cup {images[meta.current][f]}
      BY <1>0, <3>1 DEF ShelfInv
    <3>3. CurrentImage = meta.current /\ images'[dct.current] = images[dct.current]
      BY <1>0, <3>1, <3>2, RmiShelf DEF CurrentImage, Exists
    <3>4. CASE Exists(meta.current)'
      <4>1. CurrentImage' = meta.current /\ images'[meta.current] = images[meta.current]
        BY <1>0, <3>1, <3>4, RmiShelf DEF CurrentImage, Exists
      <4> QED
        BY <1>3, <3>1, <3>3, <4>1, DockerSame
    <3>5. CASE ~Exists(meta.current)'
      <4>1. CurrentImage' = dct.current
        BY <1>3, <3>1, <3>5 DEF CurrentImage
      <4>2. Exists(CurrentImage) /\ Exists(CurrentImage)'
        BY <3>2, <3>3, <4>1 DEF Exists, ImageIds, NoImage
      <4>3. \A f \in IoFiles : images'[CurrentImage'][f] \in Uploads \cup {images[CurrentImage][f]}
        BY <3>2, <3>3, <4>1
      <4> QED
        BY <1>3, <3>1, <4>2, <4>3, DockerOther
    <3> QED
      BY <3>4, <3>5
  <2>12. CASE DockerUploadDone
    <3>1. pc = "docker upload record" /\ meta' = dct /\ dct' = NoMeta /\ UNCHANGED <<images, dockerfile, destroyed>>
      BY <2>12 DEF DockerUploadDone, Writes, Return, Call, dockerVars
    <3>2. /\ Exists(dct.current) /\ CurrentImage' = dct.current
          /\ Exists(meta.current) =>
               \A f \in IoFiles : images[dct.current][f] \in Uploads \cup {images[meta.current][f]}
      BY <1>0, <3>1 DEF ShelfInv, CurrentImage
    <3>3. CASE Exists(meta.current)
      <4>1. CurrentImage = meta.current
        BY <3>3 DEF CurrentImage
      <4>2. Exists(CurrentImage) /\ Exists(CurrentImage)'
        BY <3>1, <3>2, <3>3, <4>1 DEF Exists, ImageIds, NoImage
      <4>3. \A f \in IoFiles : images'[CurrentImage'][f] \in Uploads \cup {images[CurrentImage][f]}
        BY <3>1, <3>2, <3>3, <4>1
      <4> QED
        BY <1>3, <3>1, <4>2, <4>3, DockerOther
    <3>4. CASE ~Exists(meta.current)
      <4>1. CurrentImage = dct.current
        BY <1>3, <3>1, <3>4 DEF CurrentImage
      <4> QED
        BY <1>3, <3>1, <3>2, <4>1, DockerSame
    <3> QED
      BY <3>3, <3>4
  <2>13. CASE DockerDestroyInitial
    <3>1. pc = "docker destroy" /\ UNCHANGED <<meta, destroyed>>
      BY <2>13 DEF DockerDestroyInitial
    <3>2. destroyed /\ meta.unpacker = "docker"
      BY <1>0, <3>1 DEF ImageInv, Owners
    <3> QED
      BY <3>1, <3>2, DockerGone
  <2> QED
    BY <1>15, <2>1, <2>2, <2>3, <2>4, <2>5, <2>6, <2>7, <2>8, <2>9, <2>10, <2>11, <2>12, <2>13
       DEF DockerStep
<1> QED
  BY <1>5, <1>6, <1>7, <1>8, <1>9, <1>10, <1>11, <1>12, <1>13, <1>14, <1>15 DEF DockerNext
-----------------------------------------------------------------------------
(* The experiment in a directory or a chroot. *)

LocalSight ==
    WholeInv /\ meta.unpacker \in {"directory", "chroot"} =>
        /\ Ready <=> fs # NoRoot /\ ~hostWiped
        /\ fs \in World
        /\ Ready => Files = fs /\ AtFirst = Extracted(meta.unpacker)

LEMMA LocalSeen == LocalSight /\ LocalSight'
<1>1. LocalSight
  <2> SUFFICES ASSUME WholeInv, meta.unpacker \in {"directory", "chroot"}
               PROVE  /\ Ready <=> fs # NoRoot /\ ~hostWiped
                      /\ fs \in World
                      /\ Ready => Files = fs /\ AtFirst = Extracted(meta.unpacker)
    BY DEF LocalSight
  <2>1. DictInv /\ TreeInv /\ meta # NoMeta
    BY DEF WholeInv, HomeInv, NoMeta
  <2>2. dir
    BY <2>1 DEF DictInv
  <2>3. Ready <=> fs # NoRoot /\ ~hostWiped
    BY <2>1, <2>2 DEF Ready
  <2>4. Ready => Files = fs /\ AtFirst = Extracted(meta.unpacker)
    BY DEF Files, AtFirst
  <2> QED
    BY <2>1, <2>3, <2>4 DEF TreeInv
<1> QED
  BY <1>1, PTL

\* The tree stays as it is.
LEMMA LocalSame ==
  ASSUME WholeInv, WholeInv', meta.unpacker \in {"directory", "chroot"},
         meta'.unpacker = meta.unpacker, UNCHANGED <<fs, hostWiped>>
  PROVE  Allowed
<1>1. Ready' <=> Ready
  BY LocalSeen DEF LocalSight, NoRoot
<1>2. Extracted(meta.unpacker)' = Extracted(meta.unpacker)
  BY DEF Extracted, Packed
<1>3. Ready => Files' = Files /\ AtFirst' = AtFirst
  BY <1>1, <1>2, LocalSeen DEF LocalSight
<1> QED
  BY <1>1, <1>3, Same

\* Files of it are replaced.
LEMMA LocalOther ==
  ASSUME IoFiles # {}, WholeInv, WholeInv', meta.unpacker \in {"directory", "chroot"},
         UNCHANGED <<meta, hostWiped>>,
         \/ \A f \in IoFiles : fs'[f] \in Uploads \cup {fs[f]}
         \/ \E wrote \in SUBSET OutputsOf(Runs) :
              fs' = [f \in IoFiles |-> IF f \in wrote THEN "generated" ELSE fs[f]]
  PROVE  Allowed
<1>1. \A g \in World : g # NoRoot
  BY DEF World, NoRoot
<1>2. Ready' <=> Ready
  BY <1>1, LocalSeen DEF LocalSight, World, NoRoot
<1>3. Extracted(meta.unpacker)' = Extracted(meta.unpacker)
  BY DEF Extracted, Packed
<1>4. Ready => Files = fs /\ Files' = fs' /\ fs' \in World /\ AtFirst' = AtFirst
  BY <1>2, <1>3, LocalSeen DEF LocalSight, World
<1>5. CASE \A f \in IoFiles : fs'[f] \in Uploads \cup {fs[f]}
  BY <1>2, <1>4, <1>5, HasFiles DEF World
<1>6. ASSUME NEW wrote \in SUBSET OutputsOf(Runs),
             fs' = [f \in IoFiles |-> IF f \in wrote THEN "generated" ELSE fs[f]]
      PROVE  Allowed
  BY <1>2, <1>4, <1>6, HasRun
<1> QED
  BY <1>5, <1>6

LEMMA LocalAllowed ==
  ASSUME IoFiles # {}, WholeInv, WholeInv', LocalNext, UNCHANGED <<dockerVars, vagrantVars>>
  PROVE  Allowed
<1>0. DictInv /\ Owners /\ SharedTypes /\ NoMeta.unpacker = "none"
  BY DEF WholeInv, HomeInv, TypesInv, NoMeta
<1>1. pc \in LocalPcs => dct \in Meta /\ dct.unpacker = meta.unpacker
                         /\ meta.unpacker \in {"directory", "chroot"}
  BY <1>0, DictTyped DEF DictInv
<1>2. UNCHANGED <<images, destroyed, dockerfile, vm>>
  BY DEF dockerVars, vagrantVars
<1> USE DEF LocalPcs, MountPcs, UmountPcs
<1>3. CASE LocalCreate
  <2>1. CASE LeftBehind /\ UNCHANGED fs
    BY <1>0, <1>2, <1>3, <2>1, DockerGone DEF LeftBehind, LocalCreate, CanSetUp, DictInv
  <2>2. ASSUME NEW type \in {"directory", "chroot"}, fs' = Extracted(type),
               Unpacked(NewMeta(type), InputsTar(Extracted(type)))
        PROVE  Allowed
    <3>1. meta'.unpacker = type /\ ~dir
      BY <1>3, <2>2 DEF LocalCreate, CanSetUp, Unpacked, NewMeta
    <3>2. Ready' => Files' = Extracted(type)' /\ AtFirst' = Extracted(type)'
      BY <2>2, <3>1, LocalSeen DEF LocalSight, Extracted, Packed
    <3>3. Extracted(type)' \in World
      BY DEF Extracted, Packed, World, Contents
    <3>4. ~Ready
      BY <3>1 DEF Ready
    <3> QED
      BY <3>2, <3>3, <3>4, AsUnpacked
  <2> QED
    BY <1>3, <2>1, <2>2 DEF LocalCreate
<1>4. CASE LocalRun \/ LocalUpload \/ ChrootMount \/ ChrootUnmount
  BY <1>4, LocalSame DEF LocalRun, LocalUpload, ChrootMount, ChrootUnmount, Reads, localVars
<1>5. CASE LocalDestroyDir
  <2>1. meta.unpacker \in {"directory", "chroot"}
    BY <1>0, <1>5 DEF LocalDestroyDir, Reads, Owners
  <2>2. CASE meta' = NoMeta
    BY <2>2, DockerGone
  <2>3. CASE hostWiped' /\ meta' = meta
    <3>1. ~Ready'
      BY <2>1, <2>3, LocalSeen DEF LocalSight
    <3> QED
      BY <3>1, Lost
  <2> QED
    BY <1>5, <2>2, <2>3 DEF LocalDestroyDir, RmTree
<1>6. CASE LocalCrash
  BY <1>2, <1>6, Interrupted DEF LocalCrash, Crash, Return, Call
<1>7. CASE Reboot
  BY <1>2, <1>7, Interrupted DEF Reboot, Return, Call
<1>8. CASE LocalStep
  <2>1. CASE LocalRunExits
    <3>1. PICK wrote \in SUBSET OutputsOf(loc.runs) :
            fs' = [f \in IoFiles |-> IF f \in wrote THEN "generated" ELSE fs[f]]
      BY <2>1 DEF LocalRunExits
    <3>2. pc = "local run" /\ UNCHANGED <<meta, hostWiped>>
      BY <2>1 DEF LocalRunExits
    <3>3. wrote \in SUBSET OutputsOf(Runs)
      BY <1>0, <3>1, OutputsGrow DEF SharedTypes, Locals
    <3> QED
      BY <1>1, <3>1, <3>2, <3>3, LocalOther
  <2>2. CASE LocalRunDone
    <3>1. PICK files : meta' = [dct EXCEPT !.input_files = files]
      BY <2>2 DEF LocalRunDone, Writes
    <3>2. pc = "local status" /\ UNCHANGED <<fs, hostWiped>>
      BY <2>2 DEF LocalRunDone, localVars
    <3>3. meta'.unpacker = meta.unpacker
      BY <1>1, <3>1, <3>2 DEF Meta
    <3> QED
      BY <1>1, <3>2, <3>3, LocalSame
  <2>3. CASE LocalUploadFile
    <3>1. pc = "local upload" /\ loc.specs # <<>> /\ UNCHANGED <<meta, hostWiped>>
      BY <2>3 DEF LocalUploadFile
    <3>2. PICK s : s = Head(loc.specs)
      OBVIOUS
    <3>3. s \in Spec_
      BY <1>0, <3>1, <3>2, SpecsGoOn DEF SharedTypes, Locals
    <3>4. CASE SpecOutcome(s) = "put" /\ fs' = [fs EXCEPT ![s.name] = Uploaded(s)]
      <4>1. s.name \in IoFiles /\ Uploaded(s) \in Uploads /\ fs \in World
        BY <1>0, <1>1, <3>1, <3>3, <3>4, SpecsPut, LocalSeen DEF LocalSight
      <4>2. \A f \in IoFiles : fs'[f] \in Uploads \cup {fs[f]}
        BY <3>4, <4>1 DEF World
      <4> QED
        BY <1>1, <3>1, <4>2, LocalOther
    <3>5. CASE UNCHANGED fs
      BY <1>1, <3>1, <3>5, LocalSame
    <3> QED
      BY <2>3, <3>2, <3>4, <3>5 DEF LocalUploadFile
  <2>4. CASE LocalUploadDone
    BY <1>1, <2>4, LocalSame DEF LocalUploadDone, Writes, localVars
  <2>5. CASE ChrootMounted \/ ChrootUnmounted
    <3>1. PICK b : meta' = [dct EXCEPT !.mounted = b]
      BY <2>5 DEF ChrootMounted, ChrootUnmounted, Writes
    <3>2. pc \in {"mounted", "unmounted"} /\ UNCHANGED <<fs, hostWiped>>
      BY <2>5 DEF ChrootMounted, ChrootUnmounted, localVars
    <3>3. meta'.unpacker = meta.unpacker
      BY <1>1, <3>1, <3>2 DEF Meta
    <3> QED
      BY <1>1, <3>2, <3>3, LocalSame
  <2>6. ASSUME NEW p \in Points, ChrootMountPoint(p) PROVE Allowed
    BY <1>1, <2>6, LocalSame DEF ChrootMountPoint, MountPc, Points
  <2>7. ASSUME NEW d \in {"dev", "proc"}, ChrootUmountPoint(d) PROVE Allowed
    BY <1>1, <2>7, LocalSame DEF ChrootUmountPoint
  <2> QED
    BY <1>8, <2>1, <2>2, <2>3, <2>4, <2>5, <2>6, <2>7 DEF LocalStep
<1> QED
  BY <1>3, <1>4, <1>5, <1>6, <1>7, <1>8 DEF LocalNext
-----------------------------------------------------------------------------
(* The experiment in a virtual machine. *)

VagrantSight ==
    WholeInv /\ meta.unpacker = "vagrant" =>
        /\ Ready <=> vm.ready
        /\ Ready => Files = vm.fs /\ AtFirst = SetupSh(meta.use_chroot)
        /\ vm \in Machine

LEMMA VagrantSeen == VagrantSight /\ VagrantSight'
<1>1. VagrantSight
  <2> SUFFICES ASSUME WholeInv, meta.unpacker = "vagrant"
               PROVE  /\ Ready <=> vm.ready
                      /\ Ready => Files = vm.fs /\ AtFirst = SetupSh(meta.use_chroot)
                      /\ vm \in Machine
    BY DEF VagrantSight
  <2>1. DictInv /\ vm \in Machine /\ meta # NoMeta
    BY DEF WholeInv, HomeInv, TypesInv, VagrantTypeOK, NoMeta
  <2>2. dir
    BY <2>1 DEF DictInv
  <2>3. Ready <=> vm.ready
    BY <2>1, <2>2 DEF Ready, Machine
  <2>4. Ready => Files = vm.fs /\ AtFirst = SetupSh(meta.use_chroot)
    BY DEF Files, AtFirst
  <2> QED
    BY <2>1, <2>3, <2>4
<1> QED
  BY <1>1, PTL

\* What the machine holds stays as it is.
LEMMA VagrantSame ==
  ASSUME WholeInv, WholeInv', meta.unpacker = "vagrant", meta'.unpacker = "vagrant",
         meta'.use_chroot = meta.use_chroot, vm'.ready = vm.ready, vm'.fs = vm.fs
  PROVE  Allowed
<1>1. Ready' <=> Ready
  BY VagrantSeen DEF VagrantSight
<1>2. SetupSh(meta.use_chroot)' = SetupSh(meta.use_chroot)
  BY DEF SetupSh
<1>3. Ready => Files' = Files /\ AtFirst' = AtFirst
  BY <1>1, <1>2, VagrantSeen DEF VagrantSight
<1> QED
  BY <1>1, <1>3, Same

\* Files in it are replaced.
LEMMA VagrantOther ==
  ASSUME WholeInv, WholeInv', meta.unpacker = "vagrant", UNCHANGED meta, vm'.ready = vm.ready,
         \/ \A f \in IoFiles : vm'.fs[f] \in Uploads \cup {vm.fs[f]}
         \/ \E wrote \in SUBSET OutputsOf(Runs) :
              vm'.fs = [f \in IoFiles |-> IF f \in wrote THEN "generated" ELSE vm.fs[f]]
  PROVE  Allowed
<1>1. Ready' <=> Ready
  BY VagrantSeen DEF VagrantSight
<1>2. SetupSh(meta.use_chroot)' = SetupSh(meta.use_chroot)
  BY DEF SetupSh
<1>3. Ready => Files = vm.fs /\ Files' = vm'.fs /\ vm'.fs \in World /\ AtFirst' = AtFirst
  BY <1>1, <1>2, VagrantSeen DEF VagrantSight, Machine, World
<1>4. CASE \A f \in IoFiles : vm'.fs[f] \in Uploads \cup {vm.fs[f]}
  BY <1>1, <1>3, <1>4, HasFiles
<1>5. ASSUME NEW wrote \in SUBSET OutputsOf(Runs),
             vm'.fs = [f \in IoFiles |-> IF f \in wrote THEN "generated" ELSE vm.fs[f]]
      PROVE  Allowed
  BY <1>1, <1>3, <1>5, HasRun
<1> QED
  BY <1>4, <1>5

LEMMA VagrantAllowed ==
  ASSUME WholeInv, WholeInv', VagrantNext, UNCHANGED <<dockerVars, localVars>>
  PROVE  Allowed
<1>0. DictInv /\ Owners /\ SharedTypes /\ MachineInv /\ vm \in Machine /\ NoMeta.unpacker = "none"
  BY DEF WholeInv, HomeInv, TypesInv, VagrantTypeOK, NoMeta
<1>1. pc \in VagrantPcs => dct \in Meta /\ dct.unpacker = "vagrant" /\ meta.unpacker = "vagrant"
                           /\ dct.use_chroot = meta.use_chroot
  BY <1>0, DictTyped DEF DictInv, MachineInv
<1>2. UNCHANGED <<images, destroyed, dockerfile, fs, hostWiped>>
  BY DEF dockerVars, localVars
<1>3. NoMachine.ready = FALSE
  BY DEF NoMachine
<1> USE DEF VagrantPcs
<1>4. CASE VagrantCreate
  <2>1. CASE LeftBehind
    BY <1>0, <1>4, <2>1, DockerGone DEF LeftBehind, VagrantCreate, CanSetUp, DictInv
  <2>2. ASSUME NEW b \in BOOLEAN, Unpacked([NewMeta("vagrant") EXCEPT !.use_chroot = b], DataTgz)
        PROVE  Allowed
    <3>1. meta'.unpacker = "vagrant"
      BY <2>2 DEF Unpacked, NewMeta
    <3>2. meta = NoMeta /\ ~left /\ vm' = vm
      BY <1>0, <1>4 DEF VagrantCreate, CanSetUp, DictInv
    <3>3. vm = NoMachine
      BY <1>0, <3>2 DEF MachineInv
    <3>4. ~Ready'
      BY <1>3, <3>1, <3>2, <3>3, VagrantSeen DEF VagrantSight
    <3> QED
      BY <3>4, Lost
  <2> QED
    BY <1>4, <2>1, <2>2 DEF VagrantCreate
<1>5. CASE VagrantStart \/ VagrantDownload \/ VagrantRun \/ VagrantUpload
  <2>1. \E label, l : VagrantCommand(label, l)
    BY <1>5 DEF VagrantStart, VagrantDownload, VagrantRun, VagrantUpload
  <2>2. meta.unpacker = "vagrant" /\ UNCHANGED <<meta, vm>>
    BY <2>1 DEF VagrantCommand, Reads, vagrantVars
  <2> QED
    BY <2>2, VagrantSame
<1>6. CASE VagrantSuspend
  <2>1. meta.unpacker = "vagrant" /\ UNCHANGED meta
    BY <1>6 DEF VagrantSuspend, Reads, sharedVars
  <2>2. vm'.ready = vm.ready /\ vm'.fs = vm.fs
    BY <1>0, <1>6 DEF VagrantSuspend, Machine
  <2> QED
    BY <2>1, <2>2, VagrantSame
<1>7. CASE VagrantDestroyVm
  <2>1. meta.unpacker = "vagrant" /\ UNCHANGED meta /\ (vm' = NoMachine \/ vm' = vm)
    BY <1>7 DEF VagrantDestroyVm, Reads
  <2>2. CASE vm' = NoMachine
    <3>1. ~Ready'
      BY <1>3, <2>1, <2>2, VagrantSeen DEF VagrantSight
    <3> QED
      BY <3>1, Lost
  <2>3. CASE vm' = vm
    BY <2>1, <2>3, VagrantSame
  <2> QED
    BY <2>1, <2>2, <2>3
<1>8. CASE VagrantDestroyDir
  BY <1>8, DockerGone DEF VagrantDestroyDir, RmTree
<1>9. CASE VmPowerOff
  <2>1. meta.unpacker = "vagrant" /\ UNCHANGED meta
    BY <1>9 DEF VmPowerOff
  <2>2. vm'.ready = vm.ready /\ vm'.fs = vm.fs
    BY <1>0, <1>9 DEF VmPowerOff, Machine
  <2> QED
    BY <2>1, <2>2, VagrantSame
<1>10. CASE Crash({"vagrant"}) /\ UNCHANGED vagrantVars
  BY <1>2, <1>10, Interrupted DEF Crash, Return, Call, vagrantVars
<1>11. CASE VagrantStep
  <2>1. CASE VagrantUp
    <3>1. pc = "vagrant ssh" /\ UNCHANGED meta
      BY <2>1 DEF VagrantUp
    <3>2. CASE /\ vm.state = "none"
               /\ vm' = [state |-> "running", fs |-> SetupSh(dct.use_chroot), ready |-> TRUE, stack |-> 0]
      <4>1. vm'.fs = SetupSh(meta.use_chroot)
        BY <1>1, <3>1, <3>2
      <4>2. SetupSh(meta.use_chroot)' = SetupSh(meta.use_chroot) /\ SetupSh(meta.use_chroot) \in World
        BY DEF SetupSh, World, Contents
      <4>3. ~Ready
        BY <1>0, <1>1, <1>3, <3>1, <3>2, VagrantSeen DEF VagrantSight, MachineInv
      <4>4. Ready' => Files' = AtFirst' /\ AtFirst' \in World
        BY <1>1, <3>1, <4>1, <4>2, VagrantSeen DEF VagrantSight
      <4> QED
        BY <4>3, <4>4, AsUnpacked
    <3>3. CASE vm' = [NoMachine EXCEPT !.state = "running"]
      <4>1. vm'.ready = FALSE
        BY <3>3 DEF NoMachine
      <4>2. ~Ready'
        BY <1>1, <3>1, <4>1, VagrantSeen DEF VagrantSight
      <4> QED
        BY <4>2, Lost
    <3>4. CASE vm' = [vm EXCEPT !.state = "running"]
      <4>1. vm'.ready = vm.ready /\ vm'.fs = vm.fs
        BY <1>0, <3>4 DEF Machine
      <4> QED
        BY <1>1, <3>1, <4>1, VagrantSame
    <3> QED
      BY <2>1, <3>2, <3>3, <3>4 DEF VagrantUp
  <2>2. CASE VagrantMachineReady
    <3>1. pc = "vagrant ssh" /\ UNCHANGED meta
      BY <2>2 DEF VagrantMachineReady
    <3>2. vm' = vm \/ \E n : vm' = [vm EXCEPT !.stack = n]
      BY <2>2 DEF VagrantMachineReady
    <3>3. vm'.ready = vm.ready /\ vm'.fs = vm.fs
      BY <1>0, <3>2 DEF Machine
    <3> QED
      BY <1>1, <3>1, <3>3, VagrantSame
  <2>3. CASE VagrantRunExits
    <3>1. PICK wrote \in SUBSET OutputsOf(loc.runs) :
            vm' = [vm EXCEPT !.fs = [f \in IoFiles |-> IF f \in wrote THEN "generated" ELSE @[f]]]
      BY <2>3 DEF VagrantRunExits
    <3>2. pc = "vagrant run" /\ UNCHANGED meta
      BY <2>3 DEF VagrantRunExits
    <3>3. wrote \in SUBSET OutputsOf(Runs)
      BY <1>0, <3>1, OutputsGrow DEF SharedTypes, Locals
    <3>4. vm'.ready = vm.ready
          /\ vm'.fs = [f \in IoFiles |-> IF f \in wrote THEN "generated" ELSE vm.fs[f]]
      BY <1>0, <3>1 DEF Machine
    <3> QED
      BY <1>1, <3>2, <3>3, <3>4, VagrantOther
  <2>4. CASE VagrantRunDone
    <3>1. PICK files : meta' = [dct EXCEPT !.input_files = files]
      BY <2>4 DEF VagrantRunDone, Writes
    <3>2. pc = "vagrant status" /\ UNCHANGED vm
      BY <2>4 DEF VagrantRunDone, vagrantVars
    <3>3. meta'.unpacker = "vagrant" /\ meta'.use_chroot = meta.use_chroot
      BY <1>1, <3>1, <3>2 DEF Meta
    <3> QED
      BY <1>1, <3>2, <3>3, VagrantSame
  <2>5. CASE VagrantUploadFile
    <3>1. pc = "vagrant upload" /\ loc.specs # <<>> /\ UNCHANGED meta
      BY <2>5 DEF VagrantUploadFile
    <3>2. PICK s : s = Head(loc.specs)
      OBVIOUS
    <3>3. s \in Spec_
      BY <1>0, <3>1, <3>2, SpecsGoOn DEF SharedTypes, Locals
    <3>4. CASE SpecOutcome(s) = "put" /\ vm' = [vm EXCEPT !.fs[s.name] = Uploaded(s)]
      <4>1. s.name \in IoFiles /\ Uploaded(s) \in Uploads
        BY <1>0, <3>3, <3>4, SpecsPut
      <4>2. vm'.ready = vm.ready /\ vm'.fs = [vm.fs EXCEPT ![s.name] = Uploaded(s)] /\ vm.fs \in World
        BY <1>0, <3>4 DEF Machine
      <4>3. \A f \in IoFiles : vm'.fs[f] \in Uploads \cup {vm.fs[f]}
        BY <4>1, <4>2 DEF World
      <4> QED
        BY <1>1, <3>1, <4>2, <4>3, VagrantOther
    <3>5. CASE UNCHANGED vm
      BY <1>1, <3>1, <3>5, VagrantSame
    <3> QED
      BY <2>5, <3>2, <3>4, <3>5 DEF VagrantUploadFile
  <2>6. CASE VagrantUploadDone
    <3>1. pc = "vagrant upload" /\ meta' = dct /\ UNCHANGED vm
      BY <2>6 DEF VagrantUploadDone, Writes, vagrantVars
    <3> QED
      BY <1>1, <3>1, VagrantSame
  <2> QED
    BY <1>11, <2>1, <2>2, <2>3, <2>4, <2>5, <2>6 DEF VagrantStep
<1> QED
  BY <1>4, <1>5, <1>6, <1>7, <1>8, <1>9, <1>10, <1>11 DEF VagrantNext

-----------------------------------------------------------------------------
\* Docker, directories, chroots and virtual machines all implement the abstract
\* experiment, for every pack that has an input or output file, every run and
\* upload, and every failure: whatever docker, ssh, mount and umount answer and
\* wherever a command is killed or the machine restarts, the files of an
\* experiment change by outputs of its runs, by an upload or by going back to
\* what was unpacked, each all at once, or the experiment is lost as a whole.
THEOREM ExperimentImplemented == ASSUME IoFiles # {} PROVE Spec => ImplementsExperiment
<1>1. WholeInv /\ WholeInv' /\ [Next]_unpackersVars => Allowed
  <2> SUFFICES ASSUME WholeInv, WholeInv', [Next]_unpackersVars PROVE Allowed
    OBVIOUS
  <2>1. CASE DockerNext /\ UNCHANGED <<localVars, vagrantVars>>
    BY <2>1, DockerAllowed
  <2>2. CASE LocalNext /\ UNCHANGED <<dockerVars, vagrantVars>>
    BY <2>2, LocalAllowed
  <2>3. CASE VagrantNext /\ UNCHANGED <<dockerVars, localVars>>
    BY <2>3, VagrantAllowed
  <2>4. CASE UNCHANGED unpackersVars
    BY <2>4, NothingSeen DEF unpackersVars, sharedVars, dockerVars, localVars, vagrantVars
  <2> QED
    BY <2>1, <2>2, <2>3, <2>4 DEF Next
<1>2. WholeInv /\ WholeInv' /\ [Next]_unpackersVars => [E!Next]_(E!vars)
  BY <1>1 DEF Allowed
<1> QED
  BY <1>2, AllowedInit, WholeInit, WholeStep, PTL DEF Spec, ImplementsExperiment, E!Spec

-----------------------------------------------------------------------------
(* What the dictionary says of the files. *)

\* Docker: the status is true of the current image, of the one being built,
\* and of the files gathered for an upload, but for the files known to be stale
\* and those whose new status is still to be written.
DockerTells ==
    /\ meta.unpacker = "docker" /\ meta.initial = 0 =>
          \A f \in IoFiles : f \in stale \/ Tells(meta.input_files[f], dockerfile[f])
    /\ meta.unpacker = "docker" /\ Exists(meta.current) /\ ~destroyed =>
          \A f \in IoFiles :
             \/ f \in stale
             \/ pc \in {"docker rm", "docker rmi", "docker status", "docker reset"} /\ f \in loc.wrote
             \/ Tells(meta.input_files[f], images[meta.current][f])
    /\ pc \in {"docker rm", "docker rmi", "docker status"} /\ Exists(meta.current) =>
          \A f \in loc.wrote : images[meta.current][f] = "generated"
    /\ pc \in {"docker built", "docker reset", "docker run", "docker commit", "docker record"} =>
          dct.input_files = meta.input_files
    /\ pc = "docker reset" => loc.wrote = IoFiles
    /\ pc = "docker upload" =>
          \A f \in IoFiles :
             /\ f \in DOMAIN loc.staged => f \in loc.told \/ Tells(dct.input_files[f], loc.staged[f])
             /\ f \notin DOMAIN loc.staged => dct.input_files[f] = meta.input_files[f]
    /\ pc \in {"docker upload rmi", "docker upload record"} /\ ~destroyed =>
          \A f \in IoFiles :
             \/ f \in stale \ DOMAIN loc.staged
             \/ f \in loc.told
             \/ Tells(dct.input_files[f], images[dct.current][f])

LocalTells ==
    /\ meta.unpacker \in {"directory", "chroot"} =>
          \A f \in IoFiles : \/ f \in stale
                             \/ pc \in {"local status", "local upload"} /\ f \in loc.wrote
                             \/ Tells(meta.input_files[f], fs[f])
    /\ pc = "local status" => \A f \in loc.wrote : fs[f] = "generated"
    /\ pc \in LocalPcs /\ pc # "local upload" => dct.input_files = meta.input_files
    /\ pc = "local upload" =>
          \A f \in IoFiles : f \in stale \ loc.wrote \/ f \in loc.told \/ Tells(dct.input_files[f], fs[f])

VagrantTells ==
    /\ meta.unpacker = "vagrant" /\ vm.ready =>
          \A f \in IoFiles : \/ f \in stale
                             \/ pc \in {"vagrant status", "vagrant upload"} /\ f \in loc.wrote
                             \/ Tells(meta.input_files[f], vm.fs[f])
    /\ pc = "vagrant status" => \A f \in loc.wrote : vm.fs[f] = "generated"
    /\ pc \in VagrantPcs /\ pc # "vagrant upload" => dct.input_files = meta.input_files
    /\ pc = "vagrant ssh" => loc.wrote = {}
    /\ pc = "vagrant upload" /\ vm.ready =>
          \A f \in IoFiles : f \in stale \ loc.wrote \/ f \in loc.told \/ Tells(dct.input_files[f], vm.fs[f])

\* What a run wrote is among the outputs of its runs.
RunWrites ==
    pc \in {"docker commit", "docker record", "docker rm", "docker rmi", "docker status",
           "local status", "vagrant status"} => loc.wrote \subseteq OutputsOf(loc.runs)

TellInv == DockerTells /\ LocalTells /\ VagrantTells /\ RunWrites

LEMMA TellInit == Init => TellInv
<1>1. NoMeta.unpacker = "none"
  BY DEF NoMeta
<1> QED
  BY <1>1 DEF Init, SharedInit, TellInv, DockerTells, LocalTells, VagrantTells, RunWrites, LocalPcs,
              MountPcs, UmountPcs, VagrantPcs

\* What is unpacked has the initial status, but for the packages left out.
LEMMA UnpackedTold ==
  ASSUME NEW f \in IoFiles
  PROVE  /\ \A install \in BOOLEAN :
               Origin[f] = "unpacked" \/ Tells(metadata_initial_iofiles[f], Recipe(install)[f])
         /\ \A b \in BOOLEAN :
               Origin[f] = "unpacked" \/ Tells(metadata_initial_iofiles[f], SetupSh(b)[f])
         /\ Tells(metadata_initial_iofiles[f], Extracted("directory")[f])
         /\ Origin[f] = "unpacked" \/ Tells(metadata_initial_iofiles[f], Extracted("chroot")[f])
<1>1. Origin[f] \in {"other", "packed", "unpacked", "none"}
  BY UnpackerAssumption
<1> QED
  BY <1>1 DEF Recipe, SetupSh, Extracted, metadata_initial_iofiles, Packed, Tells

\* After a run its outputs have a status that is true of what it generated.
LEMMA RunTold ==
  ASSUME NEW f \in IoFiles, NEW files, NEW rs
  PROVE  /\ f \in OutputsOf(rs) => Tells(metadata_update_run(files, rs)[f], "generated")
         /\ f \notin OutputsOf(rs) => metadata_update_run(files, rs)[f] = files[f]
BY DEF metadata_update_run, Tells

\* An upload gives a file the status that is true of what it puts there, unless
\* the file was named by its path; the others keep theirs.
LEMMA UploadTold ==
  ASSUME SharedTypes, NEW s \in Spec_, SpecOutcome(s) = "put", NEW files \in [IoFiles -> Status],
         NEW told, NEW f \in IoFiles
  PROVE  /\ f = s.name => f \in StaleAfter(told, s) \/ Tells(StatusAfter(files, s)[f], Uploaded(s))
         /\ f # s.name => /\ StatusAfter(files, s)[f] = files[f]
                          /\ f \in told => f \in StaleAfter(told, s)
<1>1. /\ s.name \in IoFiles /\ (s.from = "restore" \/ s.from \in LocalFiles)
      /\ s.from = "restore" => backup[s.name] \in {"original", "installed"}
  BY DEF SpecOutcome, Spec_, SharedTypes
<1>2. s.from \in LocalFiles => s.from \notin {"None", "False", "True", "restore"}
  BY UnpackerAssumption
<1>3. CASE s.bypath
  BY <1>1, <1>3 DEF StatusAfter, StaleAfter
<1>4. CASE ~s.bypath
  <2>1. StatusAfter(files, s) = [files EXCEPT ![s.name] = IF s.from = "restore" THEN "None" ELSE s.from]
    BY <1>4 DEF StatusAfter
  <2>2. f # s.name => StatusAfter(files, s)[f] = files[f] /\ (f \in told => f \in StaleAfter(told, s))
    BY <1>4, <2>1 DEF StaleAfter
  <2>3. f = s.name => StatusAfter(files, s)[f] = IF s.from = "restore" THEN "None" ELSE s.from
    BY <2>1
  <2> QED
    BY <1>1, <1>2, <2>2, <2>3 DEF Tells, Uploaded
<1> QED
  BY <1>3, <1>4

\* A step that leaves the dictionary on the disk and the current image alone, and
\* after which no command of Docker is at work.
LEMMA DockerLeaves ==
  ASSUME DockerTells, UNCHANGED <<meta, dockerfile>>, ~destroyed' => ~destroyed, pc' \notin DockerPcs,
         stale \subseteq stale',
         pc \in {"docker rm", "docker rmi", "docker status", "docker reset"} => loc.wrote \subseteq stale',
         Exists(meta.current)' => Exists(meta.current) /\ images'[meta.current] = images[meta.current]
  PROVE  DockerTells'
<1>1. ASSUME meta.unpacker = "docker", meta.initial = 0, NEW f \in IoFiles
      PROVE  f \in stale' \/ Tells(meta.input_files[f], dockerfile[f])
  BY <1>1 DEF DockerTells
<1>2. ASSUME meta.unpacker = "docker", Exists(meta.current)', ~destroyed', NEW f \in IoFiles
      PROVE  f \in stale' \/ Tells(meta.input_files[f], images'[meta.current][f])
  <2> HIDE DEF Tells
  <2>1. \/ f \in stale
        \/ pc \in {"docker rm", "docker rmi", "docker status", "docker reset"} /\ f \in loc.wrote
        \/ Tells(meta.input_files[f], images[meta.current][f])
    BY <1>2 DEF DockerTells
  <2>2. images'[meta.current] = images[meta.current]
    BY <1>2
  <2> QED
    BY <2>1, <2>2
<1> QED
  BY <1>1, <1>2 DEF DockerTells, DockerPcs, Tells

\* A command of Docker goes on, with the dictionary on the disk unchanged.
LEMMA DockerGoes ==
  ASSUME DockerTells, UNCHANGED <<meta, dockerfile, stale, destroyed>>,
         pc \notin {"docker rm", "docker rmi", "docker status", "docker reset"},
         Exists(meta.current)' => Exists(meta.current) /\ images'[meta.current] = images[meta.current]
  PROVE  /\ (meta.unpacker = "docker" /\ meta.initial = 0)' =>
               \A f \in IoFiles : f \in stale' \/ Tells(meta'.input_files[f], dockerfile'[f])
         /\ (meta.unpacker = "docker" /\ Exists(meta.current) /\ ~destroyed)' =>
               \A f \in IoFiles : f \in stale' \/ Tells(meta'.input_files[f], images'[meta'.current][f])
<1>1. ASSUME meta.unpacker = "docker", Exists(meta.current)', ~destroyed', NEW f \in IoFiles
      PROVE  f \in stale' \/ Tells(meta.input_files[f], images'[meta.current][f])
  <2>1. f \in stale \/ Tells(meta.input_files[f], images[meta.current][f])
    BY <1>1 DEF DockerTells
  <2>2. images'[meta.current] = images[meta.current]
    BY <1>1
  <2> QED
    BY <2>1, <2>2
<1> QED
  BY <1>1 DEF DockerTells, Tells

\* A whole dictionary is written and the command is over: what it says has to be
\* true of the image it names.
LEMMA DockerWrites ==
  ASSUME meta'.initial # 0, pc' \notin DockerPcs,
         \A f \in IoFiles : f \in stale' \/ Tells(meta'.input_files[f], images'[meta'.current][f])
  PROVE  DockerTells'
BY DEF DockerTells, DockerPcs, Tells

LEMMA NoneAtZero == 0 \notin ImageIds
BY DEF ImageIds

LEMMA TellDocker ==
  ASSUME WholeInv, WholeInv', DockerTells, RunWrites, DockerNext
  PROVE  DockerTells'
<1>0. /\ DictInv /\ LocInv /\ Owners /\ ShelfInv /\ ImageInv /\ SharedTypes /\ DockerTypeOK
      /\ images = [i \in ImageIds |-> images[i]]
  <2>1. /\ DictInv /\ LocInv /\ Owners /\ ShelfInv /\ ImageInv /\ HomeInv
    BY DEF WholeInv
  <2> QED
    BY <2>1 DEF ImageInv, HomeInv, TypesInv
<1>1. DictInv' /\ ShelfInv' /\ ImageInv' /\ HomeInv'
  BY DEF WholeInv
<1>2. NoMeta.unpacker = "none"
  BY DEF NoMeta
<1>3. pc \in DockerPcs => /\ dct \in Meta /\ meta \in Meta /\ meta.unpacker = "docker" /\ dct.unpacker = "docker"
                          /\ pc # "docker built" => dct.initial = meta.initial /\ meta.initial # 0
  BY <1>0, DictTyped DEF DictInv, ImageInv, ShelfInv
<1>4. UNCHANGED images => (Exists(meta.current) <=> meta.current \in ImageIds /\ images'[meta.current] # NoImage)
  BY DEF Exists
<1> USE DEF DockerPcs
<1>5. CASE DockerCreate
  <2>1. CASE LeftBehind /\ Continue("idle") /\ UNCHANGED dockerfile
    <3>1. meta' = meta /\ meta = NoMeta /\ pc' = "idle"
      BY <1>0, <1>5, <2>1 DEF DockerCreate, CanSetUp, Idle, LeftBehind, Continue, DictInv
    <3> QED
      BY <1>2, <3>1 DEF DockerTells
  <2>2. ASSUME NEW install \in BOOLEAN, Unpacked(NewMeta("docker"), DataTgz), dockerfile' = Recipe(install),
               pc' \in {"idle", "docker build"}
        PROVE  DockerTells'
    <3>1. /\ meta'.current = 0 /\ meta'.unpacker = "docker" /\ meta'.input_files = metadata_initial_iofiles
          /\ stale' = {f \in IoFiles : Origin[f] = "unpacked"}
      BY <2>2 DEF Unpacked, NewMeta
    <3>2. ASSUME NEW f \in IoFiles PROVE f \in stale' \/ Tells(meta'.input_files[f], dockerfile'[f])
      BY <2>2, <3>1, UnpackedTold
    <3>3. ~Exists(meta.current)'
      BY <3>1, NoneAtZero DEF Exists
    <3>4. \A f \in IoFiles : (f \in stale \/ Tells(meta.input_files[f], dockerfile[f]))'
      BY <3>2 DEF Tells
    <3> QED
      BY <2>2, <3>3, <3>4 DEF DockerTells
  <2> QED
    BY <1>5, <2>1, <2>2 DEF DockerCreate, Call, Continue
<1>6. CASE DockerBuild
  <2>1. meta.unpacker = "docker" /\ meta.initial = 0 /\ meta.current = 0 /\ pc \in {"idle", "docker build"}
    BY <1>0, <1>6 DEF DockerBuild, Reads, Idle, DictInv, ImageInv, ShelfInv
  <2>2. CASE meta' = NoMeta /\ pc' = "idle"
    BY <1>2, <2>2 DEF DockerTells
  <2>3. CASE UNCHANGED <<meta, dockerfile, stale, destroyed>> /\ dct' = meta /\ pc' = "docker built"
    <3>1. ~Exists(meta.current)'
      BY <2>1, <2>3, NoneAtZero DEF Exists
    <3> QED
      BY <2>1, <2>3, <3>1, DockerGoes DEF DockerTells, Tells
  <2>4. CASE UNCHANGED <<meta, dockerfile, stale, destroyed, images>> /\ pc' = "idle"
    BY <1>4, <2>1, <2>4, DockerLeaves DEF Exists
  <2> QED
    BY <1>6, <2>2, <2>3, <2>4 DEF DockerBuild, Call, Return, RmTree
<1>7. CASE DockerReset
  <2>1. /\ pc = "idle" /\ pc' = "docker reset" /\ UNCHANGED <<meta, dockerfile, stale, destroyed>>
        /\ meta.unpacker = "docker" /\ meta.initial # 0
        /\ dct' = [meta EXCEPT !.current = meta.initial] /\ loc' = [NoLoc EXCEPT !.wrote = IoFiles]
    BY <1>7 DEF DockerReset, Reads, Idle, Call
  <2>2. loc'.wrote = IoFiles
    BY <2>1 DEF NoLoc
  <2>3. dct'.input_files = meta.input_files
    BY <1>0, <2>1, DictTyped DEF Meta
  <2> QED
    BY <2>1, <2>2, <2>3 DEF DockerTells
<1>8. CASE DockerRun \/ DockerUpload
  <2>1. /\ pc = "idle" /\ dct' = meta /\ UNCHANGED <<meta, dockerfile, stale, destroyed, images>>
    BY <1>8 DEF DockerRun, DockerUpload, Reads, Idle, Call, dockerVars
  <2>2. /\ pc' \in {"docker run", "docker upload"} /\ (pc' = "docker upload" => DOMAIN loc'.staged = {})
    <3>1. CASE DockerRun
      BY <3>1 DEF DockerRun, Call
    <3>2. CASE DockerUpload
      <4>1. PICK specs : loc' = [NoLoc EXCEPT !.specs = specs, !.image = meta.current]
        BY <3>2 DEF DockerUpload, Call
      <4>2. loc'.staged = <<>>
        BY <4>1 DEF NoLoc
      <4>3. pc' = "docker upload"
        BY <3>2 DEF DockerUpload, Call
      <4>4. DOMAIN loc'.staged = {}
        BY <4>2
      <4> QED
        BY <4>3, <4>4
    <3> QED
      BY <1>8, <3>1, <3>2
  <2>3. Exists(meta.current)' => Exists(meta.current) /\ images'[meta.current] = images[meta.current]
    BY <1>4, <2>1 DEF Exists
  <2>4. pc' \in {"docker run", "docker upload"} /\ dct'.input_files = meta'.input_files
    BY <2>1, <2>2
  <2>5. pc' = "docker upload" => DOMAIN loc'.staged = {}
    BY <2>2
  <2> QED
    BY <2>1, <2>3, <2>4, <2>5, DockerGoes DEF DockerTells, Tells
<1>9. CASE DockerRunDetached \/ UserRemovesBox
  <2>1. pc = "idle" /\ UNCHANGED <<pc, meta, dockerfile, stale, destroyed, images>>
    BY <1>9 DEF DockerRunDetached, UserRemovesBox, Reads, Idle, sharedVars
  <2> QED
    BY <1>4, <2>1, DockerLeaves DEF Exists
<1>10. CASE DockerDownload \/ DockerDownloadDone
  <2>1. /\ pc \in {"idle", "docker cp"} /\ pc' \in {"idle", "docker cp"}
        /\ UNCHANGED <<meta, dockerfile, stale, destroyed, images>>
    BY <1>10 DEF DockerDownload, DockerDownloadDone, Reads, Idle, Call, Return
  <2> QED
    BY <1>4, <2>1, DockerLeaves DEF Exists
<1>11. CASE DockerDestroy \/ DockerDestroyInitial
  <2>1. /\ destroyed' /\ pc' \notin DockerPcs /\ pc \in {"idle", "docker destroy"}
        /\ UNCHANGED <<meta, stale, dockerfile>>
    BY <1>0, <1>11 DEF DockerDestroy, DockerDestroyInitial, Reads, Idle, Call, Continue, Return, ImageInv
  <2> QED
    BY <2>1 DEF DockerTells
<1>12. CASE DockerDestroyDir
  BY <1>2, <1>12 DEF DockerDestroyDir, RmTree, Return, Call, DockerTells
<1>13. CASE Crash({"docker"}) /\ UNCHANGED dockerVars
  <2>1. /\ pc' = "idle" /\ stale' = stale \cup loc.wrote
        /\ UNCHANGED <<meta, dockerfile, destroyed, images>>
    BY <1>13 DEF Crash, Return, Call, dockerVars
  <2> QED
    BY <1>4, <2>1, DockerLeaves DEF Exists
<1>14. CASE DockerStep
  <2>1. CASE DockerBuilt
    <3>1. /\ pc = "docker built" /\ meta' = [dct EXCEPT !.initial = loc.image, !.current = loc.image]
          /\ pc' = "idle" /\ UNCHANGED <<dockerfile, stale, images>>
      BY <2>1 DEF DockerBuilt, Writes, Return, Call, dockerVars
    <3>2. /\ meta'.initial = loc.image /\ meta'.current = loc.image /\ meta'.input_files = dct.input_files
      BY <1>3, <3>1 DEF Meta
    <3>3. /\ meta.initial = 0 /\ images[loc.image] = dockerfile /\ loc.image # 0
          /\ dct.input_files = meta.input_files /\ meta.unpacker = "docker"
      <4>1. meta.initial = 0 /\ Exists(loc.image) /\ images[loc.image] = dockerfile
        BY <1>0, <3>1 DEF ImageInv
      <4>2. dct.input_files = meta.input_files
        BY <3>1 DEF DockerTells
      <4>3. loc.image # 0
        BY <4>1, NoneAtZero DEF Exists
      <4> QED
        BY <1>3, <3>1, <4>1, <4>2, <4>3
    <3>4. \A f \in IoFiles : f \in stale \/ Tells(meta.input_files[f], dockerfile[f])
      BY <3>3 DEF DockerTells
    <3>5. \A f \in IoFiles : f \in stale' \/ Tells(meta'.input_files[f], images'[meta'.current][f])
      BY <3>1, <3>2, <3>3, <3>4
    <3> QED
      BY <3>1, <3>2, <3>3, <3>5, DockerWrites
  <2>2. CASE DockerResetDone
    <3>1. pc = "docker reset" /\ meta' = dct /\ pc' = "idle" /\ stale' = IoFiles
      BY <2>2 DEF DockerResetDone, Writes, Return, Call
    <3>2. dct.initial # 0
      BY <1>3, <3>1
    <3> QED
      BY <3>1, <3>2, DockerWrites
  <2>3. CASE DockerRunFails
    <3>1. pc = "docker run" /\ pc' = "idle" /\ UNCHANGED <<meta, dockerfile, stale, destroyed, images>>
      BY <2>3 DEF DockerRunFails, Return, Call
    <3> QED
      BY <1>4, <3>1, DockerLeaves DEF Exists
  <2>4. CASE DockerRunExits
    <3>1. /\ pc = "docker run" /\ pc' = "docker commit" /\ dct' = dct
          /\ UNCHANGED <<meta, dockerfile, stale, destroyed, images>>
      BY <2>4 DEF DockerRunExits, Call
    <3> QED
      BY <1>4, <3>1, DockerGoes DEF DockerTells, Exists
  <2>5. CASE DockerCommit
    <3>1. /\ pc = "docker commit" /\ UNCHANGED <<meta, dockerfile, stale, destroyed>>
          /\ \/ UNCHANGED images /\ pc' = "idle"
             \/ /\ NewImage(boxes[loc.box].fs) /\ pc' = "docker record"
                /\ \E i : dct' = [dct EXCEPT !.current = i]
      BY <2>5 DEF DockerCommit, Return, Call
    <3>2. Exists(meta.current)
      BY <1>0, <3>1 DEF ShelfInv, BoxPcs
    <3>3. images'[meta.current] = images[meta.current]
      BY <1>0, <3>1, <3>2, NewImageKeeps DEF Exists
    <3>4. CASE pc' = "idle"
      BY <3>1, <3>2, <3>3, <3>4, DockerLeaves
    <3>5. CASE pc' = "docker record"
      <4>1. dct'.input_files = dct.input_files
        BY <1>3, <3>1, <3>5 DEF Meta
      <4> QED
        BY <3>1, <3>2, <3>3, <3>5, <4>1, DockerGoes DEF DockerTells
    <3> QED
      BY <3>1, <3>4, <3>5
  <2>6. CASE DockerRecord
    <3>1. /\ pc = "docker record" /\ pc' = "docker rm" /\ meta' = dct
          /\ UNCHANGED <<dct, loc, dockerfile, stale, destroyed, images>>
      BY <2>6 DEF DockerRecord, Writes, Continue, dockerVars
    <3>2. /\ Exists(meta.current) /\ dct.input_files = meta.input_files /\ dct.initial # 0
          /\ meta.unpacker = "docker"
          /\ images[dct.current] = [f \in IoFiles |-> IF f \in loc.wrote THEN "generated"
                                                                        ELSE images[meta.current][f]]
      BY <1>0, <1>3, <3>1 DEF ShelfInv, DockerTells, BoxPcs
    <3>3. \A f \in IoFiles : destroyed \/ f \in stale \/ Tells(meta.input_files[f], images[meta.current][f])
      BY <3>1, <3>2 DEF DockerTells
    <3>4. \A f \in IoFiles : f \in loc.wrote => images'[meta'.current][f] = "generated"
      BY <3>1, <3>2
    <3>5. \A f \in IoFiles : destroyed' \/ f \in stale' \/ f \in loc'.wrote
                             \/ Tells(meta'.input_files[f], images'[meta'.current][f])
      BY <3>1, <3>2, <3>3
    <3>6. loc.wrote \subseteq IoFiles
      BY <1>0 DEF SharedTypes, Locals
    <3> QED
      BY <3>1, <3>2, <3>4, <3>5, <3>6 DEF DockerTells, Tells
  <2>7. CASE DockerRm
    <3>1. /\ pc = "docker rm" /\ pc' \in {"docker rmi", "docker status"}
          /\ UNCHANGED <<meta, dct, loc, dockerfile, stale, destroyed, images>>
      BY <2>7 DEF DockerRm, Continue
    <3> QED
      BY <1>4, <3>1 DEF DockerTells, Exists, Tells, ImageIds, NoImage
  <2>8. CASE DockerUntag
    <3>1. /\ pc = "docker rmi" /\ (Rmi(loc.image) \/ RmiFails(loc.image)) /\ UNCHANGED <<meta, dockerfile, destroyed>>
          /\ \/ pc' = "docker status" /\ UNCHANGED <<dct, loc, stale>>
             \/ pc' = "idle" /\ stale' = stale \cup loc.wrote
      BY <2>8 DEF DockerUntag, Continue, Return, Call
    <3>2. loc.image # meta.current
      BY <1>0, <3>1 DEF ShelfInv
    <3>3. Exists(meta.current)' => Exists(meta.current) /\ images'[meta.current] = images[meta.current]
      BY <1>0, <3>1, <3>2, RmiShelf DEF Exists, ImageIds, NoImage
    <3>4. CASE pc' = "idle"
      BY <3>1, <3>3, <3>4, DockerLeaves
    <3>5. CASE pc' = "docker status"
      <4>1. ASSUME meta.unpacker = "docker", Exists(meta.current)', ~destroyed, NEW f \in IoFiles
            PROVE  f \in stale \/ f \in loc.wrote \/ Tells(meta.input_files[f], images'[meta.current][f])
        <5>1. f \in stale \/ f \in loc.wrote \/ Tells(meta.input_files[f], images[meta.current][f])
          BY <3>1, <3>3, <4>1 DEF DockerTells
        <5> QED
          BY <3>3, <4>1, <5>1
      <4>2. ASSUME Exists(meta.current)', NEW f \in loc.wrote PROVE images'[meta.current][f] = "generated"
        BY <3>1, <3>3, <4>2 DEF DockerTells
      <4>3. meta.initial # 0
        BY <1>3, <3>1
      <4>4. UNCHANGED <<meta, loc, stale, destroyed>>
        BY <3>1, <3>5
      <4> QED
        BY <3>5, <4>1, <4>2, <4>3, <4>4 DEF DockerTells, Tells
    <3> QED
      BY <3>1, <3>4, <3>5
  <2>9. CASE DockerRunDone
    <3>1. /\ pc = "docker status" /\ pc' = "idle"
          /\ meta' = [dct EXCEPT !.input_files = metadata_update_run(@, loc.runs)]
          /\ stale' = (stale \ OutputsOf(loc.runs)) \cup (OutputsOf(loc.runs) \ loc.wrote)
          /\ UNCHANGED <<images, destroyed>>
      BY <2>9 DEF DockerRunDone, Writes, Return, Call, dockerVars
    <3>2. dct = meta /\ meta.initial # 0 /\ dct \in Meta /\ meta.unpacker = "docker"
      BY <1>0, <1>3, <3>1 DEF ShelfInv
    <3>3. PICK files : files = metadata_update_run(meta.input_files, loc.runs)
      OBVIOUS
    <3>4. /\ meta'.input_files = files /\ meta'.initial = meta.initial /\ meta'.current = meta.current
          /\ meta'.unpacker = "docker"
      BY <3>1, <3>2, <3>3 DEF Meta
    <3>5. ASSUME Exists(meta.current)', ~destroyed', NEW f \in IoFiles
          PROVE  f \in stale' \/ Tells(files[f], images'[meta.current][f])
      <4>1. Exists(meta.current)
        BY <3>1, <3>4, <3>5 DEF Exists, ImageIds, NoImage
      <4>2. f \in stale \/ f \in loc.wrote \/ Tells(meta.input_files[f], images[meta.current][f])
        BY <3>1, <3>2, <3>5, <4>1 DEF DockerTells
      <4>3. f \in loc.wrote => images[meta.current][f] = "generated"
        BY <3>1, <4>1 DEF DockerTells
      <4>4. CASE f \in OutputsOf(loc.runs)
        BY <3>1, <3>3, <4>3, <4>4, RunTold
      <4>5. CASE f \notin OutputsOf(loc.runs) /\ f \notin loc.wrote
        BY <3>1, <3>3, <4>2, <4>5, RunTold
      <4>6. CASE f \notin OutputsOf(loc.runs) /\ f \in loc.wrote
        BY <3>1, <4>6 DEF RunWrites
      <4> QED
        BY <4>4, <4>5, <4>6
    <3> QED
      BY <3>1, <3>2, <3>4, <3>5 DEF DockerTells, Tells
  <2>10. CASE DockerUploadFile
    <3>1. /\ pc = "docker upload" /\ pc' = "docker upload" /\ loc.specs # <<>>
          /\ UNCHANGED <<meta, dockerfile, stale, destroyed, images>>
      BY <2>10 DEF DockerUploadFile, Call, dockerVars
    <3>2. PICK s : s = Head(loc.specs)
      OBVIOUS
    <3>3. s \in Spec_ /\ loc \in Locals
      BY <1>0, <3>1, <3>2, SpecsGoOn DEF SharedTypes, Locals
    <3>4. ASSUME NEW f \in IoFiles
          PROVE  /\ f \in DOMAIN loc.staged => f \in loc.told \/ Tells(dct.input_files[f], loc.staged[f])
                 /\ f \notin DOMAIN loc.staged => dct.input_files[f] = meta.input_files[f]
      BY <3>1 DEF DockerTells
    <3>5. CASE /\ SpecOutcome(s) = "put" /\ dct' = [dct EXCEPT !.input_files = StatusAfter(@, s)]
               /\ loc' = [loc EXCEPT !.specs = Tail(@), !.staged = Overlay(s.name, Uploaded(s), @),
                                     !.told = StaleAfter(@, s)]
      <4>1. PICK files, staged, told : /\ files = StatusAfter(dct.input_files, s)
                                       /\ staged = Overlay(s.name, Uploaded(s), loc.staged)
                                       /\ told = StaleAfter(loc.told, s)
        OBVIOUS
      <4>2. dct'.input_files = files /\ loc'.staged = staged /\ loc'.told = told
        BY <1>3, <3>1, <3>3, <3>5, <4>1 DEF Meta, Locals
      <4>3. dct.input_files \in [IoFiles -> Status]
        BY <1>3, <3>1, MetaTyped
      <4>4. /\ DOMAIN staged = DOMAIN loc.staged \cup {s.name} /\ staged[s.name] = Uploaded(s)
            /\ \A f \in DOMAIN loc.staged : f # s.name => staged[f] = loc.staged[f]
        BY <4>1 DEF Overlay
      <4>5. ASSUME NEW f \in IoFiles
            PROVE  /\ f \in DOMAIN staged => f \in told \/ Tells(files[f], staged[f])
                   /\ f \notin DOMAIN staged => files[f] = meta.input_files[f]
        BY <1>0, <3>3, <3>4, <3>5, <4>1, <4>3, <4>4, UploadTold
      <4> QED
        BY <1>4, <3>1, <4>2, <4>5, DockerGoes DEF DockerTells, Exists, Tells
    <3>6. CASE dct' = dct /\ \E specs \in {Tail(loc.specs), <<>>} : loc' = [loc EXCEPT !.specs = specs]
      <4>1. loc'.staged = loc.staged /\ loc'.told = loc.told
        BY <3>3, <3>6 DEF Locals
      <4> QED
        BY <1>4, <3>1, <3>4, <3>6, <4>1, DockerGoes DEF DockerTells, Exists, Tells
    <3> QED
      BY <2>10, <3>2, <3>5, <3>6 DEF DockerUploadFile, Call
  <2>11. CASE DockerUploadBuild
    <3>1. pc = "docker upload" /\ UNCHANGED <<dockerfile, destroyed>>
      BY <2>11 DEF DockerUploadBuild
    <3>2. /\ dct \in Meta /\ dct.current = meta.current /\ loc.image = meta.current /\ meta.initial # 0
          /\ dct.initial = meta.initial /\ dct.unpacker = "docker" /\ meta.unpacker = "docker"
      BY <1>0, <1>3, <3>1 DEF ShelfInv
    <3>3. ASSUME NEW f \in IoFiles
          PROVE  /\ f \in DOMAIN loc.staged => f \in loc.told \/ Tells(dct.input_files[f], loc.staged[f])
                 /\ f \notin DOMAIN loc.staged => dct.input_files[f] = meta.input_files[f]
      BY <3>1 DEF DockerTells
    <3>4. ASSUME Exists(meta.current), ~destroyed, NEW f \in IoFiles
          PROVE  f \in stale \/ Tells(meta.input_files[f], images[meta.current][f])
      BY <3>1, <3>2, <3>4 DEF DockerTells
    <3>5. CASE meta' = dct /\ pc' = "idle" /\ UNCHANGED images /\ stale \cup DOMAIN loc.staged \subseteq stale'
      <4>1. ASSUME Exists(meta.current)', ~destroyed', NEW f \in IoFiles
            PROVE  f \in stale' \/ Tells(dct.input_files[f], images[meta.current][f])
        <5>1. Exists(meta.current) /\ ~destroyed
          BY <3>1, <3>2, <3>5, <4>1 DEF Exists, ImageIds, NoImage
        <5> QED
          BY <3>3, <3>4, <3>5, <5>1
      <4> QED
        BY <3>2, <3>5, <4>1 DEF DockerTells, Tells
    <3>6. CASE /\ Exists(loc.image) /\ UNCHANGED <<meta, stale>> /\ loc' = loc
               /\ NewImage([f \in IoFiles |-> IF f \in DOMAIN loc.staged THEN loc.staged[f]
                                                                       ELSE images[loc.image][f]])
               /\ dct' = [dct EXCEPT !.current = Least(FreshImages)]
               /\ pc' \in {"docker upload rmi", "docker upload record"}
      <4>1. PICK n : n = Least(FreshImages)
        OBVIOUS
      <4>2. dct'.current = n /\ dct'.input_files = dct.input_files
        BY <3>2, <3>6, <4>1 DEF Meta
      <4>3. /\ images'[meta.current] = images[meta.current]
            /\ images'[n] = [f \in IoFiles |-> IF f \in DOMAIN loc.staged THEN loc.staged[f]
                                                                        ELSE images[meta.current][f]]
        BY <1>0, <3>2, <3>6, <4>1, NewImageKeeps DEF Exists
      <4>4. ASSUME ~destroyed', NEW f \in IoFiles
            PROVE  \/ f \in stale \ DOMAIN loc.staged
                   \/ f \in loc.told
                   \/ Tells(dct.input_files[f], images'[n][f])
        <5>1. CASE f \in DOMAIN loc.staged
          <6>1. images'[n][f] = loc.staged[f]
            BY <4>3, <5>1
          <6> QED
            BY <3>3, <5>1, <6>1
        <5>2. CASE f \notin DOMAIN loc.staged
          <6>1. images'[n][f] = images[meta.current][f]
            BY <4>3, <5>2
          <6> QED
            BY <3>1, <3>2, <3>3, <3>4, <3>6, <4>4, <5>2, <6>1
        <5> QED
          BY <5>1, <5>2
      <4> QED
        BY <3>1, <3>2, <3>6, <4>2, <4>3, <4>4, DockerGoes DEF DockerTells, Tells
    <3>7. CASE loc.staged = <<>> /\ Writes(dct) /\ Return /\ UNCHANGED <<images, stale>>
      BY <3>5, <3>7 DEF Writes, Return, Call
    <3>8. CASE Writes(dct) /\ Return /\ UNCHANGED images /\ stale' = stale \cup DOMAIN loc.staged
      BY <3>5, <3>8 DEF Writes, Return, Call
    <3> QED
      BY <2>11, <3>6, <3>7, <3>8 DEF DockerUploadBuild, Call
  <2>12. CASE DockerUploadUntag
    <3>1. /\ pc = "docker upload rmi" /\ (Rmi(loc.image) \/ RmiFails(loc.image)) /\ pc' = "docker upload record"
          /\ UNCHANGED <<meta, dct, loc, stale, dockerfile, destroyed>>
      BY <2>12 DEF DockerUploadUntag, Continue
    <3>2. Exists(meta.current) /\ Exists(dct.current) /\ dct.current # meta.current /\ loc.image = meta.current
      BY <1>0, <3>1 DEF ShelfInv
    <3>3. /\ images'[dct.current] = images[dct.current]
          /\ Exists(meta.current)' => images'[meta.current] = images[meta.current]
      BY <1>0, <3>1, <3>2, RmiShelf DEF Exists
    <3>4. ASSUME ~destroyed, NEW f \in IoFiles
          PROVE  \/ f \in stale \ DOMAIN loc.staged
                 \/ f \in loc.told
                 \/ Tells(dct.input_files[f], images[dct.current][f])
      BY <3>1, <3>4 DEF DockerTells
    <3> QED
      BY <3>1, <3>2, <3>3, <3>4, DockerGoes DEF DockerTells, Tells
  <2>13. CASE DockerUploadDone
    <3>1. /\ pc = "docker upload record" /\ pc' = "idle" /\ meta' = dct
          /\ stale' = (stale \ DOMAIN loc.staged) \cup loc.told /\ UNCHANGED <<images, destroyed>>
      BY <2>13 DEF DockerUploadDone, Writes, Return, Call, dockerVars
    <3>2. dct.initial # 0 /\ dct.unpacker = "docker"
      BY <1>3, <3>1
    <3>3. ASSUME ~destroyed, NEW f \in IoFiles
          PROVE  \/ f \in stale \ DOMAIN loc.staged
                 \/ f \in loc.told
                 \/ Tells(dct.input_files[f], images[dct.current][f])
      BY <3>1, <3>3 DEF DockerTells
    <3> QED
      BY <3>1, <3>2, <3>3 DEF DockerTells, Tells
  <2> QED
    BY <1>10, <1>11, <1>14, <2>1, <2>2, <2>3, <2>4, <2>5, <2>6, <2>7, <2>8, <2>9, <2>10, <2>11, <2>12, <2>13
       DEF DockerStep
<1> QED
  BY <1>5, <1>6, <1>7, <1>8, <1>9, <1>10, <1>11, <1>12, <1>13, <1>14 DEF DockerNext

WritePcs == {"docker commit", "docker record", "docker rm", "docker rmi", "docker status",
             "local status", "vagrant status"}

\* Only the end of a run starts to tell what it wrote.
LEMMA WritesDocker ==
  ASSUME RunWrites, LocInv, SharedTypes, DockerNext
  PROVE  RunWrites'
<1> USE DEF RunWrites
<1>1. ASSUME pc' \notin WritePcs PROVE RunWrites'
  BY <1>1 DEF WritePcs
<1>2. ASSUME pc \in WritePcs, UNCHANGED loc PROVE RunWrites'
  BY <1>2 DEF WritePcs
<1>3. CASE DockerCreate \/ DockerBuild \/ DockerReset \/ DockerRun \/ DockerUpload \/ DockerDownload \/ DockerDestroy
           \/ DockerDestroyDir \/ Crash({"docker"})
  <2>1. pc' \notin WritePcs
    BY <1>3 DEF DockerCreate, DockerBuild, DockerReset, DockerRun, DockerUpload, DockerDownload, DockerDestroy,
                DockerDestroyDir, Crash, Return, Call, Continue, WritePcs
  <2> QED
    BY <1>1, <2>1
<1>4. CASE DockerRunDetached \/ UserRemovesBox
  <2>1. pc' = pc /\ pc = "idle"
    BY <1>4 DEF DockerRunDetached, UserRemovesBox, Reads, Idle, sharedVars
  <2> QED
    BY <1>1, <2>1 DEF WritePcs
<1>5. CASE DockerBuilt \/ DockerResetDone \/ DockerRunFails \/ DockerRunDone \/ DockerUploadFile
           \/ DockerUploadBuild \/ DockerUploadUntag \/ DockerUploadDone \/ DockerDownloadDone
           \/ DockerDestroyInitial
  <2>1. pc' \notin WritePcs
    BY <1>5 DEF DockerBuilt, DockerResetDone, DockerRunFails, DockerRunDone, DockerUploadFile, DockerUploadBuild,
                DockerUploadUntag, DockerUploadDone, DockerDownloadDone, DockerDestroyInitial, Return, Call,
                Continue, WritePcs
  <2> QED
    BY <1>1, <2>1
<1>6. CASE DockerRunExits
  <2>1. PICK wrote \in SUBSET OutputsOf(loc.runs) : loc' = [loc EXCEPT !.wrote = wrote]
    BY <1>6 DEF DockerRunExits, Call
  <2>2. loc'.wrote = wrote /\ loc'.runs = loc.runs
    BY <2>1 DEF SharedTypes, Locals
  <2> QED
    BY <2>1, <2>2
<1>7. CASE DockerCommit
  <2>1. pc = "docker commit" /\ (pc' = "idle" \/ (pc' = "docker record" /\ loc' = loc))
    BY <1>7 DEF DockerCommit, Return, Call
  <2> QED
    BY <1>1, <1>2, <2>1 DEF WritePcs
<1>8. CASE DockerRecord \/ DockerRm
  <2>1. pc \in WritePcs /\ loc' = loc
    BY <1>8 DEF DockerRecord, DockerRm, Continue, WritePcs
  <2> QED
    BY <1>2, <2>1
<1>9. CASE DockerUntag
  <2>1. pc \in WritePcs /\ (loc' = loc \/ pc' = "idle")
    BY <1>9 DEF DockerUntag, Continue, Return, Call, WritePcs
  <2>2. pc' = "idle" => pc' \notin WritePcs
    BY DEF WritePcs
  <2> QED
    BY <1>1, <1>2, <2>1, <2>2
<1> QED
  BY <1>3, <1>4, <1>5, <1>6, <1>7, <1>8, <1>9 DEF DockerNext, DockerStep

LEMMA WritesLocal ==
  ASSUME RunWrites, LocInv, SharedTypes, LocalNext
  PROVE  RunWrites'
<1> USE DEF RunWrites
<1>1. ASSUME pc' \notin WritePcs PROVE RunWrites'
  BY <1>1 DEF WritePcs
<1>2. CASE LocalCreate \/ LocalRun \/ LocalUpload \/ ChrootMount \/ ChrootUnmount \/ LocalDestroyDir
           \/ LocalCrash \/ Reboot
  <2>1. pc' \notin WritePcs
    BY <1>2 DEF LocalCreate, LocalRun, LocalUpload, ChrootMount, ChrootUnmount, LocalDestroyDir, LocalCrash, Reboot,
                CanSetUp, Idle, Crash, Return, Call, Continue, WritePcs
  <2> QED
    BY <1>1, <2>1
<1>3. CASE LocalRunDone \/ LocalUploadFile \/ LocalUploadDone \/ ChrootMounted \/ ChrootUnmounted
  <2>1. pc' \notin WritePcs
    BY <1>3 DEF LocalRunDone, LocalUploadFile, LocalUploadDone, ChrootMounted, ChrootUnmounted,
                Return, Call, Continue, WritePcs
  <2> QED
    BY <1>1, <2>1
<1>4. CASE (\E p \in Points : ChrootMountPoint(p)) \/ (\E d \in {"dev", "proc"} : ChrootUmountPoint(d))
  <2>1. pc' \notin WritePcs
    BY <1>4 DEF ChrootMountPoint, ChrootUmountPoint, Next_, Points, Return, Call, Continue, WritePcs
  <2> QED
    BY <1>1, <2>1
<1>5. CASE LocalRunExits
  <2>1. PICK wrote \in SUBSET OutputsOf(loc.runs) : loc' = [loc EXCEPT !.wrote = wrote]
    BY <1>5 DEF LocalRunExits, Call
  <2>2. loc'.wrote = wrote /\ loc'.runs = loc.runs
    BY <2>1 DEF SharedTypes, Locals
  <2> QED
    BY <2>1, <2>2
<1> QED
  BY <1>2, <1>3, <1>4, <1>5 DEF LocalNext, LocalStep

LEMMA WritesVagrant ==
  ASSUME RunWrites, LocInv, DictInv, SharedTypes, VagrantNext
  PROVE  RunWrites'
<1> USE DEF RunWrites
<1>1. ASSUME pc' \notin WritePcs PROVE RunWrites'
  BY <1>1 DEF WritePcs
<1>2. CASE VagrantCreate \/ VagrantStart \/ VagrantDownload \/ VagrantRun \/ VagrantUpload \/ VagrantDestroyVm
           \/ VagrantDestroyDir \/ VmPowerOff \/ VagrantSuspend \/ Crash({"vagrant"})
  <2>1. pc' \notin WritePcs
    BY <1>2 DEF VagrantCreate, VagrantStart, VagrantDownload, VagrantRun, VagrantUpload, VagrantCommand,
                VagrantDestroyVm, VagrantDestroyDir, VmPowerOff, VagrantSuspend, Reads, CanSetUp, Idle, Crash,
                Return, Call, Continue, WritePcs, sharedVars
  <2> QED
    BY <1>1, <2>1
<1>3. CASE VagrantUp \/ VagrantRunDone \/ VagrantUploadFile \/ VagrantUploadDone
  <2>1. pc' \notin WritePcs
    BY <1>3 DEF VagrantUp, VagrantRunDone, VagrantUploadFile, VagrantUploadDone, Return, Call, WritePcs
  <2> QED
    BY <1>1, <2>1
<1>4. CASE VagrantMachineReady
  <2>1. pc = "vagrant ssh" /\ (pc' = "idle" \/ pc' = loc.then)
    BY <1>4 DEF VagrantMachineReady, Return, Call, Continue
  <2>2. loc.then \in {"idle", "vagrant run", "vagrant upload"}
    BY <2>1 DEF DictInv
  <2> QED
    BY <1>1, <2>1, <2>2 DEF WritePcs
<1>5. CASE VagrantRunExits
  <2>1. PICK wrote \in SUBSET OutputsOf(loc.runs) :
           pc' = "idle" \/ loc' = [loc EXCEPT !.wrote = wrote]
    BY <1>5 DEF VagrantRunExits, Call, Return
  <2>2. loc' = [loc EXCEPT !.wrote = wrote] => loc'.wrote = wrote /\ loc'.runs = loc.runs
    BY <2>1 DEF SharedTypes, Locals
  <2> QED
    BY <2>1, <2>2
<1> QED
  BY <1>2, <1>3, <1>4, <1>5 DEF VagrantNext, VagrantStep
-----------------------------------------------------------------------------

\* A step that leaves the dictionary and the files alone, and after which no
\* command of the local unpackers is at work.
LEMMA LocalLeaves ==
  ASSUME LocalTells, UNCHANGED <<meta, fs>>, pc' \notin LocalPcs, stale \subseteq stale',
         pc \in {"local status", "local upload"} => loc.wrote \subseteq stale'
  PROVE  LocalTells'
<1>1. ASSUME meta.unpacker \in {"directory", "chroot"}, NEW f \in IoFiles
      PROVE  f \in stale' \/ Tells(meta.input_files[f], fs[f])
  <2>1. \/ f \in stale
        \/ pc \in {"local status", "local upload"} /\ f \in loc.wrote
        \/ Tells(meta.input_files[f], fs[f])
    BY <1>1 DEF LocalTells
  <2> QED
    BY <2>1
<1> QED
  BY <1>1 DEF LocalTells, LocalPcs, Tells

\* A command of the local unpackers goes on, the dictionary as it was.
LEMMA LocalGoes ==
  ASSUME LocalTells, UNCHANGED <<meta, fs, stale>>, pc' \in LocalPcs \ {"local status", "local upload"},
         pc \notin {"local status", "local upload"}, dct'.input_files = meta.input_files
  PROVE  LocalTells'
<1>1. ASSUME meta.unpacker \in {"directory", "chroot"}, NEW f \in IoFiles
      PROVE  f \in stale \/ Tells(meta.input_files[f], fs[f])
  BY <1>1 DEF LocalTells
<1> QED
  BY <1>1 DEF LocalTells, Tells

\* The dictionary is written and the command is over.
LEMMA LocalWrites ==
  ASSUME pc' \notin LocalPcs,
         \A f \in IoFiles : f \in stale' \/ Tells(meta'.input_files[f], fs'[f])
  PROVE  LocalTells'
BY DEF LocalTells, LocalPcs, Tells

LEMMA TellLocal ==
  ASSUME WholeInv, WholeInv', LocalTells, RunWrites, LocalNext
  PROVE  LocalTells'
<1>0. DictInv /\ SharedTypes /\ LocInv /\ Owners
  <2>1. DictInv /\ LocInv /\ Owners /\ HomeInv
    BY DEF WholeInv
  <2> QED
    BY <2>1 DEF HomeInv, TypesInv
<1>1. meta.unpacker \in {"directory", "chroot"} => fs \in World
  BY LocalSeen DEF LocalSight
<1>2. NoMeta.unpacker = "none"
  BY DEF NoMeta
<1>3. pc \in LocalPcs => /\ dct \in Meta /\ meta \in Meta /\ dct.unpacker = meta.unpacker
                         /\ meta.unpacker \in {"directory", "chroot"}
  BY <1>0, DictTyped DEF DictInv
<1>4. "idle" \notin LocalPcs /\ "rmtree" \notin LocalPcs
  BY DEF LocalPcs, MountPcs, UmountPcs
<1>5. \A pcs : pcs \in {"mount dev", "mount pts", "mount proc", "mounted", "umount dev", "umount proc",
                         "unmounted", "local run"} => pcs \in LocalPcs \ {"local status", "local upload"}
  BY DEF LocalPcs, MountPcs, UmountPcs
<1>6. CASE LocalCreate
  <2>1. CASE LeftBehind /\ Continue("idle") /\ UNCHANGED fs
    <3>1. meta' = meta /\ meta = NoMeta /\ pc' = "idle"
      BY <1>0, <1>6, <2>1 DEF LocalCreate, CanSetUp, LeftBehind, Continue, DictInv
    <3> QED
      BY <1>2, <1>4, <3>1 DEF LocalTells
  <2>2. ASSUME NEW type \in {"directory", "chroot"}, fs' = Extracted(type),
               Unpacked(NewMeta(type), InputsTar(Extracted(type))),
               \/ pc' = "mount dev" /\ dct' = NewMeta(type)
               \/ pc' = "idle"
        PROVE  LocalTells'
    <3>1. /\ meta' = NewMeta(type) /\ meta'.unpacker = type
          /\ meta'.input_files = metadata_initial_iofiles
      BY <2>2 DEF Unpacked, NewMeta
    <3>2. stale' = {f \in IoFiles : Origin[f] = "unpacked" /\ type # "directory"}
      BY <2>2 DEF Unpacked, NewMeta
    <3>3. ASSUME NEW f \in IoFiles PROVE f \in stale' \/ Tells(meta'.input_files[f], fs'[f])
      BY <2>2, <3>1, <3>2, UnpackedTold
    <3>4. pc' \in LocalPcs => dct'.input_files = meta'.input_files
      BY <1>4, <2>2, <3>1
    <3>5. pc' \notin {"local status", "local upload"}
      BY <2>2
    <3> QED
      BY <3>3, <3>4, <3>5 DEF LocalTells, Tells
  <2> QED
    BY <1>6, <2>1, <2>2 DEF LocalCreate, Call, Continue
<1>7. CASE LocalRun \/ ChrootMount
  <2>1. pc = "idle" /\ pc' \in {"local run", "mount dev"} /\ dct' = meta /\ UNCHANGED <<meta, fs, stale>>
    BY <1>7 DEF LocalRun, ChrootMount, Reads, Idle, Call, localVars
  <2> QED
    BY <1>5, <2>1, LocalGoes
<1>8. CASE LocalUpload
  <2>1. /\ pc = "idle" /\ pc' = "local upload" /\ dct' = meta /\ UNCHANGED <<meta, fs, stale>>
        /\ meta.unpacker \in {"directory", "chroot"}
        /\ \E specs : loc' = [NoLoc EXCEPT !.specs = specs]
    BY <1>8 DEF LocalUpload, Reads, Idle, Call, localVars
  <2>2. loc'.wrote = {}
    BY <2>1 DEF NoLoc
  <2>3. ASSUME NEW f \in IoFiles PROVE f \in stale \/ Tells(meta.input_files[f], fs[f])
    BY <2>1 DEF LocalTells
  <2> QED
    BY <2>1, <2>2, <2>3 DEF LocalTells, Tells
<1>9. CASE ChrootUnmount
  <2>1. pc = "idle" /\ UNCHANGED <<meta, fs, stale>>
    BY <1>9 DEF ChrootUnmount, Reads, Idle, localVars
  <2>2. \/ pc' = "umount dev" /\ dct' = meta
        \/ pc' = "rmtree"
    BY <1>9 DEF ChrootUnmount, Call
  <2>3. CASE pc' = "umount dev" /\ dct' = meta
    BY <1>5, <2>1, <2>3, LocalGoes
  <2>4. CASE pc' = "rmtree"
    BY <1>4, <2>1, <2>4, LocalLeaves
  <2> QED
    BY <2>2, <2>3, <2>4
<1>10. CASE LocalDestroyDir
  <2>1. pc' = "idle" /\ (meta' = NoMeta \/ stale' = IoFiles)
    BY <1>10 DEF LocalDestroyDir, RmTree, Return, Call
  <2> QED
    BY <1>2, <1>4, <2>1 DEF LocalTells
<1>11. CASE LocalCrash \/ Reboot
  <2>1. pc' = "idle" /\ stale' = stale \cup loc.wrote /\ UNCHANGED <<meta, fs>>
    BY <1>11 DEF LocalCrash, Reboot, Crash, Return, Call
  <2> QED
    BY <1>4, <2>1, LocalLeaves
<1>12. CASE LocalStep
  <2>1. CASE LocalRunExits
    <3>1. PICK wrote \in SUBSET OutputsOf(loc.runs) :
             /\ fs' = [f \in IoFiles |-> IF f \in wrote THEN "generated" ELSE fs[f]]
             /\ loc' = [loc EXCEPT !.wrote = wrote]
      BY <2>1 DEF LocalRunExits, Call
    <3>2. pc = "local run" /\ pc' = "local status" /\ dct' = dct /\ UNCHANGED <<meta, stale>>
      BY <2>1 DEF LocalRunExits, Call
    <3>3. loc'.wrote = wrote
      BY <1>0, <3>1 DEF SharedTypes, Locals
    <3>4. wrote \subseteq IoFiles
      BY <3>1, OutputsAreFiles
    <3>5. ASSUME NEW f \in IoFiles, f \notin wrote
          PROVE  f \in stale \/ Tells(meta.input_files[f], fs'[f])
      <4>1. fs'[f] = fs[f] /\ pc \in LocalPcs
        BY <3>1, <3>2, <3>5 DEF LocalPcs
      <4>2. f \in stale \/ Tells(meta.input_files[f], fs[f])
        BY <1>3, <3>2, <4>1 DEF LocalTells
      <4> QED
        BY <4>1, <4>2
    <3>6. \A f \in wrote : fs'[f] = "generated"
      BY <3>1, <3>4
    <3>7. dct'.input_files = meta'.input_files
      BY <3>2 DEF LocalTells, LocalPcs
    <3> QED
      BY <3>2, <3>3, <3>5, <3>6, <3>7 DEF LocalTells, Tells
  <2>2. CASE LocalRunDone
    <3>1. /\ pc = "local status" /\ pc' = "idle" /\ UNCHANGED fs
          /\ meta' = [dct EXCEPT !.input_files = metadata_update_run(@, loc.runs)]
          /\ stale' = (stale \ OutputsOf(loc.runs)) \cup (OutputsOf(loc.runs) \ loc.wrote)
      BY <2>2 DEF LocalRunDone, Writes, Return, Call, localVars
    <3>2. dct \in Meta /\ meta.unpacker \in {"directory", "chroot"}
      BY <1>3, <3>1 DEF LocalPcs
    <3>3. dct.input_files = meta.input_files
      BY <3>1 DEF LocalTells, LocalPcs
    <3>4. PICK files : files = metadata_update_run(meta.input_files, loc.runs)
      OBVIOUS
    <3>5. meta'.input_files = files
      BY <3>1, <3>2, <3>3, <3>4 DEF Meta
    <3>6. ASSUME NEW f \in IoFiles PROVE f \in stale' \/ Tells(files[f], fs[f])
      <4>1. f \in stale \/ f \in loc.wrote \/ Tells(meta.input_files[f], fs[f])
        BY <3>1, <3>2 DEF LocalTells
      <4>2. f \in loc.wrote => fs[f] = "generated" /\ f \in OutputsOf(loc.runs)
        BY <3>1 DEF LocalTells, RunWrites
      <4>3. CASE f \in OutputsOf(loc.runs)
        BY <3>1, <3>4, <4>2, <4>3, RunTold
      <4>4. CASE f \notin OutputsOf(loc.runs)
        BY <3>1, <3>4, <4>1, <4>2, <4>4, RunTold
      <4> QED
        BY <4>3, <4>4
    <3> QED
      BY <1>4, <3>1, <3>5, <3>6, LocalWrites
  <2>3. CASE LocalUploadFile
    <3>1. /\ pc = "local upload" /\ pc' = "local upload" /\ loc.specs # <<>> /\ UNCHANGED <<meta, stale>>
      BY <2>3 DEF LocalUploadFile, Call
    <3>2. PICK s : s = Head(loc.specs)
      OBVIOUS
    <3>3. s \in Spec_ /\ loc \in Locals
      BY <1>0, <3>1, <3>2, SpecsGoOn DEF SharedTypes, Locals
    <3>4. dct \in Meta /\ meta.unpacker \in {"directory", "chroot"} /\ fs \in World
      BY <1>1, <1>3, <3>1 DEF LocalPcs
    <3>5. ASSUME NEW f \in IoFiles
          PROVE  /\ f \in stale \/ f \in loc.wrote \/ Tells(meta.input_files[f], fs[f])
                 /\ f \in stale \ loc.wrote \/ f \in loc.told \/ Tells(dct.input_files[f], fs[f])
      BY <3>1, <3>4 DEF LocalTells
    <3>6. CASE /\ SpecOutcome(s) = "put" /\ fs' = [fs EXCEPT ![s.name] = Uploaded(s)]
               /\ dct' = [dct EXCEPT !.input_files = StatusAfter(@, s)]
               /\ loc' = [loc EXCEPT !.specs = Tail(@), !.wrote = @ \cup {s.name}, !.told = StaleAfter(@, s)]
      <4>1. PICK files, told, content : /\ files = StatusAfter(dct.input_files, s)
                                        /\ told = StaleAfter(loc.told, s) /\ content = Uploaded(s)
        OBVIOUS
      <4>2. dct'.input_files = files /\ loc'.told = told /\ loc'.wrote = loc.wrote \cup {s.name}
        BY <3>3, <3>4, <3>6, <4>1 DEF Meta, Locals
      <4>3. dct.input_files \in [IoFiles -> Status]
        BY <3>4, MetaTyped
      <4>4. /\ s.name \in IoFiles => fs'[s.name] = content
            /\ \A f \in IoFiles : f # s.name => fs'[f] = fs[f]
        BY <3>4, <3>6, <4>1 DEF World
      <4>5. ASSUME NEW f \in IoFiles
            PROVE  /\ f \in stale \/ f \in loc.wrote \cup {s.name} \/ Tells(meta.input_files[f], fs'[f])
                   /\ f \in stale \ (loc.wrote \cup {s.name}) \/ f \in told \/ Tells(files[f], fs'[f])
        <5>1. CASE f = s.name
          BY <1>0, <3>3, <3>6, <4>1, <4>3, <4>4, <5>1, UploadTold
        <5>2. CASE f # s.name
          <6>1. files[f] = dct.input_files[f] /\ (f \in loc.told => f \in told)
            BY <1>0, <3>3, <3>6, <4>1, <4>3, <5>2, UploadTold
          <6> QED
            BY <3>5, <4>4, <5>2, <6>1
        <5> QED
          BY <5>1, <5>2
      <4> QED
        BY <3>1, <4>2, <4>5 DEF LocalTells, Tells
    <3>7. CASE dct' = dct /\ fs' = fs /\ \E specs \in {Tail(loc.specs), <<>>} : loc' = [loc EXCEPT !.specs = specs]
      <4>1. loc'.wrote = loc.wrote /\ loc'.told = loc.told
        BY <3>3, <3>7 DEF Locals
      <4> QED
        BY <3>1, <3>5, <3>7, <4>1 DEF LocalTells, Tells
    <3> QED
      BY <2>3, <3>2, <3>6, <3>7 DEF LocalUploadFile, Call
  <2>4. CASE LocalUploadDone
    <3>1. /\ pc = "local upload" /\ pc' = "idle" /\ meta' = dct /\ UNCHANGED fs
          /\ stale' = (stale \ loc.wrote) \cup loc.told
      BY <2>4 DEF LocalUploadDone, Writes, Return, Call, localVars
    <3>2. ASSUME NEW f \in IoFiles
          PROVE  f \in stale \ loc.wrote \/ f \in loc.told \/ Tells(dct.input_files[f], fs[f])
      BY <3>1 DEF LocalTells
    <3> QED
      BY <1>4, <3>1, <3>2, LocalWrites
  <2>5. CASE ChrootMounted \/ ChrootUnmounted
    <3>1. /\ pc \in {"mounted", "unmounted"} /\ pc' \in {"idle", "rmtree"} /\ UNCHANGED <<fs, stale>>
          /\ \E m : meta' = [dct EXCEPT !.mounted = m]
      BY <2>5 DEF ChrootMounted, ChrootUnmounted, Writes, Return, Call, localVars
    <3>2. pc \in LocalPcs /\ pc \notin {"local status", "local upload"}
      BY <1>5, <3>1
    <3>3. meta'.input_files = meta.input_files
      BY <1>3, <3>1, <3>2 DEF Meta, LocalTells
    <3>4. ASSUME NEW f \in IoFiles PROVE f \in stale \/ Tells(meta.input_files[f], fs[f])
      BY <1>3, <3>2 DEF LocalTells
    <3> QED
      BY <1>4, <3>1, <3>3, <3>4, LocalWrites
  <2>6. CASE (\E p \in Points : ChrootMountPoint(p)) \/ (\E d \in {"dev", "proc"} : ChrootUmountPoint(d))
    <3>1. /\ pc \in {"mount dev", "mount pts", "mount proc", "umount dev", "umount proc"}
          /\ \/ pc' = "idle"
             \/ pc' \in {"mount pts", "mount proc", "mounted", "umount proc", "unmounted"} /\ dct' = dct
          /\ UNCHANGED <<meta, fs, stale>>
      BY <2>6 DEF ChrootMountPoint, ChrootUmountPoint, MountPc, Next_, Points, Return, Call, Continue
    <3>2. pc \in LocalPcs /\ pc \notin {"local status", "local upload"}
      BY <1>5, <3>1
    <3>3. CASE pc' = "idle"
      BY <1>4, <3>1, <3>2, <3>3, LocalLeaves
    <3>4. CASE pc' # "idle"
      <4>1. dct'.input_files = meta.input_files
        BY <3>1, <3>2, <3>4 DEF LocalTells
      <4> QED
        BY <1>5, <3>1, <3>2, <3>4, <4>1, LocalGoes
    <3> QED
      BY <3>3, <3>4
  <2> QED
    BY <1>12, <2>1, <2>2, <2>3, <2>4, <2>5, <2>6 DEF LocalStep
<1> QED
  BY <1>6, <1>7, <1>8, <1>9, <1>10, <1>11, <1>12 DEF LocalNext

\* A step that leaves the dictionary and the files of the machine alone, and
\* after which no command of Vagrant is at work.
LEMMA VagrantLeaves ==
  ASSUME VagrantTells, UNCHANGED meta, vm'.ready => vm.ready /\ vm'.fs = vm.fs, pc' \notin VagrantPcs,
         stale \subseteq stale',
         pc \in {"vagrant status", "vagrant upload"} => loc.wrote \subseteq stale'
  PROVE  VagrantTells'
<1>1. ASSUME meta.unpacker = "vagrant", vm'.ready, NEW f \in IoFiles
      PROVE  f \in stale' \/ Tells(meta.input_files[f], vm'.fs[f])
  <2>1. \/ f \in stale
        \/ pc \in {"vagrant status", "vagrant upload"} /\ f \in loc.wrote
        \/ Tells(meta.input_files[f], vm.fs[f])
    BY <1>1 DEF VagrantTells
  <2>2. vm'.fs = vm.fs
    BY <1>1
  <2> QED
    BY <2>1, <2>2
<1> QED
  BY <1>1 DEF VagrantTells, VagrantPcs, Tells

\* The dictionary is written and the command is over.
LEMMA VagrantWrites ==
  ASSUME pc' \notin VagrantPcs,
         vm'.ready => \A f \in IoFiles : f \in stale' \/ Tells(meta'.input_files[f], vm'.fs[f])
  PROVE  VagrantTells'
BY DEF VagrantTells, VagrantPcs, Tells

\* The upload of the next file.
LEMMA VagrantUploads ==
  ASSUME pc' = "vagrant upload",
         ASSUME vm'.ready, NEW f \in IoFiles
         PROVE  /\ f \in stale' \/ f \in loc'.wrote \/ Tells(meta'.input_files[f], vm'.fs[f])
                /\ f \in stale' \ loc'.wrote \/ f \in loc'.told \/ Tells(dct'.input_files[f], vm'.fs[f])
  PROVE  VagrantTells'
BY DEF VagrantTells, Tells

LEMMA TellVagrant ==
  ASSUME WholeInv, WholeInv', VagrantTells, RunWrites, VagrantNext
  PROVE  VagrantTells'
<1>0. DictInv /\ SharedTypes /\ LocInv /\ Owners /\ MachineInv /\ vm \in Machine
  <2>1. DictInv /\ LocInv /\ Owners /\ HomeInv
    BY DEF WholeInv
  <2> QED
    BY <2>1 DEF HomeInv, TypesInv, VagrantTypeOK
<1>1. vm = [state |-> vm.state, fs |-> vm.fs, ready |-> vm.ready, stack |-> vm.stack] /\ vm.fs \in World
  BY <1>0 DEF Machine
<1>2. NoMeta.unpacker = "none"
  BY DEF NoMeta
<1>3. pc \in VagrantPcs => /\ dct \in Meta /\ meta \in Meta /\ dct.unpacker = "vagrant"
                           /\ meta.unpacker = "vagrant"
  BY <1>0, DictTyped DEF DictInv
<1>4. "idle" \notin VagrantPcs /\ "vagrant rmtree" \notin VagrantPcs
  BY DEF VagrantPcs
<1>5. NoMachine.ready = FALSE
  BY DEF NoMachine
<1>6. CASE VagrantCreate
  <2>1. CASE LeftBehind /\ Continue("idle")
    <3>1. meta' = meta /\ meta = NoMeta /\ pc' = "idle"
      BY <1>0, <1>6, <2>1 DEF VagrantCreate, CanSetUp, LeftBehind, Continue, DictInv
    <3> QED
      BY <1>2, <1>4, <3>1 DEF VagrantTells
  <2>2. ASSUME NEW m, NEW use_chroot \in BOOLEAN, m = [NewMeta("vagrant") EXCEPT !.use_chroot = use_chroot],
               Unpacked(m, DataTgz), UNCHANGED vm,
               \/ pc' = "vagrant ssh" /\ dct' = m /\ loc' = [NoLoc EXCEPT !.then = "idle"]
               \/ pc' = "idle"
        PROVE  VagrantTells'
    <3>1. meta = NoMeta /\ ~left
      BY <1>0, <1>6 DEF VagrantCreate, CanSetUp, DictInv
    <3>2. vm = NoMachine
      BY <1>0, <1>2, <3>1 DEF MachineInv
    <3>3. meta' = m
      BY <2>2 DEF Unpacked
    <3>4. ~vm'.ready /\ pc' \notin {"vagrant status", "vagrant upload"}
      BY <1>5, <2>2, <3>2
    <3>5. pc' \in VagrantPcs => dct'.input_files = meta'.input_files
      BY <1>4, <2>2, <3>3
    <3>6. pc' = "vagrant ssh" => loc'.wrote = {}
      BY <2>2 DEF NoLoc
    <3> QED
      BY <3>4, <3>5, <3>6 DEF VagrantTells
  <2> QED
    BY <1>6, <2>1, <2>2 DEF VagrantCreate, Call, Continue
<1>7. CASE VagrantStart \/ VagrantDownload \/ VagrantRun \/ VagrantUpload
  <2>1. pc = "idle" /\ pc' = "vagrant ssh" /\ dct' = meta /\ UNCHANGED <<meta, vm, stale>>
    BY <1>7 DEF VagrantStart, VagrantDownload, VagrantRun, VagrantUpload, VagrantCommand, Reads, Idle, Call,
                vagrantVars
  <2>2. ASSUME meta.unpacker = "vagrant", vm.ready, NEW f \in IoFiles
        PROVE  f \in stale \/ Tells(meta.input_files[f], vm.fs[f])
    BY <2>1, <2>2 DEF VagrantTells
  <2>3. loc'.wrote = {}
    <3>1. CASE VagrantStart \/ VagrantDownload
      <4>1. loc' = [NoLoc EXCEPT !.then = "idle"]
        BY <3>1 DEF VagrantStart, VagrantDownload, VagrantCommand, Call
      <4> QED
        BY <4>1 DEF NoLoc
    <3>2. CASE VagrantRun
      <4>1. PICK runs : loc' = [[NoLoc EXCEPT !.runs = runs] EXCEPT !.then = "vagrant run"]
        BY <3>2 DEF VagrantRun, VagrantCommand, Call
      <4> QED
        BY <4>1 DEF NoLoc
    <3>3. CASE VagrantUpload
      <4>1. PICK specs : loc' = [[NoLoc EXCEPT !.specs = specs] EXCEPT !.then = "vagrant upload"]
        BY <3>3 DEF VagrantUpload, VagrantCommand, Call
      <4> QED
        BY <4>1 DEF NoLoc
    <3> QED
      BY <1>7, <3>1, <3>2, <3>3
  <2> QED
    BY <2>1, <2>2, <2>3 DEF VagrantTells, Tells
<1>8. CASE VagrantSuspend
  <2>1. pc = "idle" /\ UNCHANGED <<pc, meta, stale>> /\ vm' = [vm EXCEPT !.state = "saved"]
    BY <1>8 DEF VagrantSuspend, Reads, Idle, sharedVars
  <2>2. vm'.ready = vm.ready /\ vm'.fs = vm.fs
    BY <1>1, <2>1
  <2> QED
    BY <1>4, <2>1, <2>2, VagrantLeaves
<1>9. CASE VagrantDestroyVm
  <2>1. /\ pc = "idle" /\ pc' \in {"idle", "vagrant rmtree"} /\ UNCHANGED meta
        /\ vm' = NoMachine \/ UNCHANGED <<vm, stale>>
    BY <1>9 DEF VagrantDestroyVm, Reads, Idle, Return, Call
  <2>2. CASE vm' = NoMachine
    BY <1>4, <1>5, <2>1, <2>2, VagrantWrites
  <2>3. CASE UNCHANGED <<vm, stale>>
    BY <1>4, <2>1, <2>3, VagrantLeaves
  <2> QED
    BY <2>1, <2>2, <2>3
<1>10. CASE VagrantDestroyDir
  <2>1. pc' = "idle" /\ meta' = NoMeta
    BY <1>10 DEF VagrantDestroyDir, RmTree, Return, Call
  <2> QED
    BY <1>2, <1>4, <2>1 DEF VagrantTells
<1>11. CASE VmPowerOff
  <2>1. /\ pc' = "idle" /\ stale' = stale \cup loc.wrote /\ UNCHANGED meta
        /\ vm' = [vm EXCEPT !.state = "off", !.stack = 0]
    BY <1>11 DEF VmPowerOff, Return, Call
  <2>2. vm'.ready = vm.ready /\ vm'.fs = vm.fs
    BY <1>1, <2>1
  <2> QED
    BY <1>4, <2>1, <2>2, VagrantLeaves
<1>12. CASE Crash({"vagrant"}) /\ UNCHANGED vagrantVars
  <2>1. pc' = "idle" /\ stale' = stale \cup loc.wrote /\ UNCHANGED <<meta, vm>>
    BY <1>12 DEF Crash, Return, Call, vagrantVars
  <2> QED
    BY <1>4, <2>1, VagrantLeaves
<1>13. CASE VagrantStep
  <2>1. CASE VagrantUp
    <3>1. pc = "vagrant ssh" /\ UNCHANGED meta /\ dct.input_files = meta.input_files
      BY <2>1 DEF VagrantUp, VagrantTells, VagrantPcs
    <3>2. CASE /\ vm' = [state |-> "running", fs |-> SetupSh(dct.use_chroot), ready |-> TRUE, stack |-> 0]
               /\ stale' = {f \in IoFiles : Origin[f] = "unpacked"} \cup
                           {f \in IoFiles : dct.input_files[f] # metadata_initial_iofiles[f]}
               /\ UNCHANGED <<pc, dct, loc>>
      <4>1. dct.use_chroot \in BOOLEAN
        BY <1>3, <3>1 DEF Meta, VagrantPcs
      <4>2. ASSUME NEW f \in IoFiles PROVE f \in stale' \/ Tells(meta.input_files[f], vm'.fs[f])
        BY <3>1, <3>2, <4>1, UnpackedTold
      <4> QED
        BY <3>1, <3>2, <4>2 DEF VagrantTells, Tells
    <3>3. CASE vm' = [NoMachine EXCEPT !.state = "running"] /\ Return
      <4>1. ~vm'.ready /\ pc' = "idle"
        BY <3>3 DEF NoMachine, Return, Call
      <4> QED
        BY <1>4, <4>1, VagrantWrites
    <3>4. CASE vm' = [vm EXCEPT !.state = "running"] /\ UNCHANGED <<stale, pc, dct, loc>>
      <4>1. vm'.ready = vm.ready /\ vm'.fs = vm.fs
        BY <1>1, <3>4
      <4> QED
        BY <3>1, <3>4, <4>1 DEF VagrantTells, Tells
    <3> QED
      BY <2>1, <3>2, <3>3, <3>4 DEF VagrantUp
  <2>2. CASE VagrantMachineReady
    <3>1. /\ pc = "vagrant ssh" /\ UNCHANGED <<meta, stale>>
          /\ \/ pc' = "idle"
             \/ pc' = loc.then /\ UNCHANGED <<dct, loc>>
          /\ vm' = vm \/ \E n : vm' = [vm EXCEPT !.stack = n]
      BY <2>2 DEF VagrantMachineReady, Return, Call, Continue
    <3>2. vm'.ready = vm.ready /\ vm'.fs = vm.fs
      BY <1>1, <3>1
    <3>3. CASE pc' = "idle"
      BY <1>4, <3>1, <3>2, <3>3, VagrantLeaves
    <3>4. CASE pc' # "idle"
      <4>1. pc' \in {"vagrant run", "vagrant upload"} /\ UNCHANGED <<dct, loc>>
        BY <1>0, <3>1, <3>4 DEF DictInv
      <4>2. dct.input_files = meta.input_files
        BY <3>1 DEF VagrantTells, VagrantPcs
      <4>3. ASSUME vm.ready, NEW f \in IoFiles PROVE f \in stale \/ Tells(meta.input_files[f], vm.fs[f])
        BY <1>3, <3>1, <4>3 DEF VagrantTells, VagrantPcs
      <4>4. loc.wrote = {}
        BY <3>1 DEF VagrantTells
      <4> QED
        BY <3>1, <3>2, <4>1, <4>2, <4>3, <4>4 DEF VagrantTells, Tells
    <3> QED
      BY <3>3, <3>4
  <2>3. CASE VagrantRunExits
    <3>1. PICK wrote \in SUBSET OutputsOf(loc.runs) :
            /\ vm' = [vm EXCEPT !.fs = [f \in IoFiles |-> IF f \in wrote THEN "generated" ELSE vm.fs[f]]]
            /\ \/ /\ Call("vagrant status", dct, [loc EXCEPT !.wrote = wrote])
                  /\ UNCHANGED stale
               \/ Return /\ stale' = stale \cup wrote
      BY <2>3 DEF VagrantRunExits
    <3>2. pc = "vagrant run" /\ UNCHANGED meta
      BY <2>3 DEF VagrantRunExits
    <3>3. PICK new : new = [f \in IoFiles |-> IF f \in wrote THEN "generated" ELSE vm.fs[f]]
      OBVIOUS
    <3>4. vm'.fs = new /\ vm'.ready = vm.ready
      BY <1>1, <3>1, <3>3
    <3>5. ASSUME vm.ready, NEW f \in IoFiles, f \notin wrote
          PROVE  f \in stale \/ Tells(meta.input_files[f], new[f])
      <4>1. new[f] = vm.fs[f] /\ pc \in VagrantPcs
        BY <3>2, <3>3, <3>5 DEF VagrantPcs
      <4>2. f \in stale \/ Tells(meta.input_files[f], vm.fs[f])
        BY <1>3, <3>2, <3>5, <4>1 DEF VagrantTells
      <4> QED
        BY <4>1, <4>2
    <3>6. wrote \subseteq IoFiles /\ \A f \in wrote : new[f] = "generated"
      BY <3>1, <3>3, OutputsAreFiles
    <3>7. CASE Call("vagrant status", dct, [loc EXCEPT !.wrote = wrote]) /\ UNCHANGED stale
      <4>1. loc'.wrote = wrote /\ pc' = "vagrant status" /\ dct' = dct
        BY <1>0, <3>7 DEF SharedTypes, Locals, Call
      <4>2. dct'.input_files = meta'.input_files
        BY <3>2, <4>1 DEF VagrantTells, VagrantPcs
      <4> QED
        BY <3>2, <3>4, <3>5, <3>6, <3>7, <4>1, <4>2 DEF VagrantTells, Tells
    <3>8. CASE Return /\ stale' = stale \cup wrote
      <4>1. pc' = "idle"
        BY <3>8 DEF Return, Call
      <4>2. ASSUME vm'.ready, NEW f \in IoFiles PROVE f \in stale' \/ Tells(meta'.input_files[f], vm'.fs[f])
        BY <3>2, <3>4, <3>5, <3>8, <4>2
      <4> QED
        BY <1>4, <4>1, <4>2, VagrantWrites
    <3> QED
      BY <3>1, <3>7, <3>8
  <2>4. CASE VagrantRunDone
    <3>1. /\ pc = "vagrant status" /\ pc' = "idle" /\ UNCHANGED vm
          /\ meta' = [dct EXCEPT !.input_files = metadata_update_run(@, loc.runs)]
          /\ stale' = (stale \ OutputsOf(loc.runs)) \cup (OutputsOf(loc.runs) \ loc.wrote)
      BY <2>4 DEF VagrantRunDone, Writes, Return, Call, vagrantVars
    <3>2. dct \in Meta /\ meta.unpacker = "vagrant"
      BY <1>3, <3>1 DEF VagrantPcs
    <3>3. dct.input_files = meta.input_files
      BY <3>1 DEF VagrantTells, VagrantPcs
    <3>4. PICK files : files = metadata_update_run(meta.input_files, loc.runs)
      OBVIOUS
    <3>5. meta'.input_files = files
      BY <3>1, <3>2, <3>3, <3>4 DEF Meta
    <3>6. ASSUME vm.ready, NEW f \in IoFiles PROVE f \in stale' \/ Tells(files[f], vm.fs[f])
      <4>1. f \in stale \/ f \in loc.wrote \/ Tells(meta.input_files[f], vm.fs[f])
        BY <3>1, <3>2, <3>6 DEF VagrantTells
      <4>2. f \in loc.wrote => vm.fs[f] = "generated" /\ f \in OutputsOf(loc.runs)
        BY <3>1 DEF VagrantTells, RunWrites
      <4>3. CASE f \in OutputsOf(loc.runs)
        BY <3>1, <3>4, <4>2, <4>3, RunTold
      <4>4. CASE f \notin OutputsOf(loc.runs)
        BY <3>1, <3>4, <4>1, <4>2, <4>4, RunTold
      <4> QED
        BY <4>3, <4>4
    <3> QED
      BY <1>4, <3>1, <3>5, <3>6, VagrantWrites
  <2>5. CASE VagrantUploadFile
    <3>1. /\ pc = "vagrant upload" /\ pc' = "vagrant upload" /\ loc.specs # <<>> /\ UNCHANGED <<meta, stale>>
      BY <2>5 DEF VagrantUploadFile, Call
    <3>2. PICK s : s = Head(loc.specs)
      OBVIOUS
    <3>3. s \in Spec_ /\ loc \in Locals
      BY <1>0, <3>1, <3>2, SpecsGoOn DEF SharedTypes, Locals
    <3>4. dct \in Meta /\ meta.unpacker = "vagrant"
      BY <1>3, <3>1 DEF VagrantPcs
    <3>5. ASSUME vm.ready, NEW f \in IoFiles
          PROVE  /\ f \in stale \/ f \in loc.wrote \/ Tells(meta.input_files[f], vm.fs[f])
                 /\ f \in stale \ loc.wrote \/ f \in loc.told \/ Tells(dct.input_files[f], vm.fs[f])
      BY <3>1, <3>4, <3>5 DEF VagrantTells
    <3>6. CASE /\ SpecOutcome(s) = "put" /\ vm' = [vm EXCEPT !.fs[s.name] = Uploaded(s)]
               /\ dct' = [dct EXCEPT !.input_files = StatusAfter(@, s)]
               /\ loc' = [loc EXCEPT !.specs = Tail(@), !.wrote = @ \cup {s.name}, !.told = StaleAfter(@, s)]
      <4>1. PICK files, told, new : /\ files = StatusAfter(dct.input_files, s)
                                    /\ told = StaleAfter(loc.told, s)
                                    /\ new = [vm.fs EXCEPT ![s.name] = Uploaded(s)]
        OBVIOUS
      <4>2. dct'.input_files = files /\ loc'.told = told /\ loc'.wrote = loc.wrote \cup {s.name}
        BY <3>3, <3>4, <3>6, <4>1 DEF Meta, Locals
      <4>3. dct.input_files \in [IoFiles -> Status]
        BY <3>4, MetaTyped
      <4>4. /\ s.name \in IoFiles => new[s.name] = Uploaded(s)
            /\ \A f \in IoFiles : f # s.name => new[f] = vm.fs[f]
        BY <1>1, <4>1 DEF World
      <4>5. vm'.fs = new /\ vm'.ready = vm.ready
        <5>1. vm' = [vm EXCEPT !.fs = new]
          BY <3>6, <4>1
        <5> QED
          BY <1>1, <5>1
      <4>6. ASSUME vm.ready, NEW f \in IoFiles
            PROVE  /\ f \in stale \/ f \in loc.wrote \cup {s.name} \/ Tells(meta.input_files[f], new[f])
                   /\ f \in stale \ (loc.wrote \cup {s.name}) \/ f \in told \/ Tells(files[f], new[f])
        <5>1. CASE f = s.name
          BY <1>0, <3>3, <3>6, <4>1, <4>3, <4>4, <5>1, UploadTold
        <5>2. CASE f # s.name
          <6>1. files[f] = dct.input_files[f] /\ (f \in loc.told => f \in told)
            BY <1>0, <3>3, <3>6, <4>1, <4>3, <5>2, UploadTold
          <6> QED
            BY <3>5, <4>4, <4>6, <5>2, <6>1
        <5> QED
          BY <5>1, <5>2
      <4>7. ASSUME vm'.ready, NEW f \in IoFiles
            PROVE  /\ f \in stale' \/ f \in loc'.wrote \/ Tells(meta'.input_files[f], vm'.fs[f])
                   /\ f \in stale' \ loc'.wrote \/ f \in loc'.told \/ Tells(dct'.input_files[f], vm'.fs[f])
        BY <3>1, <4>2, <4>5, <4>6, <4>7
      <4> QED
        BY <3>1, <4>7, VagrantUploads
    <3>7. CASE dct' = dct /\ vm' = vm /\ \E specs \in {Tail(loc.specs), <<>>} : loc' = [loc EXCEPT !.specs = specs]
      <4>1. loc'.wrote = loc.wrote /\ loc'.told = loc.told
        BY <3>3, <3>7 DEF Locals
      <4> QED
        BY <3>1, <3>5, <3>7, <4>1 DEF VagrantTells, Tells
    <3> QED
      BY <2>5, <3>2, <3>6, <3>7 DEF VagrantUploadFile, Call
  <2>6. CASE VagrantUploadDone
    <3>1. /\ pc = "vagrant upload" /\ pc' = "idle" /\ meta' = dct /\ UNCHANGED vm
          /\ stale' = (stale \ loc.wrote) \cup loc.told
      BY <2>6 DEF VagrantUploadDone, Writes, Return, Call, vagrantVars
    <3>2. ASSUME vm.ready, NEW f \in IoFiles
          PROVE  f \in stale \ loc.wrote \/ f \in loc.told \/ Tells(dct.input_files[f], vm.fs[f])
      BY <3>1, <3>2 DEF VagrantTells
    <3> QED
      BY <1>4, <3>1, <3>2, VagrantWrites
  <2> QED
    BY <1>13, <2>1, <2>2, <2>3, <2>4, <2>5, <2>6 DEF VagrantStep
<1> QED
  BY <1>6, <1>7, <1>8, <1>9, <1>10, <1>11, <1>12, <1>13 DEF VagrantNext

\* A step that is no concern of the other unpackers.
Apart(types, pcs) ==
    \/ UNCHANGED sharedVars
    \/ (meta'.unpacker \in types \/ meta' = NoMeta) /\ pc' \notin pcs

\* At an experiment of another kind Docker has only old containers to remove.
LEMMA DockerApart ==
  ASSUME DictInv, Owners, DockerNext
  PROVE  Apart({"docker"}, LocalPcs \cup VagrantPcs)
<1>0. NoMeta.unpacker = "none"
  BY DEF NoMeta
<1>1. CASE meta.unpacker = "docker" \/ meta = NoMeta
  <2>1. DockerMoves
    BY DockerOwners
  <2>2. CASE Stopped
    BY <1>1, <2>2 DEF Stopped, Apart, LocalPcs, MountPcs, UmountPcs, VagrantPcs
  <2>3. CASE Moves({"docker"}, DockerPcs \cup {"idle", "docker build", "docker cp",
                                              "docker destroy", "docker destroy dir"})
    BY <1>0, <2>3 DEF Moves, Apart, DockerPcs, LocalPcs, MountPcs, UmountPcs, VagrantPcs
  <2>4. CASE UNCHANGED sharedVars
    BY <2>4 DEF Apart
  <2> QED
    BY <2>1, <2>2, <2>3, <2>4 DEF DockerMoves
<1>2. CASE ~(meta.unpacker = "docker" \/ meta = NoMeta)
  <2>1. pc \notin DockerPcs \cup {"docker build", "docker cp", "docker destroy", "docker destroy dir"}
    BY <1>2 DEF DictInv, Owners
  <2>2. meta # NoMeta
    BY <1>2
  <2>3. ~DockerStep
    BY <2>1 DEF DockerStep, DockerPcs, DockerBuilt, DockerResetDone, DockerRunFails, DockerRunExits, DockerCommit,
                DockerRecord, DockerRm, DockerUntag, DockerRunDone, DockerUploadFile, DockerUploadBuild,
                DockerUploadUntag, DockerUploadDone, DockerDownloadDone, DockerDestroyInitial
  <2>4. UserRemovesBox
    BY <1>2, <2>1, <2>2, <2>3
       DEF DockerNext, DockerCreate, DockerBuild, DockerReset, DockerRun, DockerRunDetached, DockerUpload,
           DockerDownload, DockerDestroy, DockerDestroyDir, Crash, CanSetUp, Reads, DictInv
  <2>5. UNCHANGED sharedVars
    BY <2>4 DEF UserRemovesBox, sharedVars
  <2> QED
    BY <2>5 DEF Apart
<1> QED
  BY <1>1, <1>2

\* At an experiment of another kind only the machine that restarts concerns
\* the mounts.
LEMMA LocalApart ==
  ASSUME DictInv, MountInv, Owners, LocalNext
  PROVE  Reboot \/ Apart({"directory", "chroot"}, DockerPcs \cup VagrantPcs)
<1>0. NoMeta.unpacker = "none"
  BY DEF NoMeta
<1>1. CASE meta.unpacker \in {"directory", "chroot"} \/ meta = NoMeta
  <2>1. LocalMoves
    BY LocalOwners
  <2>2. CASE Stopped
    BY <1>1, <2>2 DEF Stopped, Apart, DockerPcs, VagrantPcs
  <2>3. CASE Moves({"directory", "chroot"}, LocalPcs \cup {"idle", "rmtree"})
    BY <1>0, <2>3 DEF Moves, Apart, DockerPcs, LocalPcs, MountPcs, UmountPcs, VagrantPcs
  <2>4. CASE UNCHANGED sharedVars
    BY <2>4 DEF Apart
  <2> QED
    BY <2>1, <2>2, <2>3, <2>4 DEF LocalMoves
<1>2. CASE ~(meta.unpacker \in {"directory", "chroot"} \/ meta = NoMeta)
  <2>1. pc \notin LocalPcs \cup {"rmtree"}
    BY <1>2 DEF DictInv, Owners
  <2>2. meta # NoMeta
    BY <1>2
  <2>3. ~LocalStep
    <3>1. ~(\E p \in Points : ChrootMountPoint(p)) /\ ~(\E d \in {"dev", "proc"} : ChrootUmountPoint(d))
      BY <2>1 DEF ChrootMountPoint, ChrootUmountPoint, MountPc, Points, LocalPcs, MountPcs, UmountPcs
    <3> QED
      BY <2>1, <3>1 DEF LocalStep, LocalPcs, MountPcs, UmountPcs, LocalRunExits, LocalRunDone, LocalUploadFile,
                        LocalUploadDone, ChrootMounted, ChrootUnmounted
  <2>4. Reboot
    BY <1>2, <2>1, <2>2, <2>3
       DEF LocalNext, LocalCreate, LocalRun, LocalUpload, ChrootMount, ChrootUnmount, LocalDestroyDir, LocalCrash,
           Crash, CanSetUp, Reads, DictInv
  <2> QED
    BY <2>4
<1> QED
  BY <1>1, <1>2

LEMMA VagrantApart ==
  ASSUME DictInv, Owners, VagrantNext
  PROVE  Apart({"vagrant"}, DockerPcs \cup LocalPcs)
<1>0. NoMeta.unpacker = "none"
  BY DEF NoMeta
<1>1. CASE meta.unpacker = "vagrant" \/ meta = NoMeta
  <2>1. VagrantMoves
    BY VagrantOwners
  <2>2. CASE Stopped
    BY <1>1, <2>2 DEF Stopped, Apart, DockerPcs, LocalPcs, MountPcs, UmountPcs
  <2>3. CASE Moves({"vagrant"}, VagrantPcs \cup {"idle", "vagrant rmtree"})
    BY <1>0, <2>3 DEF Moves, Apart, DockerPcs, LocalPcs, MountPcs, UmountPcs, VagrantPcs
  <2>4. CASE UNCHANGED sharedVars
    BY <2>4 DEF Apart
  <2> QED
    BY <2>1, <2>2, <2>3, <2>4 DEF VagrantMoves
<1>2. CASE ~(meta.unpacker = "vagrant" \/ meta = NoMeta)
  <2>1. pc \notin VagrantPcs \cup {"vagrant rmtree"}
    BY <1>2 DEF DictInv, Owners
  <2>2. meta # NoMeta
    BY <1>2
  <2>3. ~VagrantStep
    BY <2>1 DEF VagrantStep, VagrantPcs, VagrantUp, VagrantMachineReady, VagrantRunExits, VagrantRunDone,
                VagrantUploadFile, VagrantUploadDone
  <2>4. FALSE
    BY <1>2, <2>1, <2>2, <2>3
       DEF VagrantNext, VagrantCreate, VagrantStart, VagrantDownload, VagrantRun, VagrantUpload, VagrantCommand,
           VagrantSuspend, VagrantDestroyVm, VagrantDestroyDir, VmPowerOff, Crash, CanSetUp, Reads, DictInv
  <2> QED
    BY <2>4
<1> QED
  BY <1>1, <1>2

LEMMA TellStep ==
  ASSUME WholeInv, WholeInv', TellInv, [Next]_unpackersVars
  PROVE  TellInv'
<1>0. DockerTells /\ LocalTells /\ VagrantTells /\ RunWrites
  BY DEF TellInv
<1>00. NoMeta.unpacker = "none"
  BY DEF NoMeta
<1>1. DictInv /\ MountInv /\ LocInv /\ Owners /\ SharedTypes
  BY DEF WholeInv, HomeInv, TypesInv
<1>2. UNCHANGED <<sharedVars, dockerVars>> => DockerTells'
  <2> SUFFICES ASSUME UNCHANGED <<sharedVars, dockerVars>> PROVE DockerTells'
    OBVIOUS
  <2>1. UNCHANGED <<meta, dct, loc, pc, stale, images, dockerfile, destroyed>>
    BY DEF sharedVars, dockerVars
  <2> QED
    BY <1>0, <2>1 DEF DockerTells, Tells, Exists
<1>3. UNCHANGED <<sharedVars, localVars>> => LocalTells'
  <2> SUFFICES ASSUME UNCHANGED <<sharedVars, localVars>> PROVE LocalTells'
    OBVIOUS
  <2>1. UNCHANGED <<meta, dct, loc, pc, stale, fs>>
    BY DEF sharedVars, localVars
  <2> QED
    BY <1>0, <2>1 DEF LocalTells, Tells
<1>4. UNCHANGED <<sharedVars, vagrantVars>> => VagrantTells'
  <2> SUFFICES ASSUME UNCHANGED <<sharedVars, vagrantVars>> PROVE VagrantTells'
    OBVIOUS
  <2>1. UNCHANGED <<meta, dct, loc, pc, stale, vm>>
    BY DEF sharedVars, vagrantVars
  <2> QED
    BY <1>0, <2>1 DEF VagrantTells, Tells
<1>5. meta'.unpacker # "docker" /\ pc' \notin DockerPcs => DockerTells'
  BY DEF DockerTells, DockerPcs
<1>6. meta'.unpacker \notin {"directory", "chroot"} /\ pc' \notin LocalPcs => LocalTells'
  BY DEF LocalTells, LocalPcs
<1>7. meta'.unpacker # "vagrant" /\ pc' \notin VagrantPcs => VagrantTells'
  BY DEF VagrantTells, VagrantPcs
<1>8. CASE DockerNext /\ UNCHANGED <<localVars, vagrantVars>>
  <2>1. DockerTells' /\ RunWrites'
    BY <1>0, <1>1, <1>8, TellDocker, WritesDocker
  <2>2. LocalTells' /\ VagrantTells'
    <3>1. CASE UNCHANGED sharedVars
      BY <1>3, <1>4, <1>8, <3>1
    <3>2. CASE (meta'.unpacker \in {"docker"} \/ meta' = NoMeta) /\ pc' \notin LocalPcs \cup VagrantPcs
      BY <1>00, <1>6, <1>7, <3>2
    <3> QED
      BY <1>1, <1>8, <3>1, <3>2, DockerApart DEF Apart
  <2> QED
    BY <2>1, <2>2 DEF TellInv
<1>9. CASE LocalNext /\ UNCHANGED <<dockerVars, vagrantVars>>
  <2>1. LocalTells' /\ RunWrites'
    BY <1>0, <1>1, <1>9, TellLocal, WritesLocal
  <2>2. CASE Reboot
    <3>1. /\ pc' = "idle" /\ stale' = stale \cup loc.wrote
          /\ UNCHANGED <<meta, dockerfile, destroyed, images, vm>>
      BY <1>9, <2>2 DEF Reboot, Return, Call, dockerVars, vagrantVars
    <3>2. "idle" \notin DockerPcs /\ "idle" \notin VagrantPcs
      BY DEF DockerPcs, VagrantPcs
    <3>3. Exists(meta.current)' => Exists(meta.current) /\ images'[meta.current] = images[meta.current]
      BY <3>1 DEF Exists
    <3>4. DockerTells'
      BY <1>0, <3>1, <3>2, <3>3, DockerLeaves
    <3>5. VagrantTells'
      BY <1>0, <3>1, <3>2, VagrantLeaves
    <3> QED
      BY <2>1, <3>4, <3>5 DEF TellInv
  <2>3. CASE ~Reboot
    <3>1. DockerTells' /\ VagrantTells'
      <4>1. CASE UNCHANGED sharedVars
        BY <1>2, <1>4, <1>9, <4>1
      <4>2. CASE (meta'.unpacker \in {"directory", "chroot"} \/ meta' = NoMeta) /\ pc' \notin DockerPcs \cup VagrantPcs
        BY <1>00, <1>5, <1>7, <4>2
      <4> QED
        BY <1>1, <1>9, <2>3, <4>1, <4>2, LocalApart DEF Apart
    <3> QED
      BY <2>1, <3>1 DEF TellInv
  <2> QED
    BY <2>2, <2>3
<1>10. CASE VagrantNext /\ UNCHANGED <<dockerVars, localVars>>
  <2>1. VagrantTells' /\ RunWrites'
    BY <1>0, <1>1, <1>10, TellVagrant, WritesVagrant
  <2>2. DockerTells' /\ LocalTells'
    <3>1. CASE UNCHANGED sharedVars
      BY <1>2, <1>3, <1>10, <3>1
    <3>2. CASE (meta'.unpacker \in {"vagrant"} \/ meta' = NoMeta) /\ pc' \notin DockerPcs \cup LocalPcs
      BY <1>00, <1>5, <1>6, <3>2
    <3> QED
      BY <1>1, <1>10, <3>1, <3>2, VagrantApart DEF Apart
  <2> QED
    BY <2>1, <2>2 DEF TellInv
<1>11. CASE UNCHANGED unpackersVars
  <2>1. UNCHANGED <<sharedVars, dockerVars, localVars, vagrantVars>>
    BY <1>11 DEF unpackersVars, sharedVars, dockerVars, localVars, vagrantVars
  <2>2. RunWrites'
    BY <1>0, <2>1 DEF sharedVars, RunWrites
  <2> QED
    BY <1>2, <1>3, <1>4, <2>1, <2>2 DEF TellInv
<1> QED
  BY <1>8, <1>9, <1>10, <1>11 DEF Next

LEMMA TellStatus == WholeInv /\ TellInv => StatusTold
<1> SUFFICES ASSUME WholeInv, TellInv, pc = "idle", Ready, NEW f \in IoFiles \ stale
             PROVE  Tells(meta.input_files[f], Files[f])
  BY DEF StatusTold, Idle
<1>0. /\ DockerTells /\ LocalTells /\ VagrantTells /\ SharedTypes /\ Owners
      /\ DockerSight /\ LocalSight /\ VagrantSight
  BY DockerSeen, LocalSeen, VagrantSeen DEF TellInv, WholeInv, HomeInv, TypesInv
<1>1. meta \in Meta
  BY <1>0 DEF Ready, SharedTypes
<1>2. meta.unpacker \in {"docker", "directory", "chroot", "vagrant"}
  BY <1>1 DEF Meta
<1>3. CASE meta.unpacker = "docker"
  <2>1. Exists(CurrentImage) /\ ~destroyed /\ Files = images[CurrentImage]
    BY <1>0, <1>3 DEF DockerSight
  <2>2. CurrentImage = meta.current
    BY <1>0 DEF CurrentImage, Owners, OtherPcs
  <2> QED
    BY <1>0, <1>3, <2>1, <2>2 DEF DockerTells
<1>4. CASE meta.unpacker \in {"directory", "chroot"}
  <2>1. Files = fs
    BY <1>0, <1>4 DEF LocalSight
  <2> QED
    BY <1>0, <1>4, <2>1 DEF LocalTells
<1>5. CASE meta.unpacker = "vagrant"
  <2>1. vm.ready /\ Files = vm.fs
    BY <1>0, <1>5 DEF VagrantSight
  <2> QED
    BY <1>0, <1>5, <2>1 DEF VagrantTells
<1> QED
  BY <1>2, <1>3, <1>4, <1>5

\* What 'upload' without arguments prints is true: the status the dictionary
\* gives to a file, written by every setup, run, upload and reset after the
\* files themselves, tells what the experiment really holds between two
\* commands, whichever was killed or failed half-way, but for the files the code
\* is known to misreport.
THEOREM StatusIsTold == ASSUME IoFiles # {} PROVE Spec => []StatusTold
BY WholeInit, WholeStep, TellInit, TellStep, TellStatus, PTL DEF Spec
=============================================================================
