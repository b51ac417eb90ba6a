-------------------------- MODULE UnpackersProofs ---------------------------
(***************************************************************************)
(* What holds of the unpackers for every set of files, runs and faults and *)
(* every bound: removing an experiment never touches the host as long as   *)
(* no mount command stopped half-way, what is mounted is recorded, and the *)
(* image that 'reset' goes back to is never lost.                          *)
(*                                                                         *)
(* The inductive invariant has four parts: DictInv, who owns the dictionary*)
(* in memory; MountInv, the mounts; LocInv, the locals of a command; and   *)
(* ImageInv, the images.  MountInv and ImageInv rest on DictInv.           *)
(***************************************************************************)
EXTENDS Unpackers, TLAPS, WellFoundedInduction

-----------------------------------------------------------------------------
(* The dictionary: it belongs to the unpacker whose command is running.    *)

DockerPcs == {"docker built", "docker reset", "docker run", "docker commit",
              "docker record", "docker rm", "docker rmi", "docker status",
              "docker upload", "docker upload rmi", "docker upload record"}
MountPcs   == {"mount dev", "mount pts", "mount proc", "mounted"}
UmountPcs  == {"umount dev", "umount proc", "unmounted"}
LocalPcs   == MountPcs \cup UmountPcs \cup {"local run", "local status", "local upload"}
VagrantPcs == {"vagrant ssh", "vagrant run", "vagrant status", "vagrant upload"}
OtherPcs   == {"idle", "docker build", "docker cp", "docker destroy", "docker destroy dir",
               "rmtree", "vagrant rmtree"}

Keys      == {"unpacker", "input_files", "initial", "current", "mounted", "use_chroot"}
Fields(d) == d = [k \in Keys |-> d[k]]

DictInv ==
  /\ pc \in DockerPcs \cup LocalPcs \cup VagrantPcs \cup OtherPcs
  /\ meta = NoMeta \/ Fields(meta)
  /\ ~dir => meta = NoMeta
  /\ pc \in DockerPcs => dir /\ Fields(dct) /\ dct.unpacker = "docker" /\ meta.unpacker = "docker"
  /\ pc = "docker build" => dir /\ meta.unpacker = "docker"
  /\ pc \in LocalPcs => /\ dir /\ Fields(dct) /\ dct.unpacker = meta.unpacker
                        /\ meta.unpacker \in {"directory", "chroot"}
  /\ pc \in VagrantPcs => dir /\ Fields(dct) /\ dct.unpacker = "vagrant" /\ meta.unpacker = "vagrant"
  /\ pc = "vagrant ssh" => loc.then \in {"idle", "vagrant run", "vagrant upload"}

LEMMA NewMetaFields ==
  ASSUME NEW type
  PROVE  Fields(NewMeta(type)) /\ NewMeta(type).unpacker = type
         /\ NewMeta(type).mounted = FALSE /\ NewMeta(type).initial = 0
BY DEF Fields, Keys, NewMeta

\* Replacing one value of a dictionary keeps the others.
LEMMA FieldsExcept ==
  ASSUME NEW d, Fields(d), NEW v
  PROVE  /\ Fields([d EXCEPT !.input_files = v])
         /\ [d EXCEPT !.input_files = v].unpacker = d.unpacker
         /\ [d EXCEPT !.input_files = v].mounted = d.mounted
         /\ [d EXCEPT !.input_files = v].initial = d.initial
         /\ Fields([d EXCEPT !.current = v])
         /\ [d EXCEPT !.current = v].unpacker = d.unpacker
         /\ [d EXCEPT !.current = v].initial = d.initial
         /\ Fields([d EXCEPT !.mounted = v])
         /\ [d EXCEPT !.mounted = v].unpacker = d.unpacker
         /\ [d EXCEPT !.mounted = v].mounted = v
         /\ [d EXCEPT !.mounted = v].initial = d.initial
         /\ Fields([d EXCEPT !.use_chroot = v])
         /\ [d EXCEPT !.use_chroot = v].unpacker = d.unpacker
         /\ Fields([d EXCEPT !.initial = v, !.current = v])
         /\ [d EXCEPT !.initial = v, !.current = v].unpacker = d.unpacker
         /\ [d EXCEPT !.initial = v, !.current = v].initial = v
BY DEF Fields, Keys

LEMMA DictInit == Init => DictInv
BY DEF Init, SharedInit, DictInv, DockerPcs, LocalPcs, MountPcs, UmountPcs, VagrantPcs,
       OtherPcs, NoMeta

LEMMA FieldsNotNone == ASSUME Fields(NoMeta) PROVE FALSE
BY DEF Fields, Keys, NoMeta

-----------------------------------------------------------------------------
(* Every step of an unpacker keeps DictInv.                                *)

LEMMA PrimedFields ==
  /\ Fields(dct)' <=> Fields(dct')
  /\ Fields(meta)' <=> Fields(meta')
  /\ dct' = meta => (Fields(dct)' <=> Fields(meta))
  /\ meta' = dct => (Fields(meta)' <=> Fields(dct))
BY DEF Fields

LEMMA MetaRead ==
  ASSUME DictInv, meta.unpacker # "none"
  PROVE  Fields(meta) /\ dir
<1>1. meta # NoMeta
  BY DEF NoMeta
<1> QED BY <1>1 DEF DictInv

LEMMA DictDocker == DictInv /\ DockerNext => DictInv'
<1> SUFFICES ASSUME DictInv, DockerNext PROVE DictInv'
  OBVIOUS
<1> USE PrimedFields DEF DictInv, DockerPcs, LocalPcs, MountPcs, UmountPcs, VagrantPcs, OtherPcs
<1>1. CASE DockerCreate
  <2>1. CASE Unpacked(NewMeta("docker"), DataTgz) /\ pc' \in {"docker build", "idle"}
    BY <2>1, NewMetaFields DEF Unpacked
  <2>2. CASE LeftBehind /\ Continue("idle")
    BY <2>2 DEF LeftBehind, Continue
  <2> QED BY <1>1, <2>1, <2>2 DEF DockerCreate, Call, Continue
<1>2. CASE DockerBuild
  <2>1. CASE /\ pc' = "docker built" /\ dct' = meta /\ UNCHANGED <<meta, dir>>
    BY <1>2, <2>1, MetaRead DEF DockerBuild, Reads, Idle
  <2>2. CASE pc' = "idle" /\ meta' = NoMeta /\ ~dir'
    BY <2>2
  <2>3. CASE pc' = "idle" /\ UNCHANGED <<meta, dir>>
    BY <2>3
  <2> QED BY <1>2, <2>1, <2>2, <2>3 DEF DockerBuild, Call, Return, KeepDir, RmTree
<1>3. CASE DockerReset
  <2>1. /\ meta.unpacker = "docker" /\ UNCHANGED <<meta, dir>> /\ pc' = "docker reset"
        /\ dct' = [meta EXCEPT !.current = meta.initial]
    BY <1>3 DEF DockerReset, Reads, Call, KeepDir
  <2>2. Fields(meta)
    BY <2>1, MetaRead
  <2>3. Fields(dct') /\ dct'.unpacker = "docker"
    BY <2>1, <2>2 DEF Fields, Keys
  <2> QED BY <2>1, <2>3, MetaRead
<1>4. CASE DockerRun
  BY <1>4, MetaRead DEF DockerRun, Reads, Idle, Call, KeepDir
<1>5. CASE DockerRunDetached
  BY <1>5 DEF DockerRunDetached, sharedVars
<1>6. CASE DockerUpload
  BY <1>6, MetaRead DEF DockerUpload, Reads, Idle, Call, KeepDir
<1>7. CASE DockerDownload
  BY <1>7, MetaRead DEF DockerDownload, Reads, Idle, Call, KeepDir
<1>8. CASE DockerDestroy
  BY <1>8 DEF DockerDestroy, Reads, Idle, Call, KeepDir, NoMeta
<1>9. CASE DockerDestroyDir
  BY <1>9 DEF DockerDestroyDir, RmTree, Return, Call
<1>10. CASE UserRemovesBox
  BY <1>10 DEF UserRemovesBox, sharedVars
<1>11. CASE Crash({"docker"})
  BY <1>11 DEF Crash, Return, Call
<1>12. CASE DockerStep
  <2>1. CASE DockerBuilt
    BY <2>1, FieldsExcept DEF DockerBuilt, Writes, Return, Call, KeepDir
  <2>2. CASE DockerResetDone
    BY <2>2 DEF DockerResetDone, Writes, Return, Call, KeepDir
  <2>3. CASE DockerRunFails
    BY <2>3 DEF DockerRunFails, Return, Call, KeepDir
  <2>4. CASE DockerRunExits
    BY <2>4 DEF DockerRunExits, Call, KeepDir
  <2>5. CASE DockerCommit
    <3>1. CASE pc' = "idle" /\ UNCHANGED <<meta, dir>>
      BY <3>1
    <3>2. CASE pc' = "docker record" /\ dct' = [dct EXCEPT !.current = Least(FreshImages)]
      <4>1. pc = "docker commit" /\ UNCHANGED <<meta, dir>>
        BY <2>5 DEF DockerCommit, KeepDir
      <4>2. Fields(dct') /\ dct'.unpacker = "docker"
        BY <3>2, <4>1 DEF Fields, Keys
      <4> QED BY <3>2, <4>1, <4>2
    <3> QED BY <2>5, <3>1, <3>2 DEF DockerCommit, Return, Call, KeepDir
  <2>6. CASE DockerRecord
    BY <2>6 DEF DockerRecord, Writes, Continue, KeepDir
  <2>7. CASE DockerRm
    BY <2>7 DEF DockerRm, Continue, KeepDir
  <2>8. CASE DockerUntag
    BY <2>8 DEF DockerUntag, Continue, Return, Call, KeepDir
  <2>9. CASE DockerRunDone
    BY <2>9, FieldsExcept DEF DockerRunDone, Writes, Return, Call, KeepDir
  <2>10. CASE DockerUploadFile
    <3>1. /\ pc = "docker upload" /\ pc' = "docker upload" /\ UNCHANGED <<meta, dir>>
      BY <2>10 DEF DockerUploadFile, Call, KeepDir
    <3>2. \/ dct' = dct
          \/ dct' = [dct EXCEPT !.input_files = StatusAfter(dct.input_files, Head(loc.specs))]
      BY <2>10 DEF DockerUploadFile, Call
    <3>3. Fields(dct') /\ dct'.unpacker = "docker"
      BY <3>1, <3>2 DEF Fields, Keys
    <3> QED BY <3>1, <3>3
  <2>11. CASE DockerUploadBuild
    <3>1. CASE pc' = "idle" /\ meta' = dct
      BY <2>11, <3>1 DEF DockerUploadBuild, KeepDir
    <3>2. CASE /\ pc' \in {"docker upload rmi", "docker upload record"} /\ UNCHANGED meta
               /\ dct' = [dct EXCEPT !.current = Least(FreshImages)]
      <4>1. pc = "docker upload" /\ UNCHANGED dir
        BY <2>11 DEF DockerUploadBuild, KeepDir
      <4>2. Fields(dct') /\ dct'.unpacker = "docker"
        BY <3>2, <4>1 DEF Fields, Keys
      <4> QED BY <3>2, <4>1, <4>2
    <3> QED BY <2>11, <3>1, <3>2 DEF DockerUploadBuild, Writes, Return, Call
  <2>12. CASE DockerUploadUntag
    BY <2>12 DEF DockerUploadUntag, Continue, KeepDir
  <2>13. CASE DockerUploadDone
    BY <2>13 DEF DockerUploadDone, Writes, Return, Call, KeepDir
  <2>14. CASE DockerDownloadDone
    BY <2>14 DEF DockerDownloadDone, Return, Call, KeepDir
  <2>15. CASE DockerDestroyInitial
    BY <2>15 DEF DockerDestroyInitial, Continue, Return, Call, KeepDir
  <2> QED BY <1>12, <2>1, <2>2, <2>3, <2>4, <2>5, <2>6, <2>7, <2>8, <2>9, <2>10, <2>11,
             <2>12, <2>13, <2>14, <2>15 DEF DockerStep
<1> QED BY <1>1, <1>2, <1>3, <1>4, <1>5, <1>6, <1>7, <1>8, <1>9, <1>10, <1>11, <1>12
        DEF DockerNext

LEMMA LocalPoints ==
  /\ \A q \in Points : MountPc(q) \in {"mount dev", "mount pts", "mount proc"}
  /\ \A q \in Points : Next_(q) \in MountPcs
BY DEF Points, MountPc, Next_, MountPcs

LEMMA DictLocal == DictInv /\ LocalNext => DictInv'
<1> SUFFICES ASSUME DictInv, LocalNext PROVE DictInv'
  OBVIOUS
<1> USE PrimedFields DEF DictInv, DockerPcs, LocalPcs, MountPcs, UmountPcs, VagrantPcs, OtherPcs
<1>1. CASE LocalCreate
  <2>1. CASE LeftBehind /\ Continue("idle")
    BY <1>1, <2>1 DEF LocalCreate, CanSetUp, Idle, LeftBehind, Continue
  <2>2. ASSUME NEW type \in {"directory", "chroot"}, Unpacked(NewMeta(type), InputsTar(Extracted(type))),
               Call("mount dev", NewMeta(type), NoLoc) \/ Continue("idle")
        PROVE  DictInv'
    <3>1. meta' = NewMeta(type) /\ dir' /\ Fields(meta') /\ meta'.unpacker = type
      BY <2>2, NewMetaFields DEF Unpacked
    <3>2. \/ pc' = "idle"
          \/ pc' = "mount dev" /\ dct' = meta' /\ Fields(dct')
      BY <1>1, <2>2, <3>1 DEF Call, Continue, LocalCreate, CanSetUp, Idle
    <3> QED BY <3>1, <3>2
  <2> QED BY <1>1, <2>1, <2>2 DEF LocalCreate
<1>2. CASE LocalRun
  BY <1>2, MetaRead DEF LocalRun, Reads, Idle, Call, KeepDir
<1>3. CASE LocalUpload
  BY <1>3, MetaRead DEF LocalUpload, Reads, Idle, Call, KeepDir
<1>4. CASE ChrootMount
  BY <1>4, MetaRead DEF ChrootMount, Reads, Idle, Call, KeepDir
<1>5. CASE ChrootUnmount
  BY <1>5, MetaRead DEF ChrootUnmount, Reads, Idle, Call, KeepDir
<1>6. CASE LocalDestroyDir
  BY <1>6 DEF LocalDestroyDir, RmTree, Return, Call
<1>7. CASE LocalCrash
  BY <1>7 DEF LocalCrash, Crash, Return, Call
<1>8. CASE Reboot
  BY <1>8 DEF Reboot, Return, Call
<1>9. CASE LocalStep
  <2>1. CASE LocalRunExits
    BY <2>1 DEF LocalRunExits, Call, KeepDir
  <2>2. CASE LocalRunDone
    <3>1. pc = "local status" /\ pc' = "idle" /\ UNCHANGED dir
          /\ meta' = [dct EXCEPT !.input_files = metadata_update_run(dct.input_files, loc.runs)]
      BY <2>2 DEF LocalRunDone, Writes, Return, Call, KeepDir
    <3>2. Fields(meta')
      BY <3>1 DEF Fields, Keys
    <3> QED BY <3>1, <3>2
  <2>3. CASE LocalUploadFile
    <3>1. pc = "local upload" /\ pc' = "local upload" /\ UNCHANGED <<meta, dir>>
      BY <2>3 DEF LocalUploadFile, Call, KeepDir
    <3>2. \/ dct' = dct
          \/ dct' = [dct EXCEPT !.input_files = StatusAfter(dct.input_files, Head(loc.specs))]
      BY <2>3 DEF LocalUploadFile, Call
    <3>3. Fields(dct') /\ dct'.unpacker = dct.unpacker
      BY <3>1, <3>2 DEF Fields, Keys
    <3> QED BY <3>1, <3>3
  <2>4. CASE LocalUploadDone
    BY <2>4 DEF LocalUploadDone, Writes, Return, Call, KeepDir
  <2>5. CASE ChrootMounted
    <3>1. pc = "mounted" /\ pc' = "idle" /\ UNCHANGED dir /\ meta' = [dct EXCEPT !.mounted = TRUE]
      BY <2>5 DEF ChrootMounted, Writes, Return, Call, KeepDir
    <3>2. Fields(meta')
      BY <3>1 DEF Fields, Keys
    <3> QED BY <3>1, <3>2
  <2>6. CASE ChrootUnmounted
    <3>1. pc = "unmounted" /\ pc' \in {"idle", "rmtree"} /\ UNCHANGED dir
          /\ meta' = [dct EXCEPT !.mounted = FALSE]
      BY <2>6 DEF ChrootUnmounted, Writes, Return, Call, KeepDir
    <3>2. Fields(meta')
      BY <3>1 DEF Fields, Keys
    <3> QED BY <3>1, <3>2
  <2>7. ASSUME NEW q \in Points, ChrootMountPoint(q) PROVE DictInv'
    BY <2>7, LocalPoints DEF ChrootMountPoint, Return, Continue, Call, KeepDir
  <2>8. ASSUME NEW d \in {"dev", "proc"}, ChrootUmountPoint(d) PROVE DictInv'
    BY <2>8 DEF ChrootUmountPoint, Return, Continue, Call, KeepDir
  <2> QED BY <1>9, <2>1, <2>2, <2>3, <2>4, <2>5, <2>6, <2>7, <2>8 DEF LocalStep
<1> QED BY <1>1, <1>2, <1>3, <1>4, <1>5, <1>6, <1>7, <1>8, <1>9 DEF LocalNext

LEMMA DictVagrant == DictInv /\ VagrantNext => DictInv'
<1> SUFFICES ASSUME DictInv, VagrantNext PROVE DictInv'
  OBVIOUS
<1> USE PrimedFields DEF DictInv, DockerPcs, LocalPcs, MountPcs, UmountPcs, VagrantPcs, OtherPcs
<1>1. CASE VagrantCreate
  <2>1. CASE LeftBehind /\ Continue("idle")
    BY <1>1, <2>1 DEF VagrantCreate, CanSetUp, Idle, LeftBehind, Continue
  <2>2. ASSUME NEW b \in BOOLEAN, Unpacked([NewMeta("vagrant") EXCEPT !.use_chroot = b], DataTgz),
               \/ Call("vagrant ssh", [NewMeta("vagrant") EXCEPT !.use_chroot = b],
                       [NoLoc EXCEPT !.then = "idle"])
               \/ Continue("idle")
        PROVE  DictInv'
    <3>1. meta' = [NewMeta("vagrant") EXCEPT !.use_chroot = b] /\ dir'
      BY <2>2 DEF Unpacked
    <3>2. Fields(meta') /\ meta'.unpacker = "vagrant"
      BY <3>1 DEF Fields, Keys, NewMeta
    <3>3. \/ pc' = "idle"
          \/ pc' = "vagrant ssh" /\ dct' = meta' /\ Fields(dct') /\ loc'.then = "idle"
      BY <1>1, <2>2, <3>1, <3>2 DEF Call, Continue, VagrantCreate, CanSetUp, Idle, NoLoc
    <3> QED BY <3>1, <3>2, <3>3
  <2> QED BY <1>1, <2>1, <2>2 DEF VagrantCreate
<1>2. ASSUME NEW l, NEW label \in {"idle", "vagrant run", "vagrant upload"},
             VagrantCommand(label, l), l = [NoLoc EXCEPT !.runs = l.runs, !.specs = l.specs]
      PROVE  DictInv'
  <2>1. loc' = [l EXCEPT !.then = label] /\ pc' = "vagrant ssh" /\ dct' = meta
        /\ UNCHANGED <<meta, dir>> /\ meta.unpacker = "vagrant"
    BY <1>2 DEF VagrantCommand, Reads, Call, KeepDir
  <2>2. loc'.then = label
    BY <1>2, <2>1 DEF NoLoc
  <2> QED BY <2>1, <2>2, MetaRead
<1>3. CASE VagrantStart \/ VagrantDownload \/ VagrantRun \/ VagrantUpload
  <2>1. CASE VagrantStart \/ VagrantDownload
    <3>1. NoLoc = [NoLoc EXCEPT !.runs = NoLoc.runs, !.specs = NoLoc.specs]
      BY DEF NoLoc
    <3> QED BY <2>1, <3>1, <1>2 DEF VagrantStart, VagrantDownload
  <2>2. CASE VagrantRun
    <3>1. PICK arg \in RunArgs :
            VagrantCommand("vagrant run", [NoLoc EXCEPT !.runs = GetRuns(arg)])
      BY <2>2 DEF VagrantRun
    <3> DEFINE l == [NoLoc EXCEPT !.runs = GetRuns(arg)]
    <3>2. l = [NoLoc EXCEPT !.runs = l.runs, !.specs = l.specs]
      BY DEF NoLoc
    <3> QED BY <3>1, <3>2, <1>2
  <2>3. CASE VagrantUpload
    <3>1. PICK specs \in UploadArgs :
            VagrantCommand("vagrant upload", [NoLoc EXCEPT !.specs = specs])
      BY <2>3 DEF VagrantUpload
    <3> DEFINE l == [NoLoc EXCEPT !.specs = specs]
    <3>2. l = [NoLoc EXCEPT !.runs = l.runs, !.specs = l.specs]
      BY DEF NoLoc
    <3> QED BY <3>1, <3>2, <1>2
  <2> QED BY <1>3, <2>1, <2>2, <2>3
<1>4. CASE VagrantSuspend
  BY <1>4 DEF VagrantSuspend, sharedVars
<1>5. CASE VagrantDestroyVm
  BY <1>5, MetaRead DEF VagrantDestroyVm, Return, Call, KeepDir
<1>6. CASE VagrantDestroyDir
  BY <1>6 DEF VagrantDestroyDir, RmTree, Return, Call
<1>7. CASE VmPowerOff
  BY <1>7 DEF VmPowerOff, Return, Call
<1>8. CASE Crash({"vagrant"})
  BY <1>8 DEF Crash, Return, Call
<1>9. CASE VagrantStep
  <2>1. CASE VagrantUp
    BY <2>1 DEF VagrantUp, Return, Call, KeepDir
  <2>2. CASE VagrantMachineReady
    BY <2>2 DEF VagrantMachineReady, Return, Continue, Call, KeepDir
  <2>3. CASE VagrantRunExits
    BY <2>3 DEF VagrantRunExits, Return, Call, KeepDir
  <2>4. CASE VagrantRunDone
    <3>1. pc = "vagrant status" /\ pc' = "idle" /\ UNCHANGED dir
          /\ meta' = [dct EXCEPT !.input_files = metadata_update_run(dct.input_files, loc.runs)]
      BY <2>4 DEF VagrantRunDone, Writes, Return, Call, KeepDir
    <3>2. Fields(meta')
      BY <3>1 DEF Fields, Keys
    <3> QED BY <3>1, <3>2
  <2>5. CASE VagrantUploadFile
    <3>1. pc = "vagrant upload" /\ pc' = "vagrant upload" /\ UNCHANGED <<meta, dir>>
      BY <2>5 DEF VagrantUploadFile, Call, KeepDir
    <3>2. \/ dct' = dct
          \/ dct' = [dct EXCEPT !.input_files = StatusAfter(dct.input_files, Head(loc.specs))]
      BY <2>5 DEF VagrantUploadFile, Call
    <3>3. Fields(dct') /\ dct'.unpacker = "vagrant"
      BY <3>1, <3>2 DEF Fields, Keys
    <3> QED BY <3>1, <3>3
  <2>6. CASE VagrantUploadDone
    BY <2>6 DEF VagrantUploadDone, Writes, Return, Call, KeepDir
  <2> QED BY <1>9, <2>1, <2>2, <2>3, <2>4, <2>5, <2>6 DEF VagrantStep
<1> QED BY <1>3, <1>1, <1>4, <1>5, <1>6, <1>7, <1>8, <1>9 DEF VagrantNext

-----------------------------------------------------------------------------
(* The mounts.  What is mounted is recorded in .reprounzip, or the command *)
(* that mounts it is on its way to record it; only then may the tree be    *)
(* removed or another setup begin.                                         *)

Held ==
  /\ dir /\ meta.unpacker = "chroot"
  /\ pc \in LocalPcs \cup {"idle"} /\ pc # "unmounted"
  /\ pc = "umount proc" => mounts["dev"] = 0 /\ mounts["pts"] = 0
  /\ meta.mounted = TRUE \/ pc \in {"mount pts", "mount proc", "mounted"}

MountInv ==
  /\ pc \in MountPcs \cup UmountPcs => meta.unpacker = "chroot"
  /\ pc \in LocalPcs => dct.mounted = meta.mounted
  /\ mounts \in [Points -> Nat]
  /\ ~torn => ~hostWiped /\ (mounts # NoMounts => Held)

LEMMA MountInit == Init => MountInv
BY DEF Init, SharedInit, LocalInit, MountInv, MountPcs, UmountPcs, LocalPcs, NoMounts, Points

\* The steps of the other unpackers are no steps of a chroot's commands.
Elsewhere(type) ==
  \/ UNCHANGED sharedVars
  \/ pc' \notin LocalPcs /\ (~dir \/ meta.unpacker = type \/ pc \notin LocalPcs \cup {"idle"})

LEMMA DockerElsewhere == DockerNext => Elsewhere("docker")
<1> USE DEF Elsewhere, LocalPcs, MountPcs, UmountPcs
<1>1. DockerCreate => Elsewhere("docker")
  BY DEF DockerCreate, CanSetUp, Call, Continue
<1>2. DockerBuild => Elsewhere("docker")
  BY DEF DockerBuild, Reads, Call, Return
<1>3. DockerReset \/ DockerRun \/ DockerUpload => Elsewhere("docker")
  BY DEF DockerReset, DockerRun, DockerUpload, Reads, Call
<1>4. DockerDownload \/ DockerDestroy => Elsewhere("docker")
  BY DEF DockerDownload, DockerDestroy, Reads, Call
<1>5. DockerDestroyDir \/ Crash({"docker"}) => Elsewhere("docker")
  BY DEF DockerDestroyDir, Crash, Reads, Return, Call
<1>6. DockerRunDetached \/ UserRemovesBox => Elsewhere("docker")
  BY DEF DockerRunDetached, UserRemovesBox
<1>7. DockerBuilt \/ DockerResetDone \/ DockerRunFails \/ DockerRunExits => Elsewhere("docker")
  BY DEF DockerBuilt, DockerResetDone, DockerRunFails, DockerRunExits, Return, Call
<1>8. DockerCommit \/ DockerRecord \/ DockerRm \/ DockerUntag \/ DockerRunDone
        => Elsewhere("docker")
  BY DEF DockerCommit, DockerRecord, DockerRm, DockerUntag, DockerRunDone, Return, Call, Continue
<1>9. DockerUploadFile => Elsewhere("docker")
  BY DEF DockerUploadFile, Call
<1>10. DockerUploadBuild \/ DockerUploadUntag \/ DockerUploadDone => Elsewhere("docker")
  BY DEF DockerUploadBuild, DockerUploadUntag, DockerUploadDone, Return, Call, Continue
<1>11. DockerDownloadDone \/ DockerDestroyInitial => Elsewhere("docker")
  BY DEF DockerDownloadDone, DockerDestroyInitial, Return, Call, Continue
<1> QED BY <1>1, <1>2, <1>3, <1>4, <1>5, <1>6, <1>7, <1>8, <1>9, <1>10, <1>11
        DEF DockerNext, DockerStep

LEMMA VagrantElsewhere == DictInv /\ VagrantNext => Elsewhere("vagrant")
<1> SUFFICES ASSUME DictInv PROVE VagrantNext => Elsewhere("vagrant")
  OBVIOUS
<1> USE DEF Elsewhere, LocalPcs, MountPcs, UmountPcs
<1>1. VagrantCreate => Elsewhere("vagrant")
  BY DEF VagrantCreate, CanSetUp, Call, Continue
<1>2. VagrantStart \/ VagrantDownload \/ VagrantRun \/ VagrantUpload => Elsewhere("vagrant")
  BY DEF VagrantStart, VagrantDownload, VagrantRun, VagrantUpload, VagrantCommand, Reads, Call
<1>3. VagrantSuspend => Elsewhere("vagrant")
  BY DEF VagrantSuspend
<1>4. VagrantDestroyVm \/ VagrantDestroyDir => Elsewhere("vagrant")
  BY DEF VagrantDestroyVm, VagrantDestroyDir, Reads, Return, Call
<1>5. VmPowerOff \/ Crash({"vagrant"}) => Elsewhere("vagrant")
  <2>1. Crash({"vagrant"}) => Elsewhere("vagrant")
    BY DEF Crash, Return, Call
  <2>2. VmPowerOff => Elsewhere("vagrant")
    BY DEF VmPowerOff, Return, Call
  <2> QED BY <2>1, <2>2
<1>6. VagrantUp => Elsewhere("vagrant")
  BY DEF VagrantUp, Return, Call
<1>7. VagrantMachineReady => Elsewhere("vagrant")
  BY DEF VagrantMachineReady, Return, Call, Continue, DictInv
<1>8. VagrantRunExits \/ VagrantRunDone \/ VagrantUploadFile \/ VagrantUploadDone
        => Elsewhere("vagrant")
  BY DEF VagrantRunExits, VagrantRunDone, VagrantUploadFile, VagrantUploadDone, Return, Call
<1> QED BY <1>1, <1>2, <1>3, <1>4, <1>5, <1>6, <1>7, <1>8 DEF VagrantNext, VagrantStep

LEMMA MountElsewhere ==
  ASSUME MountInv, UNCHANGED localVars, NEW type, type # "chroot", Elsewhere(type)
  PROVE  MountInv'
<1> USE DEF MountInv, Held, localVars, sharedVars, LocalPcs
<1>1. CASE UNCHANGED sharedVars
  BY <1>1
<1>2. CASE pc' \notin LocalPcs /\ (~dir \/ meta.unpacker = type \/ pc \notin LocalPcs \cup {"idle"})
  BY <1>2
<1> QED BY <1>1, <1>2 DEF Elsewhere

LEMMA LocalMounts == DictInv /\ MountInv /\ LocalNext => MountInv'
<1> SUFFICES ASSUME DictInv, MountInv, LocalNext PROVE MountInv'
  OBVIOUS
<1> USE DEF MountInv, Held, LocalPcs, MountPcs, UmountPcs
<1>1. CASE LocalCreate
  <2>1. CASE LeftBehind /\ Continue("idle")
    BY <1>1, <2>1 DEF LocalCreate, CanSetUp, Idle, LeftBehind, Continue
  <2>2. ASSUME NEW type \in {"directory", "chroot"}, Unpacked(NewMeta(type), InputsTar(Extracted(type))),
               \/ type = "chroot" /\ Call("mount dev", NewMeta(type), NoLoc)
               \/ Continue("idle")
        PROVE  MountInv'
    <3>1. meta'.unpacker = type /\ meta'.mounted = FALSE
      BY <2>2, NewMetaFields DEF Unpacked
    <3>2. \/ pc' = "idle"
          \/ pc' = "mount dev" /\ type = "chroot" /\ dct' = meta'
      BY <1>1, <2>2 DEF Call, Continue, LocalCreate, CanSetUp, Idle, Unpacked
    <3>3. ~dir /\ UNCHANGED <<mounts, torn, hostWiped>>
      BY <1>1 DEF LocalCreate, CanSetUp
    <3> QED BY <3>1, <3>2, <3>3
  <2>3. \/ LeftBehind /\ Continue("idle")
        \/ \E type \in {"directory", "chroot"} :
              /\ Unpacked(NewMeta(type), InputsTar(Extracted(type)))
              /\ \/ type = "chroot" /\ Call("mount dev", NewMeta(type), NoLoc)
                 \/ Continue("idle")
    BY <1>1 DEF LocalCreate
  <2> QED BY <2>1, <2>2, <2>3
<1>2. CASE LocalRun \/ LocalUpload
  <2>1. CASE LocalRun
    BY <2>1 DEF LocalRun, Reads, Idle, Call, KeepDir, localVars
  <2>2. CASE LocalUpload
    BY <2>2 DEF LocalUpload, Reads, Idle, Call, KeepDir, localVars
  <2> QED BY <1>2, <2>1, <2>2
<1>3. CASE ChrootMount
  BY <1>3 DEF ChrootMount, Reads, Idle, Call, KeepDir, localVars
<1>4. CASE ChrootUnmount
  BY <1>4 DEF ChrootUnmount, Reads, Idle, Call, KeepDir, localVars
<1>5. CASE LocalDestroyDir
  <2>1. ~torn => mounts = NoMounts
    BY <1>5 DEF LocalDestroyDir, Reads, Idle
  <2>2. pc' = "idle" /\ UNCHANGED mounts
    BY <1>5 DEF LocalDestroyDir, Return, Call
  <2>3. CASE mounts = NoMounts
    BY <1>5, <2>2, <2>3 DEF LocalDestroyDir
  <2>4. CASE mounts # NoMounts
    BY <1>5, <2>1, <2>2, <2>4 DEF LocalDestroyDir
  <2> QED BY <2>3, <2>4
<1>6. CASE LocalCrash
  BY <1>6 DEF LocalCrash, Crash, Return, Call
<1>7. CASE Reboot
  BY <1>7 DEF Reboot, Return, Call, NoMounts
<1>8. CASE LocalStep
  <2>1. CASE LocalRunExits
    BY <2>1 DEF LocalRunExits, Call, KeepDir
  <2>2. CASE LocalRunDone
    <3>1. /\ pc = "local status" /\ pc' = "idle" /\ UNCHANGED <<dir, mounts, torn, hostWiped>>
          /\ meta' = [dct EXCEPT !.input_files = metadata_update_run(dct.input_files, loc.runs)]
      BY <2>2 DEF LocalRunDone, Writes, Return, Call, KeepDir, localVars
    <3>2. Fields(dct) /\ dct.unpacker = meta.unpacker
      BY <3>1 DEF DictInv
    <3>3. meta'.unpacker = meta.unpacker /\ meta'.mounted = meta.mounted
      BY <3>1, <3>2 DEF Fields, Keys
    <3> QED BY <3>1, <3>3
  <2>3. CASE LocalUploadFile
    <3>1. /\ pc = "local upload" /\ pc' = "local upload"
          /\ UNCHANGED <<meta, dir, mounts, torn, hostWiped>>
      BY <2>3 DEF LocalUploadFile, Call, KeepDir
    <3>2. \/ dct' = dct
          \/ dct' = [dct EXCEPT !.input_files = StatusAfter(dct.input_files, Head(loc.specs))]
      BY <2>3 DEF LocalUploadFile, Call
    <3>3. Fields(dct)
      BY <3>1 DEF DictInv
    <3>4. dct'.mounted = dct.mounted
      BY <3>1, <3>2, <3>3 DEF Fields, Keys
    <3> QED BY <3>1, <3>4
  <2>4. CASE LocalUploadDone
    BY <2>4 DEF LocalUploadDone, Writes, Return, Call, KeepDir, localVars, DictInv
  <2>5. CASE ChrootMounted
    <3>1. /\ pc = "mounted" /\ pc' = "idle" /\ UNCHANGED <<dir, mounts, torn, hostWiped>>
          /\ meta' = [dct EXCEPT !.mounted = TRUE]
      BY <2>5 DEF ChrootMounted, Writes, Return, Call, KeepDir, localVars
    <3>2. Fields(dct) /\ dct.unpacker = meta.unpacker /\ dir
      BY <3>1 DEF DictInv
    <3>3. meta'.unpacker = meta.unpacker /\ meta'.mounted = TRUE
      BY <3>1, <3>2 DEF Fields, Keys
    <3> QED BY <3>1, <3>2, <3>3
  <2>6. CASE ChrootUnmounted
    <3>1. /\ pc = "unmounted" /\ pc' \in {"idle", "rmtree"}
          /\ UNCHANGED <<dir, mounts, torn, hostWiped>>
      BY <2>6 DEF ChrootUnmounted, Return, Call, KeepDir, localVars
    <3> QED BY <3>1
  <2>7. ASSUME NEW q \in Points, ChrootMountPoint(q) PROVE MountInv'
    <3>1. pc \in {"mount dev", "mount pts", "mount proc"} /\ UNCHANGED <<meta, dir, hostWiped>>
      BY <2>7, LocalPoints DEF ChrootMountPoint, KeepDir
    <3>2. CASE pc' = "idle" /\ torn' = TRUE /\ UNCHANGED mounts
      BY <3>1, <3>2
    <3>3. CASE /\ mounts' = [mounts EXCEPT ![q] = @ + 1] /\ Continue(Next_(q)) /\ UNCHANGED torn
      <4>1. mounts' \in [Points -> Nat]
        <5>1. mounts \in [Points -> Nat]
          OBVIOUS
        <5> HIDE DEF MountInv
        <5>2. mounts[q] + 1 \in Nat
          BY <5>1
        <5> QED BY <3>3, <5>1, <5>2
      <4>2. pc' \in {"mount pts", "mount proc", "mounted"} /\ dct' = dct
        BY <3>3 DEF Continue, Next_, Points
      <4>3. dir /\ meta.unpacker = "chroot"
        BY <3>1 DEF DictInv
      <4> QED BY <3>1, <3>3, <4>1, <4>2, <4>3
    <3> QED BY <2>7, <3>2, <3>3 DEF ChrootMountPoint, Return, Call
  <2>8. ASSUME NEW d \in {"dev", "proc"}, ChrootUmountPoint(d) PROVE MountInv'
    <3>1. /\ pc = IF d = "dev" THEN "umount dev" ELSE "umount proc"
          /\ UNCHANGED <<meta, dir, hostWiped, torn>>
      BY <2>8 DEF ChrootUmountPoint, KeepDir
    <3>2. CASE ~AnyMounted(d) /\ Return /\ UNCHANGED mounts
      BY <3>1, <3>2 DEF Return, Call
    <3>3. CASE Return /\ mounts' \in {mounts, [mounts EXCEPT !["pts"] = 0]}
      <4>1. mounts' \in [Points -> Nat] /\ (mounts = NoMounts => mounts' = NoMounts)
        <5>1. CASE mounts' = mounts
          BY <5>1
        <5>2. CASE mounts' = [mounts EXCEPT !["pts"] = 0]
          BY <5>2 DEF NoMounts, Points
        <5> QED BY <3>3, <5>1, <5>2
      <4> QED BY <3>1, <3>3, <4>1 DEF Return, Call
    <3>4. CASE /\ mounts' = [p \in Points |-> IF p \in MountedUnder(d) THEN 0 ELSE mounts[p]]
               /\ Continue(IF d = "dev" THEN "umount proc" ELSE "unmounted")
      <4>1. mounts' \in [Points -> Nat] /\ (mounts = NoMounts => mounts' = NoMounts)
        BY <3>4 DEF NoMounts, Points
      <4>2. CASE d = "dev"
        <5>1. mounts'["dev"] = 0 /\ mounts'["pts"] = 0
          BY <3>4, <4>2 DEF MountedUnder, Points
        <5> QED BY <3>1, <3>4, <4>1, <4>2, <5>1 DEF Continue
      <4>3. CASE d = "proc"
        <5>1. ~torn => mounts' = NoMounts
          <6>1. CASE mounts = NoMounts
            BY <4>1, <6>1
          <6>2. CASE ~torn /\ mounts # NoMounts
            <7>1. mounts["dev"] = 0 /\ mounts["pts"] = 0
              BY <3>1, <4>3, <6>2
            <7> QED BY <3>4, <4>3, <7>1 DEF MountedUnder, NoMounts, Points
          <6> QED BY <6>1, <6>2
        <5> QED BY <3>1, <3>4, <4>1, <4>3, <5>1 DEF Continue
      <4> QED BY <4>2, <4>3
    <3> QED BY <2>8, <3>2, <3>3, <3>4 DEF ChrootUmountPoint
  <2> QED BY <1>8, <2>1, <2>2, <2>3, <2>4, <2>5, <2>6, <2>7, <2>8 DEF LocalStep
<1> QED BY <1>1, <1>2, <1>3, <1>4, <1>5, <1>6, <1>7, <1>8 DEF LocalNext

LEMMA DictStep == DictInv /\ [Next]_unpackersVars => DictInv'
<1>1. DictInv /\ UNCHANGED unpackersVars => DictInv'
  <2>1. UNCHANGED unpackersVars => UNCHANGED <<pc, dir, meta, dct, loc>>
    BY DEF unpackersVars, sharedVars
  <2>2. UNCHANGED <<pc, dir, meta, dct, loc>> => (DictInv' <=> DictInv)
    BY DEF DictInv, Fields, Keys, NoMeta, DockerPcs, LocalPcs, MountPcs, UmountPcs, VagrantPcs,
           OtherPcs
  <2> QED BY <2>1, <2>2
<1> QED BY <1>1, DictDocker, DictLocal, DictVagrant DEF Next

LEMMA MountStep == DictInv /\ MountInv /\ [Next]_unpackersVars => MountInv'
<1>1. MountInv /\ UNCHANGED unpackersVars => MountInv'
  <2>1. UNCHANGED unpackersVars => /\ UNCHANGED <<pc, dir, meta, dct, loc>>
                                   /\ UNCHANGED <<mounts, torn, hostWiped>>
    BY DEF unpackersVars, sharedVars, localVars
  <2> QED BY <2>1 DEF MountInv, Held, NoMounts, Points, LocalPcs, MountPcs, UmountPcs
<1>2. MountInv /\ DockerNext /\ UNCHANGED localVars => MountInv'
  BY DockerElsewhere, MountElsewhere
<1>3. DictInv /\ MountInv /\ VagrantNext /\ UNCHANGED localVars => MountInv'
  BY VagrantElsewhere, MountElsewhere
<1> QED BY <1>1, <1>2, <1>3, LocalMounts DEF Next

\* The comment of chroot_mount() in unpackers/default.py holds of every file
\* layout, run and fault: the tree of an experiment is never removed with the
\* host's /dev or /proc under it, but after a mount command that stopped half-way.
THEOREM HostSafety == Spec => []HostSafeUnlessTorn
<1>1. Init => DictInv /\ MountInv
  BY DictInit, MountInit
<1>2. DictInv /\ MountInv /\ [Next]_unpackersVars => (DictInv /\ MountInv)'
  BY DictStep, MountStep
<1>3. DictInv /\ MountInv => HostSafeUnlessTorn
  BY DEF MountInv, HostSafeUnlessTorn
<1> QED BY <1>1, <1>2, <1>3, PTL DEF Spec

\* What is mounted is recorded between two commands, for every file layout, run
\* and fault, but after a mount command that stopped half-way.
THEOREM RecordedMounts == Spec => []MountsRecorded
<1>1. Init => DictInv /\ MountInv
  BY DictInit, MountInit
<1>2. DictInv /\ MountInv /\ [Next]_unpackersVars => (DictInv /\ MountInv)'
  BY DictStep, MountStep
<1>3. DictInv /\ MountInv => MountsRecorded
  BY DEF MountInv, Held, MountsRecorded, Idle, MountPcs
<1> QED BY <1>1, <1>2, <1>3, PTL DEF Spec

-----------------------------------------------------------------------------
(* A command starts with fresh locals, and leaves none behind.             *)

LocInv ==
  /\ pc = "idle" => loc = NoLoc
  /\ pc = "docker build" => loc = [NoLoc EXCEPT !.then = "build"]

LEMMA LocStep == DictInv /\ LocInv /\ [Next]_unpackersVars => LocInv'
<1> SUFFICES ASSUME DictInv, LocInv, [Next]_unpackersVars PROVE LocInv'
  OBVIOUS
<1> USE DEF LocInv, Return, Continue, Call
<1>1. CASE UNCHANGED sharedVars
  BY <1>1 DEF sharedVars
<1>2. CASE DockerNext
  <2>1. DockerCreate \/ DockerBuild => LocInv'
    BY DEF DockerCreate, DockerBuild, CanSetUp, Idle
  <2>2. DockerReset \/ DockerRun \/ DockerUpload \/ DockerDownload \/ DockerDestroy => LocInv'
    BY DEF DockerReset, DockerRun, DockerUpload, DockerDownload, DockerDestroy
  <2>3. DockerDestroyDir \/ Crash({"docker"}) => LocInv'
    BY DEF DockerDestroyDir, Crash
  <2>4. DockerRunDetached \/ UserRemovesBox => LocInv'
    BY <1>1 DEF DockerRunDetached, UserRemovesBox
  <2>5. DockerBuilt \/ DockerResetDone \/ DockerRunFails \/ DockerRunExits => LocInv'
    BY DEF DockerBuilt, DockerResetDone, DockerRunFails, DockerRunExits
  <2>6. DockerCommit \/ DockerRecord \/ DockerRm \/ DockerUntag \/ DockerRunDone => LocInv'
    BY DEF DockerCommit, DockerRecord, DockerRm, DockerUntag, DockerRunDone
  <2>7. DockerUploadFile => LocInv'
    BY DEF DockerUploadFile
  <2>8. DockerUploadBuild \/ DockerUploadUntag \/ DockerUploadDone => LocInv'
    BY DEF DockerUploadBuild, DockerUploadUntag, DockerUploadDone
  <2>9. DockerDownloadDone \/ DockerDestroyInitial => LocInv'
    BY DEF DockerDownloadDone, DockerDestroyInitial
  <2> QED BY <1>2, <2>1, <2>2, <2>3, <2>4, <2>5, <2>6, <2>7, <2>8, <2>9 DEF DockerNext, DockerStep
<1>3. CASE LocalNext
  <2>1. LocalCreate \/ LocalRun \/ LocalUpload \/ ChrootMount \/ ChrootUnmount => LocInv'
    BY DEF LocalCreate, LocalRun, LocalUpload, ChrootMount, ChrootUnmount, CanSetUp, Idle
  <2>2. LocalDestroyDir \/ LocalCrash \/ Reboot => LocInv'
    BY DEF LocalDestroyDir, LocalCrash, Crash, Reboot
  <2>3. LocalRunExits \/ LocalRunDone \/ LocalUploadFile \/ LocalUploadDone => LocInv'
    BY DEF LocalRunExits, LocalRunDone, LocalUploadFile, LocalUploadDone
  <2>4. ChrootMounted \/ ChrootUnmounted => LocInv'
    BY DEF ChrootMounted, ChrootUnmounted
  <2>5. ASSUME NEW q \in Points, ChrootMountPoint(q) PROVE LocInv'
    BY <2>5, LocalPoints DEF ChrootMountPoint, MountPcs
  <2>6. ASSUME NEW d \in {"dev", "proc"}, ChrootUmountPoint(d) PROVE LocInv'
    BY <2>6 DEF ChrootUmountPoint
  <2> QED BY <1>3, <2>1, <2>2, <2>3, <2>4, <2>5, <2>6 DEF LocalNext, LocalStep
<1>4. CASE VagrantNext
  <2>1. VagrantCreate => LocInv'
    BY DEF VagrantCreate, CanSetUp, Idle
  <2>2. VagrantStart \/ VagrantDownload \/ VagrantRun \/ VagrantUpload => LocInv'
    BY DEF VagrantStart, VagrantDownload, VagrantRun, VagrantUpload, VagrantCommand
  <2>3. VagrantSuspend => LocInv'
    BY <1>1 DEF VagrantSuspend
  <2>4. VagrantDestroyVm \/ VagrantDestroyDir => LocInv'
    BY DEF VagrantDestroyVm, VagrantDestroyDir
  <2>5. VmPowerOff \/ Crash({"vagrant"}) => LocInv'
    BY DEF VmPowerOff, Crash
  <2>6. VagrantUp => LocInv'
    BY DEF VagrantUp
  <2>7. VagrantMachineReady => LocInv'
    BY DEF VagrantMachineReady, DictInv
  <2>8. VagrantRunExits \/ VagrantRunDone => LocInv'
    BY DEF VagrantRunExits, VagrantRunDone
  <2>9. VagrantUploadFile \/ VagrantUploadDone => LocInv'
    BY DEF VagrantUploadFile, VagrantUploadDone
  <2> QED BY <1>4, <2>1, <2>2, <2>3, <2>4, <2>5, <2>6, <2>7, <2>8, <2>9
          DEF VagrantNext, VagrantStep
<1>5. UNCHANGED unpackersVars => UNCHANGED sharedVars
  BY DEF unpackersVars
<1> QED BY <1>1, <1>2, <1>3, <1>4, <1>5 DEF Next

-----------------------------------------------------------------------------
(* The initial image.  A command only removes the image it replaced, after *)
(* having compared it with the initial one of the dictionary it read.      *)

ImageInv ==
  /\ InitialImageKept
  /\ images = [i \in ImageIds |-> images[i]]
  /\ dockerfile = [f \in IoFiles |-> dockerfile[f]]
  /\ pc \in DockerPcs /\ pc # "docker built" => dct.initial = meta.initial
  /\ pc \in {"docker build", "docker built"} => meta.initial = 0
  /\ pc = "docker built" => Exists(loc.image) /\ images[loc.image] = dockerfile
  /\ pc \in {"docker rmi", "docker upload rmi"} => loc.image # dct.initial
  /\ pc = "docker destroy" => destroyed

LEMMA LeastIsMember == ASSUME NEW S, S \subseteq Nat, S # {} PROVE Least(S) \in S
<1>1. PICK x \in S : \A y \in S : <<y, x>> \notin OpToRel(<, Nat)
  BY NatLessThanWellFounded, WFMin
<1>2. \A y \in S : x <= y
  <2> TAKE y \in S
  <2>1. x \in Nat /\ y \in Nat /\ ~(y < x)
    BY <1>1 DEF OpToRel
  <2> QED BY <2>1
<1> QED BY <1>2 DEF Least

\* A new image takes no name that is in use.
LEMMA NewImageKeeps ==
  ASSUME NEW world, NewImage(world), images = [i \in ImageIds |-> images[i]]
  PROVE  /\ images' = [i \in ImageIds |-> images'[i]]
         /\ Least(FreshImages) \in ImageIds /\ images'[Least(FreshImages)] = world
         /\ \A i \in ImageIds : images[i] # NoImage => images'[i] = images[i]
<1>1. Least(FreshImages) \in FreshImages
  <2>1. FreshImages \subseteq Nat /\ FreshImages # {}
    BY DockerAssumption DEF FreshImages, NewImage, ImageIds
  <2> QED BY <2>1, LeastIsMember
<1>2. Least(FreshImages) \in ImageIds /\ images[Least(FreshImages)] = NoImage
  BY <1>1 DEF FreshImages, Exists
<1>3. images' = [images EXCEPT ![Least(FreshImages)] = world]
  BY DEF NewImage
<1> QED BY <1>2, <1>3

\* Removing an image touches no other.
LEMMA RmiKeeps ==
  ASSUME NEW i, Rmi(i) \/ RmiFails(i), images = [j \in ImageIds |-> images[j]]
  PROVE  /\ images' = [j \in ImageIds |-> images'[j]]
         /\ \A j \in ImageIds : j # i => images'[j] = images[j]
<1>1. CASE Rmi(i)
  BY <1>1 DEF Rmi, Exists
<1>2. CASE RmiFails(i)
  BY <1>2 DEF RmiFails
<1> QED BY <1>1, <1>2

LEMMA ImageInit == Init => ImageInv
BY DEF Init, SharedInit, DockerInit, ImageInv, InitialImageKept, DockerPcs, Nothing, NoMeta

\* What a step must do to keep ImageInv while the directory stays.
LEMMA ImageFrame ==
  ASSUME ImageInv, UNCHANGED <<dockerfile, destroyed>>,
         images' = [i \in ImageIds |-> images'[i]],
         meta' = meta \/ meta'.unpacker # "docker" \/ meta'.initial = meta.initial,
         meta.unpacker # "docker" => meta'.unpacker # "docker" \/ meta' = meta,
         \A i \in ImageIds : i = meta.initial /\ images[i] # NoImage /\ ~destroyed
             => images'[i] = images[i]
  PROVE  /\ InitialImageKept'
         /\ dockerfile' = [f \in IoFiles |-> dockerfile'[f]]
<1>1. dockerfile' = [f \in IoFiles |-> dockerfile'[f]]
  BY DEF ImageInv
<1>2. SUFFICES ASSUME meta' # NoMeta, meta'.unpacker = "docker", meta'.initial # 0, ~destroyed'
               PROVE  Exists(meta.initial)' /\ images'[meta'.initial] = dockerfile'
  BY <1>1 DEF InitialImageKept, NoMeta
<1>3. meta.unpacker = "docker" /\ meta'.initial = meta.initial
  BY <1>2
<1>4. meta # NoMeta
  BY <1>3 DEF NoMeta
<1>5. Exists(meta.initial) /\ images[meta.initial] = dockerfile
  BY <1>2, <1>3, <1>4 DEF ImageInv, InitialImageKept
<1>6. images'[meta.initial] = images[meta.initial]
  BY <1>2, <1>5 DEF Exists
<1> QED BY <1>3, <1>5, <1>6 DEF Exists, ImageIds, NoImage

LEMMA ImageDocker ==
  ASSUME IoFiles # {}, DictInv, LocInv, ImageInv, DockerNext
  PROVE  ImageInv'
<1> USE DEF DockerPcs
<1>0. /\ images = [i \in ImageIds |-> images[i]] /\ dockerfile = [f \in IoFiles |-> dockerfile[f]]
      /\ dockerfile # NoImage
  BY DEF ImageInv, NoImage
<1>1. CASE DockerCreate
  <2>1. UNCHANGED <<images, destroyed>> /\ pc' \in {"idle", "docker build"}
    BY <1>1 DEF DockerCreate, Call, Continue, CanSetUp, Idle
  <2>2. dockerfile' = [f \in IoFiles |-> dockerfile'[f]]
    BY <1>0, <1>1 DEF DockerCreate, Recipe
  <2>3. CASE meta' = NewMeta("docker")
    <3>1. meta'.initial = 0
      BY <2>3, NewMetaFields
    <3> QED BY <1>0, <2>1, <2>2, <3>1 DEF ImageInv, InitialImageKept
  <2>4. CASE UNCHANGED meta /\ pc' = "idle"
    <3>1. meta' = NoMeta
      BY <1>1, <2>4 DEF DockerCreate, CanSetUp, DictInv
    <3> QED BY <1>0, <2>1, <2>2, <2>4, <3>1 DEF ImageInv, InitialImageKept
  <2> QED BY <1>1, <2>3, <2>4 DEF DockerCreate, Unpacked, LeftBehind, Continue
<1>2. CASE DockerBuild
  <2>1. meta.initial = 0 /\ meta.unpacker = "docker"
    BY <1>2 DEF DockerBuild, Reads, ImageInv, DictInv
  <2>2. CASE /\ NewImage(dockerfile) /\ UNCHANGED <<dockerfile, meta>>
             /\ Call("docker built", meta, [loc EXCEPT !.image = Least(FreshImages)])
    <3> DEFINE i == Least(FreshImages)
    <3>1. i \in ImageIds /\ images'[i] = dockerfile /\ images' = [j \in ImageIds |-> images'[j]]
      BY <1>0, <2>2, NewImageKeeps
    <3>2. loc'.image = i
      <4>1. loc = NoLoc \/ loc = [NoLoc EXCEPT !.then = "build"]
        BY <1>2 DEF DockerBuild, Reads, Idle, LocInv
      <4>2. loc' = [loc EXCEPT !.image = i]
        BY <2>2 DEF Call
      <4> HIDE DEF i
      <4> QED BY <4>1, <4>2 DEF NoLoc
    <3>3. Exists(loc.image)' /\ images'[loc'.image] = dockerfile'
      BY <1>0, <2>2, <3>1, <3>2 DEF Exists, ImageIds, NoImage
    <3> QED BY <1>0, <2>1, <2>2, <3>1, <3>3 DEF Call, ImageInv, InitialImageKept
  <2>3. CASE RmTree(FALSE) /\ dockerfile' = Nothing /\ Return /\ UNCHANGED images
    <3>1. meta' = NoMeta /\ pc' = "idle"
      BY <2>3 DEF RmTree, Return, Call
    <3> QED BY <1>0, <2>3, <3>1 DEF ImageInv, InitialImageKept, Nothing
  <2>4. CASE UNCHANGED <<meta, dockerfile, images>> /\ Return
    BY <1>0, <2>1, <2>4 DEF ImageInv, InitialImageKept, Return, Call
  <2> QED BY <1>2, <2>2, <2>3, <2>4 DEF DockerBuild

<1>3. ASSUME UNCHANGED <<dockerfile, destroyed, images, meta>>,
             pc' \notin DockerPcs \cup {"docker build", "docker destroy"}
      PROVE  ImageInv'
  BY <1>0, <1>3, ImageFrame DEF ImageInv
<1>4. ASSUME UNCHANGED <<dockerfile, destroyed, images, meta>>,
             pc' \in {"docker run", "docker commit", "docker rm", "docker upload", "docker status"},
             dct'.initial = meta.initial
      PROVE  ImageInv'
  BY <1>0, <1>4, ImageFrame DEF ImageInv
<1>5. CASE DockerReset
  <2>1. /\ UNCHANGED <<dockerfile, destroyed, meta>> /\ pc' = "docker reset"
        /\ meta.unpacker = "docker" /\ dct' = [meta EXCEPT !.current = meta.initial]
        /\ meta.current # meta.initial /\ (Rmi(meta.current) \/ RmiFails(meta.current))
    BY <1>5 DEF DockerReset, Reads, Call, KeepDir
  <2>2. Fields(meta)
    BY <2>1, MetaRead
  <2>3. dct'.initial = meta.initial
    BY <2>1, <2>2 DEF Fields, Keys
  <2>4. /\ images' = [j \in ImageIds |-> images'[j]]
        /\ \A j \in ImageIds : j = meta.initial => images'[j] = images[j]
    BY <1>0, <2>1, RmiKeeps
  <2>5. InitialImageKept' /\ dockerfile' = [f \in IoFiles |-> dockerfile'[f]]
    BY <2>1, <2>4, ImageFrame
  <2> QED BY <2>1, <2>3, <2>4, <2>5 DEF ImageInv
<1>6. CASE DockerRun \/ DockerUpload \/ DockerRunDetached \/ UserRemovesBox \/ DockerDownload
  <2>1. CASE DockerRun \/ DockerUpload
    BY <2>1, <1>4 DEF DockerRun, DockerUpload, Call, dockerVars
  <2>2. CASE DockerDownload
    BY <2>2, <1>3 DEF DockerDownload, Call
  <2>3. CASE DockerRunDetached \/ UserRemovesBox
    BY <2>3, <1>3 DEF DockerRunDetached, UserRemovesBox, sharedVars, Reads, Idle
  <2> QED BY <1>6, <2>1, <2>2, <2>3
<1>7. CASE DockerDestroy
  <2>1. /\ UNCHANGED <<dockerfile, meta>> /\ destroyed' = TRUE /\ pc' = "docker destroy"
        /\ UNCHANGED images \/ Rmi(meta.current) \/ RmiFails(meta.current)
    BY <1>7 DEF DockerDestroy, Call
  <2>2. images' = [j \in ImageIds |-> images'[j]]
    BY <1>0, <2>1, RmiKeeps
  <2> QED BY <1>0, <2>1, <2>2 DEF ImageInv, InitialImageKept
<1>8. CASE DockerDestroyDir
  <2>1. /\ meta' = NoMeta /\ pc' = "idle" /\ UNCHANGED images
        /\ dockerfile' = [f \in IoFiles |-> dockerfile'[f]]
    BY <1>8 DEF DockerDestroyDir, RmTree, Return, Call, Nothing
  <2> QED BY <1>0, <2>1 DEF ImageInv, InitialImageKept
<1>9. CASE Crash({"docker"}) /\ UNCHANGED dockerVars
  BY <1>9, <1>3 DEF Crash, Return, Call, dockerVars
<1>10. CASE DockerStep
  <2>1. CASE DockerBuilt
    <3>1. /\ meta' = [dct EXCEPT !.initial = loc.image, !.current = loc.image]
          /\ pc = "docker built" /\ pc' = "idle" /\ UNCHANGED <<images, dockerfile>>
      BY <2>1 DEF DockerBuilt, Writes, Return, Call, dockerVars
    <3>2. Fields(dct) /\ Exists(loc.image) /\ images[loc.image] = dockerfile
      BY <3>1 DEF DictInv, ImageInv
    <3>3. meta'.initial = loc.image
      BY <3>1, <3>2 DEF Fields, Keys
    <3> QED BY <1>0, <3>1, <3>2, <3>3 DEF ImageInv, InitialImageKept, Exists, ImageIds, NoImage
  <2>2. ASSUME pc \in DockerPcs, pc # "docker built",
               pc' \in {"idle", "docker rm"}, dct' = dct \/ pc' = "idle",
               meta' = dct \/ (Fields(dct) => meta' = [dct EXCEPT !.input_files = meta'.input_files]),
               UNCHANGED <<dockerfile, destroyed, images>>
        PROVE  ImageInv'
    <3>1. Fields(dct) /\ meta.unpacker = "docker" /\ dct.initial = meta.initial
      BY <2>2 DEF DictInv, ImageInv
    <3>2. meta'.initial = meta.initial
      BY <2>2, <3>1 DEF Fields, Keys
    <3>3. InitialImageKept' /\ dockerfile' = [f \in IoFiles |-> dockerfile'[f]]
      BY <1>0, <2>2, <3>1, <3>2, ImageFrame
    <3> QED BY <1>0, <2>2, <3>1, <3>2, <3>3 DEF ImageInv
  <2>3. CASE DockerResetDone \/ DockerRecord \/ DockerUploadDone
    BY <2>3, <2>2 DEF DockerResetDone, DockerRecord, DockerUploadDone, Writes, Return, Continue,
                      Call, dockerVars
  <2>4. CASE DockerRunDone
    <3>1. /\ pc = "docker status" /\ pc' = "idle" /\ UNCHANGED <<dockerfile, destroyed, images>>
          /\ meta' = [dct EXCEPT !.input_files = metadata_update_run(dct.input_files, loc.runs)]
      BY <2>4 DEF DockerRunDone, Writes, Return, Call, dockerVars
    <3>2. Fields(dct) => meta' = [dct EXCEPT !.input_files = meta'.input_files]
      BY <3>1 DEF Fields, Keys
    <3> QED BY <2>2, <3>1, <3>2
  <2>5. CASE DockerRunFails \/ DockerDownloadDone
    BY <2>5, <1>3 DEF DockerRunFails, DockerDownloadDone, Return, Call
  <2>6. CASE DockerRunExits
    BY <2>6, <1>4 DEF DockerRunExits, Call, ImageInv
  <2>7. CASE DockerCommit
    <3>1. CASE pc' = "idle" /\ UNCHANGED images
      BY <2>7, <3>1, <1>3 DEF DockerCommit
    <3>2. CASE /\ pc' = "docker record" /\ NewImage(boxes[loc.box].fs)
               /\ dct' = [dct EXCEPT !.current = Least(FreshImages)]
      <4>1. pc = "docker commit" /\ UNCHANGED <<dockerfile, destroyed, meta>>
        BY <2>7 DEF DockerCommit
      <4>2. Fields(dct) /\ dct.initial = meta.initial
        BY <4>1 DEF DictInv, ImageInv
      <4>3. dct'.initial = meta.initial
        BY <3>2, <4>2 DEF Fields, Keys
      <4>4. /\ images' = [i \in ImageIds |-> images'[i]]
            /\ \A i \in ImageIds : images[i] # NoImage => images'[i] = images[i]
        BY <1>0, <3>2, NewImageKeeps
      <4>5. InitialImageKept' /\ dockerfile' = [f \in IoFiles |-> dockerfile'[f]]
        BY <4>1, <4>4, ImageFrame
      <4> QED BY <3>2, <4>1, <4>3, <4>4, <4>5 DEF ImageInv
    <3> QED BY <2>7, <3>1, <3>2 DEF DockerCommit, Return, Call
  <2>8. CASE DockerRm
    <3>1. /\ UNCHANGED <<dockerfile, destroyed, images, meta, dct, loc>> /\ pc = "docker rm"
          /\ pc' \in {"docker rmi", "docker status"}
          /\ pc' = "docker rmi" => loc.image # dct.initial
      BY <2>8 DEF DockerRm, Continue
    <3>2. InitialImageKept' /\ dockerfile' = [f \in IoFiles |-> dockerfile'[f]]
      BY <1>0, <3>1, ImageFrame
    <3> QED BY <1>0, <3>1, <3>2 DEF ImageInv
  <2>9. CASE DockerUntag \/ DockerUploadUntag
    <3>1. /\ UNCHANGED <<dockerfile, destroyed, meta>>
          /\ pc \in {"docker rmi", "docker upload rmi"}
          /\ \/ pc' = "idle"
             \/ pc' \in {"docker status", "docker upload record"} /\ dct' = dct
          /\ Rmi(loc.image) \/ RmiFails(loc.image)
      BY <2>9 DEF DockerUntag, DockerUploadUntag, Continue, Return, Call
    <3>2. loc.image # meta.initial /\ dct.initial = meta.initial
      BY <3>1 DEF ImageInv
    <3>3. /\ images' = [j \in ImageIds |-> images'[j]]
          /\ \A j \in ImageIds : j = meta.initial => images'[j] = images[j]
      BY <1>0, <3>1, <3>2, RmiKeeps
    <3>4. InitialImageKept' /\ dockerfile' = [f \in IoFiles |-> dockerfile'[f]]
      BY <3>1, <3>3, ImageFrame
    <3> QED BY <3>1, <3>2, <3>3, <3>4 DEF ImageInv
  <2>10. CASE DockerUploadFile
    <3>1. /\ pc = "docker upload" /\ pc' = "docker upload"
          /\ UNCHANGED <<dockerfile, destroyed, images, meta>>
      BY <2>10 DEF DockerUploadFile, Call, dockerVars
    <3>2. \/ dct' = dct
          \/ dct' = [dct EXCEPT !.input_files = StatusAfter(dct.input_files, Head(loc.specs))]
      BY <2>10 DEF DockerUploadFile, Call
    <3>3. Fields(dct) /\ dct.initial = meta.initial
      BY <3>1 DEF DictInv, ImageInv
    <3>4. dct'.initial = meta.initial
      BY <3>2, <3>3 DEF Fields, Keys
    <3> QED BY <1>4, <3>1, <3>4
  <2>11. CASE DockerUploadBuild
    <3>1. pc = "docker upload" /\ UNCHANGED <<dockerfile, destroyed>>
      BY <2>11 DEF DockerUploadBuild
    <3>2. CASE Writes(dct) /\ Return /\ UNCHANGED images
      BY <2>2, <3>1, <3>2 DEF Writes, Return, Call
    <3>3. CASE /\ \E world : NewImage(world)
               /\ pc' = IF loc.image # dct.initial THEN "docker upload rmi"
                                                   ELSE "docker upload record"
               /\ dct' = [dct EXCEPT !.current = Least(FreshImages)]
               /\ UNCHANGED <<meta, loc>>
      <4>1. Fields(dct) /\ dct.initial = meta.initial
        BY <3>1 DEF DictInv, ImageInv
      <4>2. dct'.initial = meta.initial
        BY <3>3, <4>1 DEF Fields, Keys
      <4>3. /\ images' = [i \in ImageIds |-> images'[i]]
            /\ \A i \in ImageIds : images[i] # NoImage => images'[i] = images[i]
        BY <1>0, <3>3, NewImageKeeps
      <4>4. InitialImageKept' /\ dockerfile' = [f \in IoFiles |-> dockerfile'[f]]
        BY <3>1, <3>3, <4>3, ImageFrame
      <4>5. pc' = "docker upload rmi" => loc'.image # dct'.initial
        BY <3>3, <4>1, <4>2
      <4>6. pc' \in {"docker upload rmi", "docker upload record"}
        BY <3>3
      <4> QED BY <3>3, <4>2, <4>3, <4>4, <4>5, <4>6 DEF ImageInv
    <3> QED BY <2>11, <3>2, <3>3 DEF DockerUploadBuild, Call
  <2>12. CASE DockerDestroyInitial
    <3>1. /\ pc = "docker destroy" /\ pc' \in {"idle", "docker destroy dir"}
          /\ UNCHANGED <<dockerfile, destroyed, meta>> /\ (Rmi(loc.image) \/ RmiFails(loc.image))
      BY <2>12 DEF DockerDestroyInitial, Continue, Return, Call
    <3>2. images' = [j \in ImageIds |-> images'[j]]
      BY <1>0, <3>1, RmiKeeps
    <3> QED BY <1>0, <3>1, <3>2 DEF ImageInv, InitialImageKept
  <2> QED BY <1>10, <2>1, <2>3, <2>4, <2>5, <2>6, <2>7, <2>8, <2>9, <2>10, <2>11, <2>12
          DEF DockerStep
<1> QED BY <1>1, <1>2, <1>5, <1>6, <1>7, <1>8, <1>9, <1>10 DEF DockerNext

\* The steps of the other unpackers leave the images alone.
NotDocker ==
  \/ UNCHANGED sharedVars
  \/ /\ pc' \notin DockerPcs \cup {"docker build", "docker destroy"}
     /\ meta' = meta \/ meta'.unpacker # "docker"

LEMMA LocalNotDocker == DictInv /\ LocalNext => NotDocker
<1> SUFFICES ASSUME DictInv PROVE LocalNext => NotDocker
  OBVIOUS
<1> USE DEF NotDocker, DockerPcs
<1>1. LocalCreate => NotDocker
  BY NewMetaFields DEF LocalCreate, Unpacked, LeftBehind, Call, Continue
<1>2. LocalRun \/ LocalUpload \/ ChrootMount \/ ChrootUnmount => NotDocker
  BY DEF LocalRun, LocalUpload, ChrootMount, ChrootUnmount, Call
<1>3. LocalDestroyDir \/ LocalCrash \/ Reboot => NotDocker
  <2>1. LocalDestroyDir => pc' = "idle" /\ meta' \in {meta, NoMeta}
    BY DEF LocalDestroyDir, RmTree, Return, Call
  <2>2. LocalDestroyDir => NotDocker
    BY <2>1 DEF NoMeta
  <2> QED BY <2>2 DEF LocalCrash, Crash, Reboot, Return, Call
<1>4. LocalRunExits \/ LocalUploadFile => NotDocker
  BY DEF LocalRunExits, LocalUploadFile, Call
<1>5. ASSUME pc \in LocalPcs, pc' \in {"idle", "rmtree"}, NEW v,
             \/ meta' = dct
             \/ meta' = [dct EXCEPT !.input_files = v]
             \/ meta' = [dct EXCEPT !.mounted = v]
      PROVE  NotDocker
  <2>1. Fields(dct) /\ dct.unpacker # "docker"
    BY <1>5 DEF DictInv
  <2>2. meta'.unpacker = dct.unpacker
    BY <1>5, <2>1 DEF Fields, Keys
  <2> QED BY <1>5, <2>1, <2>2
<1>6. LocalRunDone \/ LocalUploadDone => NotDocker
  BY <1>5 DEF LocalRunDone, LocalUploadDone, Writes, Return, Call, LocalPcs
<1>7. ChrootMounted \/ ChrootUnmounted => NotDocker
  BY <1>5 DEF ChrootMounted, ChrootUnmounted, Writes, Return, Call, LocalPcs, MountPcs, UmountPcs
<1>8. ASSUME NEW q \in Points, ChrootMountPoint(q) PROVE NotDocker
  BY <1>8, LocalPoints DEF ChrootMountPoint, Return, Continue, Call, MountPcs
<1>9. ASSUME NEW d \in {"dev", "proc"}, ChrootUmountPoint(d) PROVE NotDocker
  BY <1>9 DEF ChrootUmountPoint, Return, Continue, Call
<1> QED BY <1>1, <1>2, <1>3, <1>4, <1>6, <1>7, <1>8, <1>9 DEF LocalNext, LocalStep

LEMMA VagrantNotDocker == DictInv /\ VagrantNext => NotDocker
<1> SUFFICES ASSUME DictInv PROVE VagrantNext => NotDocker
  OBVIOUS
<1> USE DEF NotDocker, DockerPcs
<1>1. VagrantCreate => NotDocker
  <2>1. \A b : [NewMeta("vagrant") EXCEPT !.use_chroot = b].unpacker = "vagrant"
    BY DEF NewMeta
  <2> QED BY <2>1 DEF VagrantCreate, Unpacked, LeftBehind, Call, Continue
<1>2. VagrantStart \/ VagrantDownload \/ VagrantRun \/ VagrantUpload => NotDocker
  BY DEF VagrantStart, VagrantDownload, VagrantRun, VagrantUpload, VagrantCommand, Call
<1>3. VagrantSuspend => NotDocker
  BY DEF VagrantSuspend
<1>4. VagrantDestroyVm \/ VagrantDestroyDir => NotDocker
  <2>1. VagrantDestroyDir => pc' = "idle" /\ meta' = NoMeta
    BY DEF VagrantDestroyDir, RmTree, Return, Call
  <2>2. VagrantDestroyDir => NotDocker
    BY <2>1 DEF NoMeta
  <2> QED BY <2>2 DEF VagrantDestroyVm, Return, Call
<1>5. VmPowerOff \/ Crash({"vagrant"}) => NotDocker
  BY DEF VmPowerOff, Crash, Return, Call
<1>6. VagrantUp \/ VagrantRunExits \/ VagrantUploadFile => NotDocker
  BY DEF VagrantUp, VagrantRunExits, VagrantUploadFile, Return, Call
<1>7. VagrantMachineReady => NotDocker
  BY DEF VagrantMachineReady, Return, Call, Continue, DictInv
<1>8. VagrantRunDone \/ VagrantUploadDone => NotDocker
  <2>1. ASSUME pc \in VagrantPcs, pc' = "idle", NEW v,
               meta' = dct \/ meta' = [dct EXCEPT !.input_files = v]
        PROVE  NotDocker
    <3>1. Fields(dct) /\ dct.unpacker = "vagrant"
      BY <2>1 DEF DictInv
    <3>2. meta'.unpacker = dct.unpacker
      BY <2>1, <3>1 DEF Fields, Keys
    <3> QED BY <2>1, <3>1, <3>2
  <2> QED BY <2>1 DEF VagrantRunDone, VagrantUploadDone, Writes, Return, Call, VagrantPcs
<1> QED BY <1>1, <1>2, <1>3, <1>4, <1>5, <1>6, <1>7, <1>8 DEF VagrantNext, VagrantStep

LEMMA ImageElsewhere == ImageInv /\ NotDocker /\ UNCHANGED dockerVars => ImageInv'
<1> SUFFICES ASSUME ImageInv, NotDocker, UNCHANGED dockerVars PROVE ImageInv'
  OBVIOUS
<1>1. UNCHANGED <<images, dockerfile, destroyed>>
  BY DEF dockerVars
<1>2. CASE UNCHANGED sharedVars
  BY <1>1, <1>2 DEF sharedVars, ImageInv, InitialImageKept, Exists, ImageIds, NoImage, NoMeta,
                    DockerPcs
<1>3. CASE /\ pc' \notin DockerPcs \cup {"docker build", "docker destroy"}
           /\ meta' = meta \/ meta'.unpacker # "docker"
  <2>1. images' = [i \in ImageIds |-> images'[i]]
    BY <1>1 DEF ImageInv
  <2>2. InitialImageKept' /\ dockerfile' = [f \in IoFiles |-> dockerfile'[f]]
    BY <1>1, <1>3, <2>1, ImageFrame
  <2> QED BY <1>3, <2>1, <2>2 DEF ImageInv, DockerPcs
<1> QED BY <1>2, <1>3 DEF NotDocker

LEMMA ImageStep ==
  ASSUME IoFiles # {}
  PROVE  DictInv /\ LocInv /\ ImageInv /\ [Next]_unpackersVars => ImageInv'
<1>1. ImageInv /\ UNCHANGED unpackersVars => ImageInv'
  <2>1. UNCHANGED unpackersVars => UNCHANGED sharedVars /\ UNCHANGED dockerVars
    BY DEF unpackersVars
  <2> QED BY <2>1, ImageElsewhere DEF NotDocker
<1> QED BY <1>1, ImageDocker, LocalNotDocker, VagrantNotDocker, ImageElsewhere DEF Next

\* The image 'docker reset' goes back to stays as it was built until destroy is
\* called, whatever fails and wherever a command is killed, for every pack that
\* has an input or output file, every run, upload and fault.
THEOREM InitialImageSafe == ASSUME IoFiles # {} PROVE Spec => []InitialImageKept
<1>1. Init => DictInv /\ LocInv /\ ImageInv
  BY DictInit, ImageInit DEF Init, SharedInit, LocInv
<1>2. DictInv /\ LocInv /\ ImageInv /\ [Next]_unpackersVars => (DictInv /\ LocInv /\ ImageInv)'
  BY DictStep, LocStep, ImageStep
<1>3. DictInv /\ LocInv /\ ImageInv => InitialImageKept
  BY DEF ImageInv
<1> QED BY <1>1, <1>2, <1>3, PTL DEF Spec
=============================================================================
