--------------------------- MODULE LocalUnpacker ----------------------------
(***************************************************************************)
(* The directory and chroot unpackers (unpackers/default.py): the          *)
(* experiment is the tree target/root, changed in place.  In a chroot the  *)
(* host's /dev, /dev/pts and /proc may be bound under it: removing the     *)
(* tree while they are removes the host's own files.                       *)
(*                                                                         *)
(* mount, umount and the machine's reboots are external.                   *)
(***************************************************************************)
EXTENDS Unpacker

CONSTANTS
    OnHost,      \* files of unpacked packages that exist on this host
    MaxMounts    \* how often the same directory is mounted over itself

ASSUME LocalAssumption == MaxMounts \in Nat \ {0}

VARIABLES
    fs,          \* the files under target/root, NoRoot when it is not there
    mounts,      \* mount point -> how many times it is mounted
    hostWiped,   \* history: a tree was removed with a mount point under it
    torn         \* history: a mount command stopped half-way

localVars == <<fs, mounts, hostWiped, torn>>

NoRoot == [f \in {} |-> "absent"]
Points == {"dev", "pts", "proc"}
NoMounts == [p \in Points |-> 0]

LocalTypeOK ==
    /\ fs \in World \cup {NoRoot}
    /\ mounts \in [Points -> 0 .. MaxMounts]
    /\ hostWiped \in BOOLEAN /\ torn \in BOOLEAN

LocalInit == fs = NoRoot /\ mounts = NoMounts /\ hostWiped = FALSE /\ torn = FALSE

-----------------------------------------------------------------------------
(* setup *)

\* The pack's files; in a chroot also the files of the packages that were not
\* packed, copied from the host.
Extracted(type) ==
    [f \in IoFiles |->
        CASE Packed(f) -> "original"
          [] type = "chroot" /\ Origin[f] = "unpacked" /\ f \in OnHost -> "installed"
          [] OTHER -> "absent"]

\* inputs.tar.gz: the input files that exist under root.
InputsTar(world) ==
    [f \in IoFiles |-> IF ReadBy[f] # {} THEN world[f] ELSE "absent"]

\* directory_create(), chroot_create() and, with bind_magic_dirs, chroot_setup().
\* A failure removes root and leaves the target directory behind.
LocalCreate ==
    /\ CanSetUp
    /\ \E type \in {"directory", "chroot"} :
        \/ \E mount \in {type = "chroot", FALSE} :
            /\ fs' = Extracted(type)
            /\ Unpacked(NewMeta(type), InputsTar(Extracted(type)))
            /\ IF mount THEN Call("mount dev", NewMeta(type), NoLoc) ELSE Continue("idle")
        \/ /\ "setup" \in Faults
           /\ LeftBehind /\ Continue("idle") /\ UNCHANGED fs
    /\ UNCHANGED <<mounts, hostWiped, torn>>

-----------------------------------------------------------------------------
(* run *)

\* directory_run() and chroot_run(): whatever the exit status, the outputs of
\* the runs are then said to be generated.
LocalRun ==
    /\ \E type \in {"directory", "chroot"} : Reads(type)
    /\ \E arg \in RunArgs :
        /\ GetRuns(arg) # {}
        /\ Call("local run", meta, [NoLoc EXCEPT !.runs = GetRuns(arg)])
    /\ KeepDir /\ UNCHANGED <<meta, stale, crashed, localVars>>

LocalRunExits ==
    /\ pc = "local run"
    /\ \E wrote \in SUBSET OutputsOf(loc.runs) :
        /\ fs' = [f \in IoFiles |-> IF f \in wrote THEN "generated" ELSE fs[f]]
        /\ Call("local status", dct, [loc EXCEPT !.wrote = wrote])
    /\ KeepDir /\ UNCHANGED <<meta, stale, crashed, mounts, hostWiped, torn>>

LocalRunDone ==
    /\ pc = "local status"
    /\ Writes([dct EXCEPT !.input_files = metadata_update_run(@, loc.runs)])
    /\ stale' = (stale \ OutputsOf(loc.runs)) \cup (OutputsOf(loc.runs) \ loc.wrote)
    /\ Return
    /\ KeepDir /\ UNCHANGED <<crashed, localVars>>

-----------------------------------------------------------------------------
(* upload *)

LocalUpload ==
    /\ \E type \in {"directory", "chroot"} : Reads(type)
    /\ \E specs \in UploadArgs : Call("local upload", meta, [NoLoc EXCEPT !.specs = specs])
    /\ KeepDir /\ UNCHANGED <<meta, stale, crashed, localVars>>

\* LocalUploader.upload_file() replaces the file at once, with the mode of the
\* one in place: there must be one.
LocalUploadFile ==
    /\ pc = "local upload" /\ loc.specs # <<>>
    /\ LET s == Head(loc.specs)
       IN  CASE SpecOutcome(s) = "put" /\ fs[s.name] # "absent" ->
                  /\ fs' = [fs EXCEPT ![s.name] = Uploaded(s)]
                  /\ Call("local upload",
                          [dct EXCEPT !.input_files = StatusAfter(@, s)],
                          [loc EXCEPT !.specs = Tail(@), !.wrote = @ \cup {s.name},
                                      !.told = StaleAfter(@, s)])
             [] SpecOutcome(s) = "skip" ->
                  Call("local upload", dct, [loc EXCEPT !.specs = Tail(@)]) /\ UNCHANGED fs
             [] OTHER ->
                  Call("local upload", dct, [loc EXCEPT !.specs = <<>>]) /\ UNCHANGED fs
    /\ KeepDir /\ UNCHANGED <<meta, stale, crashed, mounts, hostWiped, torn>>

\* The finally of upload() saves the status of the files replaced so far.
LocalUploadDone ==
    /\ pc = "local upload" /\ loc.specs = <<>>
    /\ Writes(dct) /\ Return
    /\ stale' = (stale \ loc.wrote) \cup loc.told
    /\ KeepDir /\ UNCHANGED <<crashed, localVars>>

-----------------------------------------------------------------------------
(* setup/mount *)

Next_(p) == CASE p = "dev" -> "mount pts" [] p = "pts" -> "mount proc" [] p = "proc" -> "mounted"
MountPc(p) == CASE p = "dev" -> "mount dev" [] p = "pts" -> "mount pts" [] p = "proc" -> "mount proc"

\* chroot_mount(): nothing checks that it was not done already.
ChrootMount ==
    /\ Reads("chroot") /\ \A p \in Points : mounts[p] < MaxMounts
    /\ Call("mount dev", meta, NoLoc)
    /\ KeepDir /\ UNCHANGED <<meta, stale, crashed, localVars>>

\* check_call(['mount', ...]): its exception leaves what was mounted before.
ChrootMountPoint(p) ==
    /\ pc = MountPc(p)
    /\ \/ /\ mounts' = [mounts EXCEPT ![p] = @ + 1]
          /\ Continue(Next_(p)) /\ UNCHANGED torn
       \/ /\ "mount" \in Faults
          /\ Return /\ torn' = TRUE /\ UNCHANGED mounts
    /\ KeepDir /\ UNCHANGED <<meta, stale, crashed, fs, hostWiped>>

\* Faulty variant: the mount is not written down.
ChrootMountedForgets ==
    /\ pc = "mounted" /\ Return
    /\ KeepDir /\ UNCHANGED <<meta, stale, crashed, localVars>>

ChrootMounted ==
    /\ pc = "mounted"
    /\ Writes([dct EXCEPT !.mounted = TRUE]) /\ Return
    /\ KeepDir /\ UNCHANGED <<stale, crashed, localVars>>

-----------------------------------------------------------------------------
(* destroy, destroy/unmount and destroy/dir *)

MountedUnder(d) == IF d = "dev" THEN {"dev", "pts"} ELSE {"proc"}
AnyMounted(d)   == \E p \in MountedUnder(d) : mounts[p] > 0

\* chroot_unmount() as called by destroy/unmount (then = "none") and by destroy,
\* which goes on without it when the dictionary does not say mounted.
ChrootUnmount ==
    /\ Reads("chroot")
    /\ \E then \in {"none", "dir"} :
        IF meta.mounted
        THEN Call("umount dev", meta, [NoLoc EXCEPT !.then = then])
        ELSE then = "dir" /\ Call("rmtree", NoMeta, NoLoc)
    /\ KeepDir /\ UNCHANGED <<meta, stale, crashed, localVars>>

\* grep ... /proc/mounts | ... | xargs umount: every mount under the point, the
\* last mounted first.  With no such mount umount gets no argument and fails.
ChrootUmountPoint(d) ==
    /\ pc = (IF d = "dev" THEN "umount dev" ELSE "umount proc")
    /\ \/ /\ AnyMounted(d)
          /\ mounts' = [p \in Points |-> IF p \in MountedUnder(d) THEN 0 ELSE mounts[p]]
          /\ Continue(IF d = "dev" THEN "umount proc" ELSE "unmounted")
       \/ ~AnyMounted(d) /\ Return /\ UNCHANGED mounts
       \/ /\ "umount" \in Faults /\ Return    \* a file of it is open
          /\ mounts' \in {mounts, [mounts EXCEPT !["pts"] = 0]}
    /\ KeepDir /\ UNCHANGED <<meta, stale, crashed, fs, hostWiped, torn>>

ChrootUnmounted ==
    /\ pc = "unmounted"
    /\ Writes([dct EXCEPT !.mounted = FALSE])
    /\ IF loc.then = "dir" THEN Call("rmtree", NoMeta, NoLoc) ELSE Return
    /\ KeepDir /\ UNCHANGED <<stale, crashed, localVars>>

\* Faulty variant: destroy/dir does not look at the mounted flag.
LocalDestroyDirAnyway ==
    /\ pc = "rmtree" \/ Reads("directory") \/ Reads("chroot")
    /\ Return
    /\ IF mounts = NoMounts
       THEN RmTree(FALSE) /\ fs' = NoRoot /\ torn' = (torn /\ hostWiped) /\ UNCHANGED hostWiped
       ELSE /\ dir' = TRUE /\ meta' \in {meta, NoMeta} /\ backup' = Nothing
            /\ left' = TRUE
            /\ fs' = Nothing /\ stale' = IoFiles /\ UNCHANGED crashed
            /\ hostWiped' = TRUE /\ UNCHANGED torn
    /\ UNCHANGED mounts

\* directory_destroy() and chroot_destroy_dir(), which refuses when the
\* dictionary says mounted; and the end of chroot_destroy().  rmtree_fixed()
\* enters mount points, then fails to remove them: the target stays, with or
\* without its .reprounzip.
LocalDestroyDir ==
    /\ pc = "rmtree" \/ Reads("directory") \/ (Reads("chroot") /\ ~meta.mounted)
    /\ Return
    /\ IF mounts = NoMounts
       THEN RmTree(FALSE) /\ fs' = NoRoot /\ torn' = (torn /\ hostWiped) /\ UNCHANGED hostWiped
       ELSE /\ dir' = TRUE /\ meta' \in {meta, NoMeta} /\ backup' = Nothing
            /\ left' = TRUE
            /\ fs' = Nothing /\ stale' = IoFiles /\ UNCHANGED crashed
            /\ hostWiped' = TRUE /\ UNCHANGED torn
    /\ UNCHANGED mounts

-----------------------------------------------------------------------------
\* The machine restarts: the mounts are gone, and the command with them.
Reboot ==
    /\ "reboot" \in Faults /\ ~crashed /\ mounts # NoMounts
    /\ mounts' = NoMounts
    /\ stale' = stale \cup loc.wrote /\ crashed' = TRUE
    /\ Return
    /\ UNCHANGED <<dir, meta, backup, left, fs, hostWiped, torn>>

LocalCrash ==
    /\ Crash({"directory", "chroot"})
    /\ torn' = (torn \/ pc \in {"mount pts", "mount proc", "mounted"})
    /\ UNCHANGED <<fs, mounts, hostWiped>>

LocalStep ==
    \/ LocalRunExits \/ LocalRunDone \/ LocalUploadFile \/ LocalUploadDone
    \/ ChrootMounted \/ ChrootUnmounted
    \/ \E p \in Points : ChrootMountPoint(p)
    \/ \E d \in {"dev", "proc"} : ChrootUmountPoint(d)

LocalNext ==
    \/ LocalCreate \/ LocalRun \/ LocalUpload \/ ChrootMount \/ ChrootUnmount
    \/ LocalDestroyDir \/ LocalStep \/ LocalCrash \/ Reboot

LocalSpec == SharedInit /\ LocalInit /\ [][LocalNext]_<<sharedVars, localVars>>

-----------------------------------------------------------------------------
(* Properties *)

\* The comment of chroot_mount(): removing the directory while /dev is mounted
\* WILL WIPE the host's /dev.  No destroy command does it as long as no mount
\* command stopped half-way.
HostSafeUnlessTorn == ~torn => ~hostWiped

\* The docstring of chroot_destroy(): the directory is destroyed "unmounting
\* first if necessary".
HostSafe == ~hostWiped

\* What is mounted is recorded, and what is recorded was mounted, unless a
\* command or the machine stopped in between.
MountsRecorded ==
    Idle /\ dir /\ meta # NoMeta /\ ~torn /\ ~crashed
        => (mounts # NoMounts => meta.mounted)
=============================================================================
