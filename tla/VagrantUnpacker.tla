-------------------------- MODULE VagrantUnpacker ---------------------------
(***************************************************************************)
(* reprounzip-vagrant: the experiment is a virtual machine that Vagrant    *)
(* creates, provisions with setup.sh, suspends and destroys; commands      *)
(* reach it over SSH, after machine_setup() has made sure that it runs.    *)
(*                                                                         *)
(* Vagrant, the machine and its reboots are external.                      *)
(***************************************************************************)
EXTENDS Unpacker

CONSTANT MaxStack   \* how often /dev and /proc pile up in the machine's chroot

ASSUME VagrantAssumption == MaxStack \in Nat

VARIABLES
    vm,         \* the machine
    magicDirs   \* setup.sh makes /dev and /proc in the chroot

vagrantVars == <<vm, magicDirs>>

Machine == [state: {"none", "running", "saved", "off"},
            fs: World,            \* the files of the experiment in it
            ready: BOOLEAN,       \* setup.sh ran to its end
            stack: 0 .. MaxStack] \* mounts of /dev over /experimentroot/dev
NoMachine == [state |-> "none", fs |-> Nothing, ready |-> FALSE, stack |-> 0]

VagrantTypeOK == vm \in Machine /\ magicDirs \in BOOLEAN
VagrantInit   == vm = NoMachine /\ magicDirs = FALSE

-----------------------------------------------------------------------------
(* setup/create *)

\* vagrant_setup_create().  The configuration is unpacked first: sys.exit() on
\* a bad option or architecture leaves the directory with nothing else in it;
\* an exception once the directory is being filled removes it.
VagrantCreate ==
    /\ CanSetUp
    /\ \/ \E use_chroot \in BOOLEAN, start \in BOOLEAN :
            LET m == [NewMeta("vagrant") EXCEPT !.use_chroot = use_chroot]
            IN  /\ Unpacked(m, DataTgz)
                /\ magicDirs' \in {use_chroot, FALSE}   \* --dont-bind-magic-dirs
                /\ IF start THEN Call("vagrant ssh", m, [NoLoc EXCEPT !.then = "idle"])
                            ELSE Continue("idle")
       \/ "setup" \in Faults /\ LeftBehind /\ Continue("idle") /\ UNCHANGED magicDirs
    /\ UNCHANGED vm

\* setup.sh: in a chroot the pack is extracted whole and the files of the
\* packages left out are copied from the machine; otherwise all packages are
\* installed and only the other files are extracted.
SetupSh(use_chroot) ==
    [f \in IoFiles |->
        CASE Origin[f] = "other"    -> "original"
          [] Origin[f] = "packed"   -> IF use_chroot THEN "original" ELSE "installed"
          [] Origin[f] = "unpacked" -> "installed"
          [] OTHER                  -> "absent"]

-----------------------------------------------------------------------------
(* machine_setup(), the start of setup/start, run, upload and download *)

VagrantCommand(label, l) ==
    /\ Reads("vagrant")
    /\ Call("vagrant ssh", meta, [l EXCEPT !.then = label])
    /\ KeepDir /\ UNCHANGED <<meta, stale, crashed, vagrantVars>>

VagrantStart    == VagrantCommand("idle", NoLoc)
VagrantDownload == VagrantCommand("idle", NoLoc)
VagrantRun      == \E arg \in RunArgs :
                      /\ GetRuns(arg) # {}
                      /\ VagrantCommand("vagrant run", [NoLoc EXCEPT !.runs = GetRuns(arg)])
VagrantUpload   == \E specs \in UploadArgs :
                      VagrantCommand("vagrant upload", [NoLoc EXCEPT !.specs = specs])

\* vagrant ssh-config fails when the machine is not running: vagrant up.  When
\* setup.sh fails the command stops, but the machine runs on: the next command
\* finds it running and uses it as it is.
VagrantUp ==
    /\ pc = "vagrant ssh" /\ vm.state # "running"
    /\ \/ /\ vm.state = "none"
          /\ vm' = [state |-> "running", fs |-> SetupSh(dct.use_chroot), ready |-> TRUE, stack |-> 0]
          /\ stale' = {f \in IoFiles : Origin[f] = "unpacked"} \cup
                      {f \in IoFiles : dct.input_files[f] # metadata_initial_iofiles[f]}
          /\ UNCHANGED <<pc, dct, loc>>
       \/ /\ vm.state = "none" /\ "provision" \in Faults
          /\ vm' = [NoMachine EXCEPT !.state = "running"]
          /\ stale' = IoFiles /\ Return
       \/ /\ vm.state \in {"saved", "off"}
          /\ vm' = [vm EXCEPT !.state = "running"]
          /\ UNCHANGED <<stale, pc, dct, loc>>
    /\ KeepDir /\ UNCHANGED <<meta, crashed, magicDirs>>

\* The mount of /dev and /proc in the machine's chroot.  The grep that looks
\* for an earlier one, "^/experimentroot/dev$", matches no line of /proc/mounts;
\* with no directory to mount on the command stops.
VagrantMachineReady ==
    /\ pc = "vagrant ssh" /\ vm.state = "running"
    /\ IF dct.use_chroot
       THEN IF vm.ready /\ magicDirs
            THEN /\ vm' = [vm EXCEPT !.stack = IF @ < MaxStack THEN @ + 1 ELSE @]
                 /\ IF loc.then = "idle" THEN Return ELSE Continue(loc.then)
            ELSE Return /\ UNCHANGED vm
       ELSE /\ UNCHANGED vm
            /\ IF loc.then = "idle" THEN Return ELSE Continue(loc.then)
    /\ KeepDir /\ UNCHANGED <<meta, stale, crashed, magicDirs>>

-----------------------------------------------------------------------------
(* run and upload *)

\* vagrant_run(): whatever the exit status, the outputs of the runs are then
\* said to be generated; an error of the SSH connection skips this.
VagrantRunExits ==
    /\ pc = "vagrant run" /\ vm.state = "running"
    /\ \E wrote \in SUBSET OutputsOf(loc.runs) :
        /\ vm' = [vm EXCEPT !.fs = [f \in IoFiles |->
                                        IF f \in wrote THEN "generated" ELSE @[f]]]
        /\ \/ /\ Call("vagrant status", dct, [loc EXCEPT !.wrote = wrote])
              /\ UNCHANGED stale
           \/ "ssh" \in Faults /\ Return /\ stale' = stale \cup wrote
    /\ KeepDir /\ UNCHANGED <<meta, crashed, magicDirs>>

VagrantRunDone ==
    /\ pc = "vagrant status"
    /\ Writes([dct EXCEPT !.input_files = metadata_update_run(@, loc.runs)])
    /\ stale' = (stale \ OutputsOf(loc.runs)) \cup (OutputsOf(loc.runs) \ loc.wrote)
    /\ Return
    /\ KeepDir /\ UNCHANGED <<crashed, vagrantVars>>

\* SSHUploader.upload_file(): the file takes the owner and the mode of the one
\* in place, so there must be one; the command exits when it cannot be moved.
VagrantUploadFile ==
    /\ pc = "vagrant upload" /\ loc.specs # <<>>
    /\ LET s == Head(loc.specs)
       IN  \/ /\ SpecOutcome(s) = "put" /\ vm.state = "running" /\ vm.fs[s.name] # "absent"
              /\ vm' = [vm EXCEPT !.fs[s.name] = Uploaded(s)]
              /\ Call("vagrant upload",
                      [dct EXCEPT !.input_files = StatusAfter(@, s)],
                      [loc EXCEPT !.specs = Tail(@), !.wrote = @ \cup {s.name},
                                  !.told = StaleAfter(@, s)])
           \/ /\ SpecOutcome(s) = "skip"
              /\ Call("vagrant upload", dct, [loc EXCEPT !.specs = Tail(@)]) /\ UNCHANGED vm
           \/ /\ \/ SpecOutcome(s) = "exit"
                 \/ SpecOutcome(s) = "put" /\ vm.fs[s.name] = "absent"
                 \/ "ssh" \in Faults
                 \/ vm.state # "running"
              /\ Call("vagrant upload", dct, [loc EXCEPT !.specs = <<>>]) /\ UNCHANGED vm
    /\ KeepDir /\ UNCHANGED <<meta, stale, crashed, magicDirs>>

\* The finally of vagrant_upload() saves the status of the files replaced.
VagrantUploadDone ==
    /\ pc = "vagrant upload" /\ loc.specs = <<>>
    /\ Writes(dct) /\ Return
    /\ stale' = (stale \ loc.wrote) \cup loc.told
    /\ KeepDir /\ UNCHANGED <<crashed, vagrantVars>>

-----------------------------------------------------------------------------
(* suspend, destroy, destroy/vm and destroy/dir *)

VagrantSuspend ==
    /\ Reads("vagrant") /\ vm.state = "running"
    /\ vm' = [vm EXCEPT !.state = "saved"]
    /\ UNCHANGED <<sharedVars, magicDirs>>

\* vagrant_destroy_vm(), whose failure is ignored; then = "dir" when it is
\* called by destroy.  The status of the files is left as it was.
VagrantDestroyVm ==
    /\ Reads("vagrant")
    /\ \/ vm' = NoMachine /\ stale' = IoFiles
       \/ "tool" \in Faults /\ UNCHANGED <<vm, stale>>
    /\ \E then \in {"dir", "none"} :
        IF then = "dir" THEN Call("vagrant rmtree", NoMeta, NoLoc) ELSE Return
    /\ KeepDir /\ UNCHANGED <<meta, crashed, magicDirs>>

VagrantDestroyDir ==
    /\ pc = "vagrant rmtree" \/ Reads("vagrant")
    /\ RmTree(vm # NoMachine) /\ Return
    /\ magicDirs' = FALSE /\ UNCHANGED vm

\* The host restarts: the machine is off, and what was mounted in it is gone.
VmPowerOff ==
    /\ "reboot" \in Faults /\ vm.state = "running" /\ ~crashed
    /\ meta.unpacker = "vagrant"   \* what is left of a machine interests nobody
    /\ vm' = [vm EXCEPT !.state = "off", !.stack = 0]
    /\ stale' = stale \cup loc.wrote /\ crashed' = TRUE
    /\ Return
    /\ UNCHANGED <<dir, meta, backup, left, magicDirs>>

-----------------------------------------------------------------------------
VagrantStep ==
    \/ VagrantUp \/ VagrantMachineReady \/ VagrantRunExits \/ VagrantRunDone
    \/ VagrantUploadFile \/ VagrantUploadDone

VagrantNext ==
    \/ VagrantCreate \/ VagrantStart \/ VagrantDownload \/ VagrantRun \/ VagrantUpload
    \/ VagrantSuspend \/ VagrantDestroyVm \/ VagrantDestroyDir \/ VmPowerOff
    \/ VagrantStep
    \/ Crash({"vagrant"}) /\ UNCHANGED vagrantVars

VagrantSpec == SharedInit /\ VagrantInit /\ [][VagrantNext]_<<sharedVars, vagrantVars>>
=============================================================================
