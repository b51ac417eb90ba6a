----------------------------- MODULE Unpackers ------------------------------
(***************************************************************************)
(* The unpackers side by side on one target directory.  The setup chooses  *)
(* the unpacker and writes its name in .reprounzip; from then on the       *)
(* commands of the others are refused by metadata_read().                  *)
(***************************************************************************)
EXTENDS DockerUnpacker, LocalUnpacker, VagrantUnpacker

unpackersVars == <<sharedVars, dockerVars, localVars, vagrantVars>>

Init == SharedInit /\ DockerInit /\ LocalInit /\ VagrantInit

\* composite_action() and the tables of commands of the three setup functions.
Next ==
    \/ DockerNext  /\ UNCHANGED <<localVars, vagrantVars>>
    \/ LocalNext   /\ UNCHANGED <<dockerVars, vagrantVars>>
    \/ VagrantNext /\ UNCHANGED <<dockerVars, localVars>>

Spec == Init /\ [][Next]_unpackersVars

TypeOK == SharedTypeOK /\ DockerTypeOK /\ LocalTypeOK /\ VagrantTypeOK

-----------------------------------------------------------------------------
(* The experiment the directory stands for. *)

\* The image that is current, or is about to be recorded as such once the
\* recorded one is gone.
CurrentImage ==
    IF Exists(meta.current) \/ dct = NoMeta THEN meta.current ELSE dct.current

Ready ==
    /\ dir /\ meta # NoMeta
    /\ CASE meta.unpacker = "docker"  -> Exists(CurrentImage) /\ ~destroyed
         [] meta.unpacker = "vagrant" -> vm.ready
         [] OTHER                     -> fs # NoRoot /\ ~hostWiped

Files ==
    CASE ~Ready -> Nothing
      [] Ready /\ meta.unpacker = "docker"  -> images[CurrentImage]
      [] Ready /\ meta.unpacker = "vagrant" -> vm.fs
      [] OTHER                              -> fs

AtFirst ==
    CASE ~Ready -> Nothing
      [] Ready /\ meta.unpacker = "docker"  -> images[meta.initial]
      [] Ready /\ meta.unpacker = "vagrant" -> SetupSh(meta.use_chroot)
      [] OTHER                              -> Extracted(meta.unpacker)

E == INSTANCE Experiment WITH
        Outputs    <- OutputsOf(Runs),
        Uploadable <- LocalFiles \cup {"original", "installed"},
        state      <- IF Ready THEN "ready" ELSE "none",
        world      <- Files,
        first      <- AtFirst

-----------------------------------------------------------------------------
(* Properties *)

\* A command changes the files of the experiment by a run's outputs, an upload
\* or a reset, and all at once: no failure of docker, ssh, mount or umount, no
\* kill between two steps leaves other contents.
ImplementsExperiment == E!Spec

\* What 'upload' without arguments prints of a file is true of the experiment
\* between two commands, but for the files the code is known to misreport.
StatusTold ==
    Idle /\ Ready => \A f \in IoFiles \ stale : Tells(meta.input_files[f], Files[f])
=============================================================================
