--------------------------- MODULE DockerUnpacker ---------------------------
(***************************************************************************)
(* reprounzip-docker: the experiment is an image of the Docker daemon; a   *)
(* run and an upload make a new image from the current one and then remove *)
(* it, unless it is the initial image, which 'reset' goes back to.         *)
(*                                                                         *)
(* The daemon is external.  It refuses to remove an image as long as a     *)
(* container made from it exists; any call fails when "tool" \in Faults.   *)
(***************************************************************************)
EXTENDS Unpacker

CONSTANTS MaxImages, MaxBoxes   \* images and containers that exist at a time

ASSUME DockerAssumption == MaxImages \in Nat /\ MaxBoxes \in Nat

VARIABLES
    dockerfile, \* the files of the image that the Dockerfile builds
    images,     \* the daemon's images made by reprounzip: their files
    boxes,      \* its containers: image, purpose and files
    destroyed,  \* history: destroy/docker was called on this directory
    kept        \* history: images the daemon refused to remove

dockerVars == <<dockerfile, images, boxes, destroyed, kept>>

ImageIds == 1 .. MaxImages
BoxIds   == 1 .. MaxBoxes
NoImage  == [f \in {} |-> "absent"]
Box      == [image: ImageIds, for: {"run", "detached", "copy"}, fs: World]
NoBox    == [image |-> 0, for |-> "none", fs |-> NoImage]

DockerTypeOK ==
    /\ dockerfile \in World
    /\ images \in [ImageIds -> World \cup {NoImage}]
    /\ boxes \in [BoxIds -> Box \cup {NoBox}]
    /\ destroyed \in BOOLEAN /\ kept \subseteq ImageIds

DockerInit ==
    /\ dockerfile = Nothing
    /\ images = [i \in ImageIds |-> NoImage] /\ boxes = [b \in BoxIds |-> NoBox]
    /\ destroyed = FALSE /\ kept = {}

-----------------------------------------------------------------------------
(* The Docker daemon. *)

Exists(i) == i \in ImageIds /\ images[i] # NoImage
InUse(i)  == \E b \in BoxIds : boxes[b].image = i
CanFail   == "tool" \in Faults

\* make_unique_name(): a name nothing has, and nothing still refers to.
FreshImages ==
    {i \in ImageIds : /\ ~Exists(i) /\ ~InUse(i) /\ i # loc.image
                      /\ meta # NoMeta => i \notin {meta.initial, meta.current}}
Least(S)   == CHOOSE x \in S : \A y \in S : x <= y
FreshBoxes == {b \in BoxIds : boxes[b] = NoBox}

\* docker build -t, docker commit
NewImage(fs) ==
    /\ FreshImages # {}
    /\ images' = [images EXCEPT ![Least(FreshImages)] = fs]

\* docker rmi.  A bound: it fails for no reason once.
Rmi(i) == /\ Exists(i) /\ ~InUse(i)
          /\ images' = [images EXCEPT ![i] = NoImage]
          /\ kept' = kept \ {i}
RmiFails(i) == /\ ~Exists(i) \/ InUse(i) \/ (CanFail /\ kept = {})
               /\ kept' = IF Exists(i) THEN kept \cup {i} ELSE kept
               /\ UNCHANGED images

\* docker run, docker create
NewBox(i, purpose) ==
    /\ Exists(i) /\ FreshBoxes # {}
    /\ boxes' = [boxes EXCEPT ![Least(FreshBoxes)] =
                        [image |-> i, for |-> purpose, fs |-> images[i]]]

\* docker rm
Rm(b) == \/ boxes' = [boxes EXCEPT ![b] = NoBox]
         \/ CanFail /\ UNCHANGED boxes

\* The user is done with a detached container, or with what was left behind.
UserRemovesBox ==
    /\ Idle
    /\ \E b \in BoxIds : boxes[b] # NoBox /\ boxes' = [boxes EXCEPT ![b] = NoBox]
    /\ UNCHANGED <<sharedVars, dockerfile, images, destroyed, kept>>

-----------------------------------------------------------------------------
(* setup, setup/create and setup/build *)

\* What the Dockerfile builds.  --install-pkgs installs the packed packages
\* again; a package that was not packed is always installed.
Recipe(install) ==
    [f \in IoFiles |->
        CASE Origin[f] = "other"    -> "original"
          [] Origin[f] = "packed"   -> IF install THEN "installed" ELSE "original"
          [] Origin[f] = "unpacked" -> "installed"
          [] OTHER                  -> "absent"]

\* docker_setup_create(): then = "build" when called by docker_setup().  An
\* exception removes the directory; sys.exit(), which is none, does not.
DockerCreate ==
    /\ CanSetUp
    /\ \/ \E install \in BOOLEAN, then \in {"build", "none"} :
            /\ Unpacked(NewMeta("docker"), DataTgz)
            /\ dockerfile' = Recipe(install)
            /\ IF then = "build" THEN Call("docker build", NoMeta, [NoLoc EXCEPT !.then = then])
                                 ELSE Continue("idle")
       \/ "setup" \in Faults /\ LeftBehind /\ Continue("idle") /\ UNCHANGED dockerfile
    /\ UNCHANGED <<images, boxes, destroyed, kept>>

\* docker_setup_build(); docker_setup() removes the directory when it fails.
DockerBuild ==
    /\ pc = "docker build" \/ (Reads("docker") /\ meta.initial = 0)
    /\ UNCHANGED <<boxes, destroyed, kept>>
    /\ \/ /\ NewImage(dockerfile) /\ UNCHANGED dockerfile
          /\ Call("docker built", meta, [loc EXCEPT !.image = Least(FreshImages)])
          /\ KeepDir /\ UNCHANGED <<meta, stale, crashed>>
       \/ /\ CanFail
          /\ IF loc.then = "build"
             THEN RmTree(FALSE) /\ dockerfile' = Nothing
             ELSE KeepDir /\ UNCHANGED <<meta, stale, crashed, dockerfile>>
          /\ Return
          /\ UNCHANGED images

DockerBuilt ==
    /\ pc = "docker built"
    /\ Writes([dct EXCEPT !.initial = loc.image, !.current = loc.image])
    /\ Return
    /\ KeepDir /\ UNCHANGED <<stale, crashed, dockerVars>>

-----------------------------------------------------------------------------
(* reset *)

\* docker_reset() puts back the image, never the status of the files.
DockerReset ==
    /\ Reads("docker") /\ meta.initial # 0 /\ meta.current # meta.initial
    /\ Rmi(meta.current) \/ RmiFails(meta.current)
    /\ Call("docker reset", [meta EXCEPT !.current = meta.initial],
            [NoLoc EXCEPT !.wrote = IoFiles])
    /\ KeepDir /\ UNCHANGED <<meta, stale, crashed, dockerfile, boxes, destroyed>>

\* Faulty variant: the dictionary is not written.
DockerResetForgets ==
    /\ pc = "docker reset"
    /\ Return /\ stale' = IoFiles
    /\ KeepDir /\ UNCHANGED <<meta, crashed, dockerVars>>

DockerResetDone ==
    /\ pc = "docker reset"
    /\ Writes(dct) /\ Return
    /\ stale' = IoFiles
    /\ KeepDir /\ UNCHANGED <<crashed, dockerVars>>

-----------------------------------------------------------------------------
(* run *)

\* docker_run() up to interruptible_call(['docker', 'run', ...]).
DockerRun ==
    /\ Reads("docker") /\ meta.current # 0
    /\ \E arg \in RunArgs :
        /\ GetRuns(arg) # {}
        /\ NewBox(meta.current, "run")
        /\ Call("docker run", meta,
                [NoLoc EXCEPT !.runs = GetRuns(arg), !.box = Least(FreshBoxes),
                              !.image = meta.current])
    /\ KeepDir /\ UNCHANGED <<meta, stale, crashed, dockerfile, images, destroyed, kept>>

\* run --detach: the container is left to itself.
DockerRunDetached ==
    /\ Reads("docker") /\ meta.current # 0
    /\ NewBox(meta.current, "detached")
    /\ UNCHANGED <<sharedVars, dockerfile, images, destroyed, kept>>

\* The runs are joined by &&: when one fails the container is dropped with
\* everything the experiment wrote.
DockerRunFails ==
    /\ pc = "docker run"
    /\ Rm(loc.box) /\ Return
    /\ KeepDir /\ UNCHANGED <<meta, stale, crashed, dockerfile, images, destroyed, kept>>

\* The experiment may not write all the outputs of its runs.
DockerRunExits ==
    /\ pc = "docker run"
    /\ \E wrote \in SUBSET OutputsOf(loc.runs) :
        /\ boxes' = [boxes EXCEPT ![loc.box].fs =
                        [f \in IoFiles |-> IF f \in wrote THEN "generated" ELSE @[f]]]
        /\ Call("docker commit", dct, [loc EXCEPT !.wrote = wrote])
    /\ KeepDir /\ UNCHANGED <<meta, stale, crashed, dockerfile, images, destroyed, kept>>

\* docker inspect and docker commit; a failure leaves the container.
DockerCommit ==
    /\ pc = "docker commit"
    /\ \/ /\ NewImage(boxes[loc.box].fs)
          /\ Call("docker record", [dct EXCEPT !.current = Least(FreshImages)], loc)
       \/ CanFail /\ Return /\ UNCHANGED images
    /\ KeepDir /\ UNCHANGED <<meta, stale, crashed, dockerfile, boxes, destroyed, kept>>

DockerRecord ==
    /\ pc = "docker record"
    /\ Writes(dct) /\ Continue("docker rm")
    /\ KeepDir /\ UNCHANGED <<stale, crashed, dockerVars>>

\* Faulty variants: the old image is untagged even if it is the initial one,
\* or never.
DockerRmUntagsAll ==
    /\ pc = "docker rm"
    /\ Rm(loc.box) /\ Continue("docker rmi")
    /\ KeepDir /\ UNCHANGED <<meta, stale, crashed, dockerfile, images, destroyed, kept>>

DockerRmUntagsNone ==
    /\ pc = "docker rm"
    /\ Rm(loc.box) /\ Continue("docker status")
    /\ KeepDir /\ UNCHANGED <<meta, stale, crashed, dockerfile, images, destroyed, kept>>

DockerRm ==
    /\ pc = "docker rm"
    /\ Rm(loc.box)
    /\ Continue(IF loc.image # dct.initial THEN "docker rmi" ELSE "docker status")
    /\ KeepDir /\ UNCHANGED <<meta, stale, crashed, dockerfile, images, destroyed, kept>>

\* check_call(): when the old image cannot be removed, the status of the
\* files is not updated.
DockerUntag ==
    /\ pc = "docker rmi"
    /\ \/ Rmi(loc.image) /\ Continue("docker status") /\ UNCHANGED stale
       \/ RmiFails(loc.image) /\ Return /\ stale' = stale \cup loc.wrote
    /\ KeepDir /\ UNCHANGED <<meta, crashed, dockerfile, boxes, destroyed>>

\* metadata_update_run()
DockerRunDone ==
    /\ pc = "docker status"
    /\ Writes([dct EXCEPT !.input_files = metadata_update_run(@, loc.runs)])
    /\ stale' = (stale \ OutputsOf(loc.runs)) \cup (OutputsOf(loc.runs) \ loc.wrote)
    /\ Return
    /\ KeepDir /\ UNCHANGED <<crashed, dockerVars>>

-----------------------------------------------------------------------------
(* upload *)

Overlay(name, content, files) ==
    [f \in DOMAIN files \cup {name} |-> IF f = name THEN content ELSE files[f]]

DockerUpload ==
    /\ Reads("docker") /\ meta.current # 0
    /\ \E specs \in UploadArgs :
        Call("docker upload", meta, [NoLoc EXCEPT !.specs = specs, !.image = meta.current])
    /\ KeepDir /\ UNCHANGED <<meta, stale, crashed, dockerVars>>

\* One turn of the loop; ContainerUploader.upload_file() only copies the file
\* to the build directory.
DockerUploadFile ==
    /\ pc = "docker upload" /\ loc.specs # <<>>
    /\ LET s == Head(loc.specs)
       IN  CASE SpecOutcome(s) = "put" ->
                  Call("docker upload",
                       [dct EXCEPT !.input_files = StatusAfter(@, s)],
                       [loc EXCEPT !.specs = Tail(@),
                                   !.staged = Overlay(s.name, Uploaded(s), @),
                                   !.told = StaleAfter(@, s)])
             [] SpecOutcome(s) = "skip" ->
                  Call("docker upload", dct, [loc EXCEPT !.specs = Tail(@)])
             [] OTHER -> Call("docker upload", dct, [loc EXCEPT !.specs = <<>>])
    /\ KeepDir /\ UNCHANGED <<meta, stale, crashed, dockerVars>>

\* Faulty variant: the files are added to the initial image.
DockerUploadBuildInitial ==
    /\ pc = "docker upload" /\ loc.specs = <<>>
    /\ UNCHANGED <<dockerfile, boxes, destroyed, kept, crashed>> /\ KeepDir
    /\ \/ /\ loc.staged = <<>>
          /\ Writes(dct) /\ Return /\ UNCHANGED <<images, stale>>
       \/ /\ loc.staged # <<>> /\ Exists(dct.initial)
          /\ NewImage([f \in IoFiles |-> IF f \in DOMAIN loc.staged THEN loc.staged[f]
                                                                  ELSE images[dct.initial][f]])
          /\ Call(IF loc.image # dct.initial THEN "docker upload rmi"
                                             ELSE "docker upload record",
                  [dct EXCEPT !.current = Least(FreshImages)], loc)
          /\ UNCHANGED <<meta, stale>>
       \/ /\ loc.staged # <<>> /\ (CanFail \/ ~Exists(dct.initial))
          /\ Writes(dct) /\ Return
          /\ stale' = stale \cup DOMAIN loc.staged
          /\ UNCHANGED images

\* ContainerUploader.finalize().  The build that fails exits, and the finally
\* of docker_upload() saves the new status of files that were not replaced.
DockerUploadBuild ==
    /\ pc = "docker upload" /\ loc.specs = <<>>
    /\ UNCHANGED <<dockerfile, boxes, destroyed, kept, crashed>> /\ KeepDir
    /\ \/ /\ loc.staged = <<>>
          /\ Writes(dct) /\ Return /\ UNCHANGED <<images, stale>>
       \/ /\ loc.staged # <<>> /\ Exists(loc.image)
          /\ NewImage([f \in IoFiles |-> IF f \in DOMAIN loc.staged THEN loc.staged[f]
                                                                  ELSE images[loc.image][f]])
          /\ Call(IF loc.image # dct.initial THEN "docker upload rmi"
                                             ELSE "docker upload record",
                  [dct EXCEPT !.current = Least(FreshImages)], loc)
          /\ UNCHANGED <<meta, stale>>
       \/ /\ loc.staged # <<>> /\ (CanFail \/ ~Exists(loc.image))
          /\ Writes(dct) /\ Return
          /\ stale' = stale \cup DOMAIN loc.staged
          /\ UNCHANGED images

DockerUploadUntag ==
    /\ pc = "docker upload rmi"
    /\ Rmi(loc.image) \/ RmiFails(loc.image)
    /\ Continue("docker upload record")
    /\ KeepDir /\ UNCHANGED <<meta, stale, crashed, dockerfile, boxes, destroyed>>

DockerUploadDone ==
    /\ pc = "docker upload record"
    /\ Writes(dct) /\ Return
    /\ stale' = (stale \ DOMAIN loc.staged) \cup loc.told
    /\ KeepDir /\ UNCHANGED <<crashed, dockerVars>>

-----------------------------------------------------------------------------
(* download *)

\* ContainerDownloader.prepare_download()
DockerDownload ==
    /\ Reads("docker") /\ meta.current # 0
    /\ NewBox(meta.current, "copy")
    /\ Call("docker cp", NoMeta, [NoLoc EXCEPT !.box = Least(FreshBoxes)])
    /\ KeepDir /\ UNCHANGED <<meta, stale, crashed, dockerfile, images, destroyed, kept>>

\* The files are copied, or not; finalize() removes the container anyway.
DockerDownloadDone ==
    /\ pc = "docker cp"
    /\ Rm(loc.box) /\ Return
    /\ KeepDir /\ UNCHANGED <<meta, stale, crashed, dockerfile, images, destroyed, kept>>

-----------------------------------------------------------------------------
(* destroy, destroy/docker and destroy/dir *)

\* docker_destroy_docker() forgets both images in memory only; then = "dir"
\* when it is called by destroy.
DockerDestroy ==
    /\ Reads("docker") /\ meta.initial # 0
    /\ IF meta.current # meta.initial
       THEN Rmi(meta.current) \/ RmiFails(meta.current)
       ELSE UNCHANGED <<images, kept>>
    /\ \E then \in {"dir", "none"} :
        Call("docker destroy", NoMeta, [NoLoc EXCEPT !.then = then, !.image = meta.initial])
    /\ destroyed' = TRUE
    /\ KeepDir /\ UNCHANGED <<meta, stale, crashed, dockerfile, boxes>>

DockerDestroyInitial ==
    /\ pc = "docker destroy"
    /\ Rmi(loc.image) \/ RmiFails(loc.image)
    /\ IF loc.then = "dir" THEN Continue("docker destroy dir") ELSE Return
    /\ KeepDir /\ UNCHANGED <<meta, stale, crashed, dockerfile, boxes, destroyed>>

DockerDestroyDir ==
    /\ pc = "docker destroy dir" \/ Reads("docker")
    /\ RmTree(\E i \in ImageIds : Exists(i)) /\ Return
    /\ dockerfile' = Nothing /\ destroyed' = FALSE
    /\ UNCHANGED <<images, boxes, kept>>

-----------------------------------------------------------------------------
DockerStep ==
    \/ DockerBuilt \/ DockerResetDone \/ DockerRunFails \/ DockerRunExits
    \/ DockerCommit \/ DockerRecord \/ DockerRm \/ DockerUntag \/ DockerRunDone
    \/ DockerUploadFile \/ DockerUploadBuild \/ DockerUploadUntag \/ DockerUploadDone
    \/ DockerDownloadDone \/ DockerDestroyInitial

DockerNext ==
    \/ DockerCreate \/ DockerBuild \/ DockerReset \/ DockerRun \/ DockerRunDetached
    \/ DockerUpload \/ DockerDownload \/ DockerDestroy \/ DockerDestroyDir
    \/ UserRemovesBox \/ DockerStep
    \/ Crash({"docker"}) /\ UNCHANGED dockerVars

DockerSpec == SharedInit /\ DockerInit /\ [][DockerNext]_<<sharedVars, dockerVars>>

-----------------------------------------------------------------------------
(* Properties *)

\* Whatever fails, and wherever a command is killed, the initial image stays
\* as it was built until destroy is called: 'reset' never loses its target.
InitialImageKept ==
    meta # NoMeta /\ meta.unpacker = "docker" /\ meta.initial # 0 /\ ~destroyed
        => Exists(meta.initial) /\ images[meta.initial] = dockerfile

\* Between two commands, none of which was killed, the current image exists:
\* it is never removed unless another one has been recorded or is about to be.
CurrentImageExists ==
    Idle /\ meta # NoMeta /\ meta.unpacker = "docker" /\ meta.current # 0
         /\ ~destroyed /\ ~crashed
        => Exists(meta.current)

\* Between two commands, none of which was killed, every image is recorded or
\* was refused removal by the daemon: uploads and runs do not pile up images.
NoImageLost ==
    Idle /\ meta # NoMeta /\ meta.unpacker = "docker" /\ ~crashed
        => {i \in ImageIds : Exists(i)} \subseteq {meta.initial, meta.current} \cup kept
=============================================================================
