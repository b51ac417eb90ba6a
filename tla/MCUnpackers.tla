---------------------------- MODULE MCUnpackers -----------------------------
(***************************************************************************)
(* A small experiment for the unpackers: an input of a packed package, an  *)
(* output that was not packed, and an input of a package left out.  The    *)
(* uploads restore and replace, by name and by path, and fail on the way;  *)
(* the last of the run arguments is out of range.                          *)
(***************************************************************************)
EXTENDS Unpackers

MCOrigin == [data |-> "packed", result |-> "none", lib |-> "unpacked"]
MCReadBy == [data |-> {0, 1}, result |-> {1}, lib |-> {0}]
MCWrittenBy == [data |-> {}, result |-> {0}, lib |-> {}]
Upload(from, name, bypath) == [from |-> from, name |-> name, bypath |-> bypath]
MCUploads == {
    <<Upload("restore", "result", FALSE), Upload("mine", "data", FALSE)>>,
    <<Upload("mine", "data", TRUE), Upload("missing", "data", FALSE)>>,
    <<Upload("restore", "data", FALSE)>>}
MCRuns == {<<>>, << <<1, -1>> >>, << <<0, 2>> >>}

\* One packed file, for the run on mounts.
MCOrigin1 == [data |-> "other"]
MCReadBy1 == [data |-> {0}]
MCWrittenBy1 == [data |-> {}]
=============================================================================
