----------------------------- MODULE MCPacking ------------------------------
(***************************************************************************)
(* Small programs for packing: one computes an output from an input, one   *)
(* reads the output and changes the input, one makes the tool the others   *)
(* execute.  The file of gcc is in one package, that of libc claimed by    *)
(* two.  A trace of another directory is there to combine.                 *)
(***************************************************************************)
EXTENDS Packing

A(mode, file) == [file |-> file, mode |-> mode]
Compute == <<A("exec", "tool"), A("read", "in"), A("write", "out")>>
Revise  == <<A("exec", "tool"), A("read", "out"), A("write", "in")>>
Compile == <<A("exec", "cc"), A("stat", "lib"), A("read", "hid"), A("write", "tool")>>
MCPrograms == {Compute, Revise, Compile}
MCClaims == [cc |-> {"gcc"}, lib |-> {"libc", "gcc"}]
MCOther == <<[ts |-> 1, rows |-> <<[file |-> "cc", mode |-> "exec", ts |-> 2]>>]>>
MCOthers == {MCOther}
=============================================================================
