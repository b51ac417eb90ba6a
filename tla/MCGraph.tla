------------------------------ MODULE MCGraph -------------------------------
(***************************************************************************)
(* A small trace for the graph: two programs, of which one is packaged,    *)
(* and two files.  The second filter leaves out sh, and shows tool and tmp *)
(* under other names, as --regex-filter, --regex-replace and --aggregate.  *)
(***************************************************************************)
EXTENDS Graph

MCPackageOf == [sh |-> "dash", tool |-> "none", in |-> "none", tmp |-> "none"]
MCTruncated == [sh |-> "sh", tool |-> "tmp", in |-> "tmp", tmp |-> "tmp"]
MCFilters == {[sh |-> "sh", tool |-> "tool", in |-> "in", tmp |-> "tmp"],
              [sh |-> "none", tool |-> "sh", in |-> "in", tmp |-> "in"]}
=============================================================================
