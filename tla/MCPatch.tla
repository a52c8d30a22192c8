-------------------------------- MODULE MCPatch --------------------------------
(***************************************************************************)
(* Every baseline of up to three lines out of two, under every header and  *)
(* every body that the bounds allow: hunks at the start, in the middle, at *)
(* the end and beyond it, that add, remove, replace or keep.               *)
(***************************************************************************)
EXTENDS Patch

CONSTANTS
    MaxSource,      \* bound on the lines of a baseline
    MaxNumber       \* bound on a header's numbers

MCSources == UNION {[1 .. n -> Lines] : n \in 1 .. MaxSource}

MCHunks ==
    [old_start : 0 .. MaxNumber, old_count : 0 .. MaxNumber,
     new_start : 0 .. MaxNumber, new_count : 0 .. MaxNumber]
=============================================================================
