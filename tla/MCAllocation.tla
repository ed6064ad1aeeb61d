---------------------------- MODULE MCAllocation ----------------------------
(* Small instances of Allocation for TLC: three names, two of which have    *)
(* the same hash and one of which is refused, since there are two ports.    *)
EXTENDS Allocation, TLC

ThreeNames == {"a", "b", "c"}
MCHash == "a" :> 1 @@ "b" :> 1 @@ "c" :> 0

ProcSymmetry == Permutations(Procs)
=============================================================================
