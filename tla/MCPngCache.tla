----------------------------- MODULE MCPngCache -----------------------------
(***************************************************************************)
(* Instances of PngCache for TLC: images of sizes 0 to MaxBytes + 1.        *)
(***************************************************************************)
EXTENDS PngCache, TLC

CONSTANTS vEmpty, vOne, vTwo, vThree, vHuge

MCSizeOf == vEmpty :> 0 @@ vOne :> 1 @@ vTwo :> 2 @@ vThree :> 3 @@ vHuge :> 9

MCSizes == [v \in Value |-> MCSizeOf[v]]

\* Elements are interchangeable, and so are goroutines and keys.
MCSymmetry == Permutations(Proc) \cup Permutations(Key) \cup Permutations(Elem)
=============================================================================
