------------------------------ MODULE MCDiskFs ------------------------------
(* Small instances of DiskFs for TLC. *)
EXTENDS DiskFs, TLC

CONSTANTS a, b, small, other, big

SizeOfOne == small :> 1
SizeOfThree == small :> 1 @@ other :> 1 @@ big :> 3

MixedNames == {<<a>>, <<a, b>>}
=============================================================================
