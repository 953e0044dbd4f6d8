----------------------------- MODULE MCFileMan -----------------------------
(* FileMan for TLC: two names and one content. *)
EXTENDS FileMan, TLC

CONSTANTS a, b, small

SizeOfOne == small :> 1
SameLengthNames == {<<a>>, <<b>>}
=============================================================================
