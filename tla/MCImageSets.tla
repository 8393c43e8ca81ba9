----------------------------- MODULE MCImageSets -----------------------------
(* ImageSets for TLC: the files have a name each. *)
EXTENDS ImageSets

MCNameOf == [f \in Files |-> f]
=============================================================================
