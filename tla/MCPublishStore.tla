--------------------------- MODULE MCPublishStore ---------------------------
(* A small instance of PublishStore for TLC.  Publishes are only compared    *)
(* for equality, so permuting them is a symmetry.                            *)
EXTENDS PublishStore, TLC

MsgSymmetry == Permutations(Msgs)
=============================================================================
