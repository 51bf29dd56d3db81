--------------------------- MODULE MCVolumeStrategy ---------------------------
(***************************************************************************)
(* Values for the runs of VolumeStrategy.                                  *)
(***************************************************************************)
EXTENDS VolumeStrategy, TLC

OneVolume == {1}
TwoVolumes == {1, 2}
ThreadSymmetry == Permutations(Threads)

=============================================================================
