----------------------------- MODULE MCPlayback ------------------------------
(* The instance of PlaybackControl that TLC checks.                        *)
EXTENDS PlaybackControl, TLC

Symmetry == Permutations(Threads)

==============================================================================
