---------------------------- MODULE MCRtcmFanout ----------------------------
(* Instances of RtcmFanout for TLC. *)
EXTENDS RtcmFanout, TLC

CONSTANTS f1, f2

MCFrames == {f1, f2}
Symmetry == Permutations(MCFrames)

\* Start-up under a running reader in which every task can be created.
OrderlyBootSpec == BootInit /\ [][Next /\ ~deleted']_vars
=============================================================================
