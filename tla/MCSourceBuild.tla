---------------------------- MODULE MCSourceBuild ----------------------------
(***************************************************************************)
(* Model checking SourceBuild: ninja installed or not, both configurations *)
(* of one checkout.  No action tells a generator or a configuration from   *)
(* the other.                                                              *)
(***************************************************************************)
EXTENDS SourceBuild, TLC

CONSTANTS ninja, make, release, debug, s1

MCGenerators == {ninja, make}
MCConfigs == {release, debug}
MCSources == {s1}
MCSymmetry == Permutations(MCGenerators) \cup Permutations(MCConfigs)
=============================================================================
