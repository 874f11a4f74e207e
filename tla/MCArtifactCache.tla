--------------------------- MODULE MCArtifactCache ---------------------------
(***************************************************************************)
(* Model checking ArtifactCache: one build script at a time, as cargo's    *)
(* lock on the target directory has it, and two sharing a REGOR_CACHE_DIR. *)
(***************************************************************************)
EXTENDS ArtifactCache

CONSTANTS p1, p2, lib, header, version

MCOneBuild == {p1}
MCTwoBuilds == {p1, p2}
MCFiles == {lib, header, version}
=============================================================================
