-------------------------- MODULE MCCameraRegistry --------------------------
(* Two tools and two cameras: the names of tools, cameras and inodes do not *)
(* matter.                                                                  *)
EXTENDS CameraRegistry, TLC

Symmetry == Permutations(Writers) \union Permutations(Cams) \union Permutations(Inodes)

=============================================================================
