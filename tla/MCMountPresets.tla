--------------------------- MODULE MCMountPresets ---------------------------
(* Model values for MountPresets: the windows are interchangeable, and so  *)
(* are the places that can have a preset.                                  *)
EXTENDS MountPresets

Symmetry == Permutations(Windows) \cup Permutations(Places \ Tmpfs)
=============================================================================
