--------------------------- MODULE MCContainerDetail ---------------------------
(* Model values for ContainerDetail: the containers are interchangeable.   *)
EXTENDS ContainerDetail

Symmetry == Permutations(Containers)
=============================================================================
