-------------------------------- MODULE MCMesh --------------------------------
(* The mesh connection of two members. *)
EXTENDS Mesh
=============================================================================
