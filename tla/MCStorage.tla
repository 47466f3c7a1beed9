------------------------------- MODULE MCStorage -------------------------------
(* Three networks one after another, and any two mishaps. *)
EXTENDS Storage
=============================================================================
