-------------------------------- MODULE MCFeed --------------------------------
(* One device that asks twice, and a bus that overflows. *)
EXTENDS Feed
=============================================================================
