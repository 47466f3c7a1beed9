--------------------------- MODULE MCEngineLifecycle ---------------------------
(* Instances of EngineLifecycle: one device, one network to create, join, leave *)
(* and enter again, and one other member.                                       *)
EXTENDS EngineLifecycle
=============================================================================
