------------------------------ MODULE MCAtRead ------------------------------
(* Instances of AtRead for TLC. *)
EXTENDS AtRead

AllKinds == {"ok", "line", "prompt", "cssi", "late", "list", "cmgr", "cds", "echo"}
=============================================================================
