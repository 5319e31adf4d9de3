------------------------- MODULE MCDeviceLifecycle -------------------------
(* Instances of DeviceLifecycle for TLC. *)
EXTENDS DeviceLifecycle, TLC

Symmetry == Permutations(Pvt)
=============================================================================
