-------------------------- MODULE MCDeviceRegistry --------------------------
(* DeviceRegistry for TLC: nothing tells the devices from each other, nor the *)
(* bases.                                                                     *)
EXTENDS DeviceRegistry, TLC

Symmetry == Permutations(Device) \cup Permutations(Peer) \cup Permutations(Conn)
=============================================================================
