------------------------ MODULE MCBluetoothService ------------------------
(* Bounds for BluetoothService: two devices, three calls of connectToDevice *)
(* (two may overlap on one device and a third come after them), and room   *)
(* for a device to be found twice.                                         *)
EXTENDS BluetoothService, TLC

CONSTANTS d1, d2, k1, k2, k3, v1, v2
MCDevices == {d1, d2}
MCCalls == {k1, k2, k3}
MCValues == {v1, v2}
Symmetry == Permutations(MCDevices) \cup Permutations(MCCalls) \cup Permutations(MCValues)
=============================================================================
