--------------------------- MODULE MCDeviceRegistry ---------------------------
(***************************************************************************)
(* Three connections on two handles: a device comes back while its old     *)
(* connection is still there, and a handle is used again while the server  *)
(* still acts on the connection that had it before.                        *)
(***************************************************************************)
EXTENDS DeviceRegistry, TLC

Symmetry == Permutations(Sockets) \cup Permutations(Devices)

===============================================================================
