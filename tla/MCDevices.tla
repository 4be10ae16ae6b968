----------------------------- MODULE MCDevices ------------------------------
(***************************************************************************)
(* Devices on a small instance: two installations of the app that claim to *)
(* be the same device.                                                     *)
(***************************************************************************)
EXTENDS Devices, TLC

CONSTANTS p1, p2, d1
SameDevice == [p \in Phones |-> d1]
Interchangeable == Permutations(Phones)
=============================================================================
