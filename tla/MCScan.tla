------------------------------- MODULE MCScan -------------------------------
(* An instance of Scan for TLC. *)
EXTENDS Scan, TLC

OwnMac == [d \in Devices |-> <<"mac", d>>]
OwnIp  == [d \in Devices |-> <<"ip", d>>]

\* Nothing tells one device from another.
Swaps == Permutations(Devices)
=============================================================================
