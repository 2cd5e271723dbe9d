---------------------------- MODULE MCDeviceList ----------------------------
(* Instances of DeviceList for TLC. *)
EXTENDS DeviceList, FiniteSets

\* On one subnet every device has a MAC and an address of its own.
OwnMac == [d \in Devices |-> <<"mac", d>>]
OwnIp  == [d \in Devices |-> <<"ip", d>>]

\* Behind a router every frame has the router's MAC.
RouterMac == [d \in Devices |-> "router"]

\* The addresses of all devices, and one where nobody is.
Range(f) == {f[x] : x \in DOMAIN f}
EveryAddress ==
  (CHOOSE s \in [1..Cardinality(Devices) -> Range(OwnIp)] : Range(s) = Range(OwnIp))
    \o <<Junk>>
=============================================================================
