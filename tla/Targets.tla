------------------------------- MODULE Targets -------------------------------
(***************************************************************************)
(* Which addresses a remote scan asks, and where it sends the frames:       *)
(* checkIP (remoteScan.c) parses --target, resolveRemoteDestinationMac      *)
(* (deviceHandler.c, as built on Linux) finds the MAC of the next hop.      *)
(*                                                                         *)
(* An address is a tuple of four bytes.  The routing table is the sequence  *)
(* of /proc/net/route's lines and the ARP cache that of /proc/net/arp's     *)
(* after the ping that warms it up, both external.                          *)
(***************************************************************************)
EXTENDS Integers, Sequences, FiniteSetsExt

CONSTANTS
  NoMac,    \* the MAC of six zero bytes, or defaultGatewayMAC is NULL
  Failed    \* a function returned -1

-----------------------------------------------------------------------------
(* checkIP.  The text of so many characters, of which so many are trailing   *)
(* blanks, has been parsed into `numbers`, as many as sscanf has found.      *)

InByte(n) == n \in 0..255

\* Mutant of ValidRange: the last parts may be equal only.
ValidRangeSingle(numbers) == numbers[4] = numbers[Len(numbers)]

ValidRange(numbers) == numbers[4] <= numbers[Len(numbers)]

\* The copy has room for 64 characters and is cut afterwards.
Accepted(numbers, length, blanks) ==
  /\ length < 64 /\ length - blanks >= 7
  /\ Len(numbers) \in {4, 5}
  /\ \A i \in DOMAIN numbers : InByte(numbers[i])
  /\ ValidRange(numbers)

\* threadData->targetIP; checkIP returns one less than its length.
TargetIP(numbers, length, blanks) ==
  IF ~Accepted(numbers, length, blanks) THEN Failed
  ELSE LET range == numbers[Len(numbers)] - numbers[4] IN
       [i \in 1..(range + 1) |->
          <<numbers[1], numbers[2], numbers[3], (numbers[4] + i - 1) % 256>>]

-----------------------------------------------------------------------------
(* resolveRemoteDestinationMac.                                              *)

\* A bit is its weight; a byte stands for the set of those it has.
Bits == {1, 2, 4, 8, 16, 32, 64, 128}

IsSet(byte, bit) == (byte \div bit) % 2 = 1

Masked(address, mask) ==
  [i \in 1..4 |-> {bit \in Bits : IsSet(address[i], bit) /\ IsSet(mask[i], bit)}]

\* Mutant of IsTargetOnLocalSubnet: the mask's last byte is left out.
IsTargetOnLocalNet(own, mask, target) ==
  \A i \in 1..3 : Masked(own, mask)[i] = Masked(target, mask)[i]

IsTargetOnLocalSubnet(own, mask, target) ==
  Masked(own, mask) = Masked(target, mask)

\* getAdapterDefaultGateway_IP: the number of the first default route's line, 0 when
\* there is none; the adapter is not looked at.
DefaultRoute(routes) ==
  LET lines == {i \in DOMAIN routes : routes[i].default /\ routes[i].viaGateway}
  IN  IF lines = {} THEN 0 ELSE Min(lines)

\* lookupArpMacAddress.
LookupArp(arp, ip, adapter) ==
  LET lines == {i \in DOMAIN arp : arp[i].ip = ip /\ arp[i].adapter = adapter}
  IN  IF lines = {} THEN Failed ELSE arp[Min(lines)].mac

\* getAdapterDefaultGateway_MAC: zero when the cache has no MAC.
GatewayMac(env, gateway) ==
  LET mac == LookupArp(env.arp, gateway, env.adapter) IN
  IF mac = Failed THEN NoMac ELSE mac

\* What the call returns, and defaultGatewayMAC after it.  Off the subnet that
\* is kept from call to call unless it is zero; a zero MAC is not a failure.
ResolveRemoteDestinationMac(env, target) ==
  LET kept    == env.gatewayMac
      route   == DefaultRoute(env.routes)
      gateway == GatewayMac(env, env.routes[route].gateway)
  IN  IF IsTargetOnLocalSubnet(env.own, env.mask, target)
      THEN [mac |-> LookupArp(env.arp, target, env.adapter), gatewayMac |-> kept]
      ELSE IF kept # NoMac THEN [mac |-> kept, gatewayMac |-> kept]
      ELSE IF route = 0 THEN [mac |-> Failed, gatewayMac |-> kept]
      ELSE [mac |-> gateway, gatewayMac |-> gateway]

=============================================================================
