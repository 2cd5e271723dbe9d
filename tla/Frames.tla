------------------------------- MODULE Frames -------------------------------
(***************************************************************************)
(* The frames that are sent, byte by byte, as their layers one after the    *)
(* other (packetHandler.c, remoteScan.c).  The code writes each byte at its *)
(* place in a buffer of fixed size; the lengths that stand in the headers   *)
(* are numbers of their own.                                               *)
(*                                                                         *)
(* A request r tells what it is about: the destination (destMac, destIp,    *)
(* port), the sender (ownMac, ownIp), the counters' values (ident,          *)
(* counter), the handle of the first call or node, or NoNode, the device's  *)
(* identity (deviceId, vendorId, objectTail), and what is read (index, slot, *)
(* subslot, layer).                                                         *)
(***************************************************************************)
EXTENDS Checksum

CONSTANT NoNode  \* there is no list node to take the handle from

Zeros(n) == [i \in 1..n |-> 0]

\* A number of n bytes, the low one first.
Weights == <<1, 256, 65536, 16777216>>

Little(number, n) == [i \in 1..n |-> (number \div Weights[i]) % 256]

\* The sizes of protocols.h: of the buffers, and of what the headers say.
DCP_PACKETSIZE           == 46
IP_UDP_RPC_PACKETSIZE    == 198
UDP_PACKETSIZE           == 164
IP_UDP_RPC_IM_PACKETSIZE == 206
UDP_IM_PACKETSIZE        == 172

\* sendPacket_DCP: an identify request for all options to the multicast address.
IdentifyFrame(r) ==
  <<1, 14, 207, 0, 0, 0>> \o r.ownMac \o <<136, 146>>
    \o <<254, 254, 5, 0>> \o <<1, 0, 0, 1>> \o Bytes(5) \o Bytes(4)
    \o <<255, 255>> \o Bytes(0) \o Zeros(16)

Ethernet(dest, own) == dest \o own \o <<8, 0>>

-----------------------------------------------------------------------------
(* IP and UDP headers.                                                     *)

\* The header with its checksum, which is computed over zeros in its place.
IPHeader(length, ident, ttl, src, dst) ==
  LET with(checksum) ==
        <<69, 0>> \o Bytes(length) \o Bytes(ident) \o <<0, 0>> \o <<ttl, 17>>
          \o checksum \o src \o dst
  IN  with(Stored(IPChecksum(with(<<0, 0>>))))

\* All local lookups have one identification.
LookupIP(r) == IPHeader(184, 10, 64, r.ownIp, r.destIp)

RemoteLookupIP(r) == IPHeader(184, r.ident, 64, r.ownIp, r.destIp)

\* Mutant of ReadIP: the total length of a lookup.
ReadIPOfLookup(r) == IPHeader(184, r.ident, 128, r.ownIp, r.destIp)

ReadIP(r) == IPHeader(192, r.ident, 128, r.ownIp, r.destIp)

RemoteReadIP(r) == IPHeader(192, r.ident, 128, r.ownIp, r.destIp)

\* The header over its data; both ports are 34964 but for a read's destination.
UDP(addresses, port, length, data) ==
  LET ports == Bytes(34964) \o Bytes(port) IN
  ports \o Bytes(length) \o Stored(UDPChecksum(17, addresses, ports, data)) \o data

-----------------------------------------------------------------------------
(* The header of a remote procedure call.                                  *)

UID_EPMap_Interface ==
  <<8, 131, 175, 225, 31, 93, 201, 17, 145, 164, 8, 0, 43, 20, 160, 250>>

UID_PNIO_Device ==
  <<1, 0, 160, 222, 151, 108, 209, 17, 130, 113, 0, 160, 36, 66, 223, 125>>

LookupActivity == <<1, 0, 0, 0, 1, 0, 1, 0, 1, 0, 0, 1, 0, 1, 0, 1>>

ReadActivity ==
  <<128, 210, 46, 182, 85, 30, 178, 17, 1, 0, 8, 0, 6, 115, 104, 40>>

\* createSeqNum; the counter's increment is left to the callers' models.
SeqNum(counter) == Little(counter, 4)

RpcHeader(object, interface, activity, version, counter, opnum, length) ==
  <<4, 0, 32, 0>> \o <<16, 0, 0>> \o <<0>> \o object \o interface \o activity
    \o Zeros(4) \o Little(version, 4) \o SeqNum(counter) \o Little(opnum, 2)
    \o <<255, 255>> \o <<255, 255>> \o Little(length, 2) \o <<0, 0>> \o <<0>> \o <<0>>

LookupRpc(r) ==
  RpcHeader(Zeros(16), UID_EPMap_Interface, LookupActivity, 3, r.counter, 2, 76)

RemoteLookupRpc(r) ==
  RpcHeader(Zeros(16), UID_EPMap_Interface, LookupActivity, 3, r.counter, 2, 76)

\* The object of a device: DEA00000-6C97-11D1-8271 and its own six bytes.
DeviceObject(identity) ==
  <<0, 0, 160, 222, 151, 108, 209, 17, 130, 113>> \o <<0, 1>> \o identity

ReadRpc(r) ==
  RpcHeader(DeviceObject(Bytes(r.deviceId) \o Bytes(r.vendorId)),
            UID_PNIO_Device, ReadActivity, 1, r.counter, 5, 84)

\* Behind a router the identity is what the endpoint mapper has told.
RemoteReadRpc(r) ==
  RpcHeader(DeviceObject(IF r.layer = 3 THEN r.objectTail
                         ELSE Bytes(r.deviceId) \o Bytes(r.vendorId)),
            UID_PNIO_Device, ReadActivity, 1, r.counter, 5, 84)

-----------------------------------------------------------------------------
(* The calls.                                                              *)

\* Inquiry of all elements, the object, the interface and its version, the
\* handle, and one entry at most.
Lookup(handle) ==
  Zeros(4) \o Little(1, 4) \o Zeros(16) \o Little(2, 4) \o UID_PNIO_Device
    \o Little(1, 2) \o Little(0, 2) \o Little(1, 4) \o handle \o Little(1, 4)

LookupCall(r) == Lookup(r.handle)

\* "set 0 as long as handle is NULL".
RemoteLookupCall(r) == Lookup(IF r.handle = NoNode THEN Zeros(20) ELSE r.handle)

\* ArgsMaximum, the lengths of the array, and an IODReadReqHeader; place is the
\* slot and the subslot.
Read(place, index) ==
  Little(4068, 4) \o Little(64, 4)
    \o Little(4068, 4) \o Little(0, 4) \o Little(64, 4)
    \o <<0, 9>> \o Bytes(60) \o <<1, 0>> \o Bytes(0) \o Zeros(16) \o Zeros(4)
    \o place \o <<0, 0>> \o Bytes(index) \o <<0, 0>> \o Bytes(4004)
    \o Zeros(16) \o Zeros(8)

PDREALDATASUBMODUL == 32810
IM0                == 45040

\* Only port data are asked of a slot of their own.
Place(r) ==
  IF r.index = PDREALDATASUBMODUL THEN Bytes(r.slot) \o Bytes(r.subslot)
  ELSE <<0, 0, 0, 1>>

\* Mutant of RemotePlace: I&M0 is asked of slot 0, as in the local walk.
RemotePlaceAsLocal(r) == Place(r)

\* I&M0 is asked of a slot's first submodule.
RemotePlace(r) ==
  IF r.index = PDREALDATASUBMODUL THEN Bytes(r.slot) \o Bytes(r.subslot)
  ELSE IF r.index = IM0 THEN Bytes(r.slot) \o <<0, 1>>
  ELSE <<0, 0, 0, 1>>

ReadCall(r) == Read(Place(r), r.index)

RemoteReadCall(r) == Read(RemotePlace(r), r.index)

-----------------------------------------------------------------------------
(* The frames.                                                             *)

Frame(r, ip, port, length, rpc, call) ==
  Ethernet(r.destMac, r.ownMac) \o ip
    \o UDP(r.ownIp \o r.destIp, port, length, rpc \o call)

\* sendPacket_RPC and sendPacket_RPC_rem.
LookupFrame(r) ==
  Frame(r, LookupIP(r), 34964, UDP_PACKETSIZE, LookupRpc(r), LookupCall(r))

RemoteLookupFrame(r) ==
  Frame(r, RemoteLookupIP(r), 34964, UDP_PACKETSIZE, RemoteLookupRpc(r),
        RemoteLookupCall(r))

\* sendpacket_IM and sendpacket_IM_rem.
ReadFrame(r) ==
  Frame(r, ReadIP(r), r.port, UDP_IM_PACKETSIZE, ReadRpc(r), ReadCall(r))

RemoteReadFrame(r) ==
  Frame(r, RemoteReadIP(r), r.port, UDP_IM_PACKETSIZE, RemoteReadRpc(r),
        RemoteReadCall(r))

=============================================================================
