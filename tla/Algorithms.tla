----------------------------- MODULE Algorithms -----------------------------
(***************************************************************************)
(* The sequential parts of the scanner, each against what it is to compute: *)
(* a state is one input of one of them.                                     *)
(***************************************************************************)
EXTENDS Topology, Frames, DcpBlocks, Annotation, Records,
        CommandLine, Cleanup, Results, Targets, FiniteSets

CONSTANTS
  Networks,    \* records of listed devices and of cables between ports
  MaxPort,     \* the ports of a device are numbered from 1 to this
  MaxFaults,   \* how many ports do not answer, how many are not named, and how
               \* many hosts are missing in the ARP cache
  Blocks,      \* block lengths of DCP answers
  Data         \* bytes of UDP data

\* What fits into a frame, and what a field of sixteen bits may claim at most.
ASSUME BlocksAssumption == Blocks \subseteq (0..1500) \cup {65535}

ASSUME DataAssumption == Data \subseteq 0..255

DevicesOf(network) ==
  network.listed \cup {end[1] : end \in UNION network.cables}

\* A cable joins two ports, and a port has one cable; there are finitely many, and no
\* device, port or text is NULL.
IsNetwork(network) ==
  /\ IsFiniteSet(network.listed) /\ IsFiniteSet(UNION network.cables)
  /\ \A cable \in network.cables :
       /\ \E end, peer \in cable : end # peer /\ cable = {end, peer}
       /\ \A end \in cable : end = <<end[1], end[2]>> /\ end[2] \in 1..MaxPort
       /\ \A other \in network.cables \ {cable} : cable \cap other = {}
  /\ NoText \notin DevicesOf(network)
  /\ NoText \notin {"name", "type", "chassis"} \X DevicesOf(network)

ASSUME NetworksAssumption ==
  /\ MaxPort \in Nat /\ NoText \notin 1..MaxPort
  /\ \A network \in Networks : IsNetwork(network)

VARIABLES
  algorithm,   \* which part the input is for
  input

vars == <<algorithm, input>>

SmallSubsets(S) == {T \in SUBSET S : Cardinality(T) <= MaxFaults}

-----------------------------------------------------------------------------
(* Topology.  An end of a cable is a device and a port; the listed devices    *)
(* report the ends they have, in any order of the list, except the silent     *)
(* ones; a port that is not named is one whose ID its peer has not heard.      *)

EndsOf(network) == UNION network.cables

\* A device that has no name and no type to be called by, or a peer without a
\* chassis ID, is looked at where everything else has answered.
TopologyInputs ==
  LET inputs(n, silent, unnamed, nameless) ==
        {[network |-> n, order |-> o, silent |-> s, unnamed |-> u, nameless |-> d] :
           o \in SetToSeqs(n.listed), s \in silent, u \in unnamed, d \in nameless}
      ends(n) == SmallSubsets(EndsOf(n))
  IN  UNION {inputs(n, ends(n), ends(n), {{}})
               \cup inputs(n, {{}}, {{}}, SmallSubsets({end[1] : end \in EndsOf(n)})) :
             n \in Networks}

Peer(network, end) ==
  CHOOSE peer \in EndsOf(network) : peer # end /\ {end, peer} \in network.cables

Reported(end) ==
  /\ end \in EndsOf(input.network) \ input.silent
  /\ end[1] \in input.network.listed

\* A text of a device, or none.
TextOf(what, device) ==
  IF device \in input.nameless THEN NoText ELSE <<what, device>>

\* A port is named by its number.
PortOf(end) ==
  IF Reported(end)
  THEN LET peer == Peer(input.network, end) IN
       [ownPortID |-> end[2],
        peerPortID |-> IF peer \in input.unnamed THEN NoText ELSE peer[2],
        peerMacAddress |-> peer[1], peerChassisID |-> TextOf("chassis", peer[1])]
  ELSE [ownPortID |-> NoText, peerPortID |-> NoText, peerMacAddress |-> NoText,
        peerChassisID |-> NoText]

\* The list after the scan; the head of it has a type and no name.
List ==
  [d \in DOMAIN input.order |->
    LET device == input.order[d] IN
    [mac |-> device, deviceType |-> TextOf("type", device),
     nameOfStation |-> IF d = 1 THEN NoText ELSE TextOf("name", device),
     ports |-> [p \in 1..MaxPort |-> PortOf(<<device, p>>)]]]

DeviceCount == Len(input.order)
Drawn       == Edges(Reports(List), DeviceCount)
Placed      == Nodes(Reports(List), DeviceCount)

(***************************************************************************)
(* Whatever the order of the list and whichever end reports first, a cable  *)
(* that any end has reported is drawn, and drawn once unless an end has no  *)
(* name for the other, as long as the array of edges has room               *)
(* (main.c:160-187, 277).                                                   *)
(***************************************************************************)
LinkDrawnOnce ==
  algorithm = "topology" =>
    LET drawn == Drawn
        ends(cable) == {end \in cable : Reported(end)}
        same(cable) == {i \in DOMAIN drawn :
                          <<drawn[i].leftMac, drawn[i].leftPort>> \in cable}
    IN  Len(drawn) < EdgeCapacity(DeviceCount) =>
          \A cable \in input.network.cables :
            Cardinality(same(cable)) =
              IF cable \cap input.unnamed = {} /\ ends(cable) # {} THEN 1
              ELSE Cardinality(ends(cable))

\* What a user calls a device: by its name, else by its type, and one that is
\* not listed by its chassis.
CalledBy(mac) ==
  IF mac \notin input.network.listed THEN TextOf("chassis", mac)
  ELSE IF mac = input.order[1] THEN TextOf("type", mac) ELSE TextOf("name", mac)

(***************************************************************************)
(* Every device in the drawing is called the same in all places, whoever    *)
(* reports it first, and the chain names an "unknown device" only when more *)
(* peers were heard of than devices are listed: the array of nodes was full *)
(* (main.c:97-113, 211, 278-331, 410).  A device that has nothing to be     *)
(* called by is one whose label is lost with the buffer it stands in.       *)
(***************************************************************************)
DevicesNamed ==
  algorithm = "topology" =>
    LET drawn  == Drawn
        placed == Placed
        peers  == {end[1] : end \in EndsOf(input.network)} \ input.network.listed
        called(label, mac) ==
          label = IF mac \in input.nameless THEN Dead ELSE CalledBy(mac)
    IN  /\ \A i \in DOMAIN placed : called(placed[i].label, placed[i].mac)
        /\ \A i \in DOMAIN drawn :
             /\ called(drawn[i].leftLabel, drawn[i].leftMac)
             /\ called(drawn[i].rightLabel, drawn[i].rightMac)
        /\ IsChain(drawn, placed) /\ Chain(drawn, placed).at = 0
             => Cardinality(peers) > DeviceCount

\* The edges are the steps of one walk through all nodes.
IsLine(edges, nodes) ==
  /\ Len(edges) = Len(nodes) - 1
  /\ \A i \in DOMAIN nodes : Degree(edges, nodes[i].mac) <= 2
  /\ \E walk \in SetToSeqs({nodes[i].mac : i \in DOMAIN nodes}) :
       {{edges[i].leftMac, edges[i].rightMac} : i \in DOMAIN edges} =
         {{walk[i], walk[i + 1]} : i \in 1..(Len(walk) - 1)}

(***************************************************************************)
(* Devices cabled in a line are printed as one chain with every link once,  *)
(* whoever reports first and in whichever direction (main.c:367-417).       *)
(***************************************************************************)
LineDrawnWhole ==
  algorithm = "topology" =>
    LET drawn   == Drawn
        placed  == Placed
        printed == Chain(drawn, placed).printed
    IN  IsLine(drawn, placed) =>
          /\ IsChain(drawn, placed)
          /\ Len(printed) = Len(drawn)
          /\ {printed[i] : i \in DOMAIN printed} = DOMAIN drawn

-----------------------------------------------------------------------------
(* Checksums.                                                              *)

Addresses ==
  {<<192, 168, 0, 10>>, <<255, 255, 255, 255>>, <<0, 0, 0, 0>>, <<10, 0, 127, 254>>}

IPInputs ==
  [ident : {0, 1, 255, 256, 32768, 65535}, src : Addresses, dst : Addresses]

AddressPairs == {a \o b : a \in Addresses, b \in Addresses}

UDPInputs ==
  [addresses : AddressPairs,
   data : SeqOf(Data, 3)]

\* Both ports are 34964.
Ports == Bytes(34964) \o Bytes(34964)

\* The one's complement sum of all words is zero: what a receiver checks.
TotalOf(words) == FoldLeft(LAMBDA sum, word : sum + word, 0, words)

Verifies(bytes) ==
  LET total == TotalOf(Words(Padded(bytes))) IN total > 0 /\ total % MaxWord = 0

(***************************************************************************)
(* The IP header that is sent passes the receiver's check, and so does the  *)
(* UDP packet with the real pseudo header of RFC 768, though the code sums  *)
(* another one and stores the result the other way round, for data of even  *)
(* and odd length (packetHandler.c:1136-1148, 1163-1208).                   *)
(***************************************************************************)
ChecksumsVerify ==
  /\ algorithm = "ip" =>
       Verifies(IPHeader(184, input.ident, 64, input.src, input.dst))
  /\ algorithm = "udp" =>
       LET length == Bytes(Len(input.data) + 8)
           checksum == Stored(UDPChecksum(17, input.addresses, Ports, input.data))
       IN  Verifies(input.addresses \o <<0, 17>> \o length
                      \o Ports \o length \o checksum \o input.data)

-----------------------------------------------------------------------------
(* Requests.                                                               *)

Identity == <<1, 2, 0, 42>>

\* The values that fill a frame; the first remote lookup has no node.
Idents == {255, 65535}

Counters == {0, 65793, 2147483647}

Handles == {Zeros(20), [i \in 1..20 |-> 2 * i]}

ASSUME HandlesAssumption == NoNode \notin Handles

Indexes == {IM0, PDREALDATASUBMODUL, 61440}

RequestInputs ==
  [kind : {"identify"}, ident : Idents, counter : Counters, destIp : Addresses]
    \cup [kind : {"lookup"}, ident : Idents, counter : Counters, destIp : Addresses,
          handle : Handles]
    \cup [kind : {"remoteLookup"}, ident : Idents, counter : Counters,
          destIp : Addresses, handle : Handles \cup {NoNode}]
    \cup [kind : {"read"}, ident : Idents, counter : Counters, destIp : Addresses,
          index : Indexes, port : {34964, 49153}, slot : {0, 258}, subslot : {1, 32769}]
    \cup [kind : {"remoteRead"}, ident : Idents, counter : Counters,
          destIp : Addresses, index : Indexes, port : {34964, 49153}, slot : {0, 258},
          subslot : {1, 32769}, layer : {2, 3}]

\* Only a remote scan has the object, a local one the identity by DCP.
RequestOf(in) ==
  [field \in DOMAIN in \cup {"ownMac", "destMac", "ownIp", "deviceId", "vendorId",
                             "objectTail"} |->
     CASE field = "ownMac"   -> <<2, 0, 0, 0, 0, 1>>
       [] field = "destMac"  -> <<2, 0, 0, 0, 0, 2>>
       [] field = "ownIp"    -> <<192, 168, 0, 1>>
       [] field = "deviceId" -> Word(Identity[1], Identity[2])
       [] field = "vendorId" -> Word(Identity[3], Identity[4])
       [] field = "objectTail" ->
            IF "layer" \in DOMAIN in /\ in.layer = 3 THEN Identity ELSE Zeros(4)
       [] OTHER -> in[field]]

SentFrame(in) ==
  LET r == RequestOf(in) IN
  CASE in.kind = "identify"      -> IdentifyFrame(r)
    [] in.kind = "lookup"        -> LookupFrame(r)
    [] in.kind = "remoteLookup" -> RemoteLookupFrame(r)
    [] in.kind = "read"          -> ReadFrame(r)
    [] in.kind = "remoteRead"   -> RemoteReadFrame(r)

\* Bytes of a frame from an offset on, and the numbers they are.
Part(frame, offset, n) == SubSeq(frame, offset + 1, offset + n)
Big16(frame, offset)   == Word(frame[offset + 1], frame[offset + 2])
Low16(frame, offset)   == Word(frame[offset + 2], frame[offset + 1])
Low32(frame, offset)   == Low16(frame, offset) + 65536 * Low16(frame, offset + 2)

\* The slot and the subslot that a request asks for.
AskedPlace(in) ==
  IF in.index = PDREALDATASUBMODUL THEN <<in.slot, in.subslot>>
  ELSE IF in.index = IM0 /\ in.kind = "remoteRead" THEN <<in.slot, 1>>
  ELSE <<0, 1>>

\* What an endpoint mapper finds in the call at this offset.
LookupUnderstood(frame, call) ==
  /\ Part(frame, call + 52, 20) = IF input.handle = NoNode THEN Zeros(20)
                                  ELSE input.handle
  /\ call + 76 = Len(frame)

\* What a device finds there: the array and the block in it end with the frame.
ReadUnderstood(frame, call) ==
  LET block == call + 20 IN
  /\ Low16(frame, call + 4) = Len(frame) - block
  /\ Low16(frame, call + 16) = Len(frame) - block
  /\ block + 4 + Big16(frame, block + 2) = Len(frame)
  /\ <<Big16(frame, block + 28), Big16(frame, block + 30)>> = AskedPlace(input)
  /\ Big16(frame, block + 34) = input.index

(***************************************************************************)
(* A receiver that goes through a request by the lengths that stand in it   *)
(* arrives at the end of each layer with the end of the frame, whose bytes  *)
(* the code places one by one; the checksums verify; and what it reads is   *)
(* what was to be asked: of which device and port, under which number, with *)
(* which handle, or which index of which slot and subslot, in numbers of    *)
(* either byte order (packetHandler.c, remoteScan.c:965-1019, protocols.h:6).  *)
(***************************************************************************)
RequestReadsBack ==
  algorithm = "request" =>
    LET frame == SentFrame(input)
        udp   == 14 + 4 * (frame[15] % 16)
        rpc   == udp + 8
        call  == rpc + 80
    IN  IF input.kind = "identify"
        THEN /\ 26 + Big16(frame, 24) = 30 + Big16(frame, 28)
             /\ Len(frame) = DCP_PACKETSIZE
        ELSE /\ 14 + Big16(frame, 16) = Len(frame)
             /\ udp + Big16(frame, udp + 4) = Len(frame)
             /\ call + Low16(frame, rpc + 74) = Len(frame)
             /\ Verifies(Part(frame, 14, udp - 14))
             /\ Verifies(Part(frame, udp - 8, 8) \o <<0, 17>> \o Part(frame, udp + 4, 2)
                           \o SubSeq(frame, udp + 1, Len(frame)))
             /\ Part(frame, udp - 4, 4) = input.destIp
             /\ Low32(frame, rpc + 64) = input.counter
             /\ Big16(frame, udp + 2) = IF "port" \in DOMAIN input
                                        THEN input.port ELSE 34964
             /\ IF Low16(frame, rpc + 68) = 2
                THEN /\ LookupUnderstood(frame, call)
                     /\ Len(frame) = IP_UDP_RPC_PACKETSIZE
                ELSE /\ ReadUnderstood(frame, call)
                     /\ Len(frame) = IP_UDP_RPC_IM_PACKETSIZE
                     /\ Part(frame, rpc + 20, 4) = Identity

-----------------------------------------------------------------------------
(* DCP blocks.                                                             *)

BlocksOf(n) == [1..n -> [kind : Fields \cup {"other"}, length : Blocks]]

\* Up to two tags, and what is carried behind them.
TypesWith(carried) == {Append(ts, type) : ts \in SeqOf(Tags, 2), type \in carried}

\* An Ethernet frame has no more bytes than these.
MaxFrame == 1514

\* A value is told by the position of its block.  Up to three blocks behind up
\* to two tags in a whole frame, two blocks of which only a part was captured,
\* and what is no answer: another protocol, a packet that is cut behind a tag
\* or in the header, a request.
BlockInputs ==
  LET answers(bs, ts, cs) ==
        [blocks : bs, types : ts, service : {<<5, 1>>}, caplen : cs]
  IN  answers(BlocksOf(3), {<<PROFINET>>}, {MaxFrame})
        \cup answers(UNION {BlocksOf(n) : n \in 0..2}, TypesWith({PROFINET}), {MaxFrame})
        \cup answers(BlocksOf(2), {<<PROFINET>>}, 26..62)
        \cup [blocks : {<<[kind |-> "deviceIp", length |-> 14]>>},
              types : TypesWith({2048, PROFINET}),
              service : {<<5, 0>>, <<5, 1>>, <<3, 1>>}, caplen : 0..52]

HeaderOf(in) == 14 + 4 * (Len(in.types) - 1)

\* Where each block stands, and where the next one would.
AddBlock(offset, block) == offset + 4 + 2 * ((block.length + 1) \div 2)

StartOf(in, i) ==
  HeaderOf(in) + 12 + FoldLeft(AddBlock, 0, SubSeq(in.blocks, 1, i - 1))

\* Of data that is too long for its own length field, the greatest is claimed.
PacketOf(in) ==
  LET length == StartOf(in, Len(in.blocks) + 1) - HeaderOf(in) - 12 IN
  [types |-> in.types, service |-> in.service, caplen |-> in.caplen,
   dataLength |-> IF length <= 65535 THEN length ELSE 65535,
   blocks |-> [offset \in {StartOf(in, i) : i \in DOMAIN in.blocks} |->
     LET i == CHOOSE i \in DOMAIN in.blocks : StartOf(in, i) = offset IN
     [kind |-> in.blocks[i].kind, length |-> in.blocks[i].length, value |-> i]]]

\* The header of the block was captured.
Captured(in, i) == StartOf(in, i) + 4 <= in.caplen

\* A block that the walk gets over: its length is honest, and a name has its
\* BlockInfo.
WalkedOver(in, i) ==
  LET block == in.blocks[i] IN
  /\ Captured(in, i) /\ block.length # 65535
  /\ block.kind \in Names => block.length # 0

\* The value was captured, with its padding if it is a name, and is in its block.
Carried(in, i) ==
  LET block == in.blocks[i]
      has(n) == n <= block.length /\ StartOf(in, i) + 4 + n <= in.caplen
  IN  \/ block.kind = "deviceIp" /\ has(14)
      \/ block.kind = "deviceId" /\ has(6)
      \/ block.kind = "deviceRoleDetail" /\ has(3)
      \/ /\ block.kind \in Names
         /\ block.length > 2 => StartOf(in, i + 1) <= in.caplen

(***************************************************************************)
(* What becomes of a DCP answer, blocks of odd length and blocks that are    *)
(* skipped in it and whatever VLAN tags before it.  When the walk gets over *)
(* all blocks the device is listed, and each field has the value of the     *)
(* last block with that field, if the block carries it and it was captured.  *)
(* At a name that has not even its BlockInfo, or claims the greatest length, *)
(* the handler leaves; where no header was captured, or behind any other    *)
(* block of that length, it reads what is not the answer's.  Of another     *)
(* packet, or one without a whole header, nothing is read                   *)
(* (packetCapture.c:24-74, 97-251).                                         *)
(***************************************************************************)
EveryBlockRead ==
  algorithm = "blocks" =>
    LET n      == Len(input.blocks)
        walk   == ReadAnswer(PacketOf(input))
        passed == Max({k \in 0..n : \A i \in 1..k : WalkedOver(input, i)})
        next   == passed + 1
        with(f) == {i \in 1..n : input.blocks[i].kind = f}
    IN  IF ~ /\ Last(input.types) = PROFINET /\ input.service = <<5, 1>>
             /\ input.caplen >= HeaderOf(input) + 12
        THEN walk.result = "none"
        ELSE IF passed < n
        THEN walk.result = IF Captured(input, next) /\ input.blocks[next].kind \in Names
                           THEN "left" ELSE Torn
        ELSE /\ walk.result = "listed"
             /\ \A f \in Fields :
                  walk.sheet[f] = IF with(f) = {} THEN Unset
                                  ELSE IF Carried(input, Max(with(f)))
                                  THEN Max(with(f)) ELSE Torn

-----------------------------------------------------------------------------
(* Annotations.                                                            *)

Copies(char, n) == [i \in 1..n |-> char]

\* A number of so many digits in three places.
ThreePlaces(digit, n) == Copies(Blank, 3 - n) \o Copies(digit, n)

\* How long the parts are, and the letter before the software version.
AnnotationInputs ==
  [type : {1, 3, 22, 23, 24, 25}, order : {0, 1, 17, 18, 19, 20},
   hardware : {1, 5}, prefix : {"V", "R"}, digits : [1..3 -> 1..3]]

\* A type of more than one word.
TypeText(n) == [i \in 1..n |-> IF n > 2 /\ i = 2 THEN Blank ELSE "t"]

\* The 64 bytes as devices fill them: each part has its columns, a type 25, an
\* order number 20, a hardware revision 5 and a software version 1 and 3 of 3.
AnnotationOf(in) ==
  TypeText(in.type) \o Copies(Blank, 26 - in.type)
    \o Copies("o", in.order) \o Copies(Blank, 21 - in.order)
    \o Copies(Blank, 5 - in.hardware) \o Copies("h", in.hardware) \o <<Blank>>
    \o <<in.prefix>> \o ThreePlaces("1", in.digits[1])
    \o ThreePlaces("2", in.digits[2]) \o ThreePlaces("3", in.digits[3]) \o <<"end">>

(***************************************************************************)
(* A description comes apart into its type, order number, hardware and      *)
(* software version just when three blanks are left behind the type and     *)
(* behind the order number, there is an order number, the software version  *)
(* is a release 'V', and its second and third number are shorter than their *)
(* columns; the annotation itself is always kept whole                      *)
(* (packetCapture.c:780-960).                                               *)
(***************************************************************************)
AnnotationRead ==
  algorithm = "annotation" =>
    LET bytes == AnnotationOf(input)
        d     == input.digits
        read  == Description(bytes)
    IN  /\ read.annotation = bytes
        /\ /\ input.type <= 23 /\ input.order > 0
           /\ input.order + input.hardware <= 23
           /\ input.prefix = "V" /\ d[2] < 3 /\ d[3] < 3
           <=> /\ read.deviceType = TypeText(input.type)
               /\ read.orderId = Copies("o", input.order)
               /\ read.hardwareRevison = Copies("h", input.hardware)
               /\ read.version = <<"V">> \o Copies(Blank, IF d[1] < 3 THEN 1 ELSE 0)
                                   \o Copies("1", d[1]) \o <<".">> \o Copies("2", d[2])
                                   \o <<".">> \o Copies("3", d[3])

-----------------------------------------------------------------------------
(* Records.                                                                *)

InterfaceBlock(name) ==
  [kind |-> "interface", length |-> 24 + 4 * ((name + 3) \div 4)]

OtherBlock == [kind |-> "other", length |-> 20]

\* The multiple blocks of a record, each with interfaces or other blocks.
InterfaceInputs ==
  UNION {
    [multiples : UNION {[1..n -> SeqOf({InterfaceBlock(name), OtherBlock}, 2)] : n \in 1..3},
     name      : {name}] : name \in 0..8}

\* The record with a header where it ended, or ends.
WithHeader(record, offset, header) ==
  [o \in DOMAIN record.headers \cup {offset} |->
     IF o = offset THEN header ELSE record.headers[o]]

WithBlock(record, block) ==
  [length  |-> record.length + 4 + block.length,
   headers |-> WithHeader(record, record.length, block)]

\* A multiple block's header comes before its blocks and has their length.
WithMultiple(record, blocks) ==
  LET all == FoldLeft(WithBlock, [length  |-> record.length + 16,
                                  headers |-> record.headers], blocks)
  IN  [length  |-> all.length,
       headers |-> WithHeader(all, record.length,
                              [kind |-> "multiple", length |-> all.length - record.length - 4])]

NoRecord == [length |-> 0, headers |-> <<>>]

InterfaceRecord(multiples) == FoldLeft(WithMultiple, NoRecord, multiples)

\* The lengths of the IDs of a port, its peers and their chassis.
PortInputs ==
  [own : {7, 8, 9, 14}, peers : 0..2, peer : {7, 8, 14}, chassis : 0..9]

Aligned(bytes) == bytes \o Zeros((4 - (Len(bytes) % 4)) % 4)

Mac(n) == [i \in 1..6 |-> 16 * n + i]

\* The record of a port as devices fill it.
PeerBytes(port, chassis, mac) ==
  Aligned(<<Len(port)>> \o port \o <<Len(chassis)>> \o chassis)
    \o Zeros(4) \o mac \o Zeros(2)

PortBytes(own, count, peers, mau, state) ==
  Aligned(Zeros(12) \o <<Len(own)>> \o own \o <<count>>)
    \o peers \o mau \o Zeros(10) \o state \o Zeros(6)

PortRecord(in) ==
  LET peer(n) == PeerBytes(Copies(112, in.peer), Copies(99, in.chassis), Mac(n))
      \* The padding is before the first peer, not before the others.
      peers == CASE in.peers = 0 -> <<>>
                 [] in.peers = 1 -> peer(1)
                 [] in.peers = 2 -> peer(1) \o peer(2)
  IN  PortBytes(Copies(111, in.own), in.peers, peers, <<5, 6>>, <<7, 8>>)

\* An interface in the first multiple block is found, behind whichever blocks, and
\* its fields are read for every length of its name.  One in a later multiple
\* block is not; the walk then ends well only when there are two of them, and else
\* reads headers where none are.
InterfaceRight ==
  LET first == input.multiples[1]
      found == FindInterface(InterfaceRecord(input.multiples))
      here  == {i \in DOMAIN first : first[i].kind = "interface"}
  IN  IF here = {}
      THEN found.result = IF Len(input.multiples) = 2 THEN "none" ELSE Stray
      ELSE /\ found.result = "found" /\ found.bh = 16 + 24 * (Min(here) - 1)
           /\ LET aligned == found.bh + 4 * ((7 + input.name + 3) \div 4) IN
              InterfaceFields(found.bh, input.name) =
                [nameOfStation |-> found.bh + 7, deviceMACaddress |-> aligned,
                 subnetmask |-> aligned + 12, defaultGateway |-> aligned + 16]

\* A port's record is read right for port IDs of eight bytes, chassis IDs of every
\* length, and one peer or none; not when the port's own ID has more than ten
\* bytes, two of which the padding can hide, or the peer's more than eight.  The
\* MAU type has its bytes swapped where there is no peer.
PortRight ==
  LET one(bytes) == IF input.peers = 0 THEN <<>> ELSE bytes
      right == [ownPortID |-> Copies(111, input.own),
                peerPortID |-> one(Copies(112, input.peer)),
                peerChassisID |-> one(Copies(99, input.chassis)),
                peerMacAddress |-> one(Mac(1)),
                MAUType |-> IF input.peers = 0 THEN <<6, 5>> ELSE <<5, 6>>,
                portState |-> <<7, 8>>]
      read == PortData(PortRecord(input))
  IN  /\ input.own = 8 /\ input.peers < 2 /\ (input.peers = 1 => input.peer = 8)
           => read = right
      /\ input.own > 10 \/ (input.peers > 0 /\ input.peer > 8) => read # right

(***************************************************************************)
(* The records that implicit reads bring are read right for just the        *)
(* devices that the code is made for: the interface in the first multiple   *)
(* block (packetCapture.c:1048-1159, the pointer of line 1153), and "just   *)
(* hope that there is no longer port id" than of eight bytes                *)
(* (protocols.h:661, packetCapture.c:1205-1281).                            *)
(***************************************************************************)
RecordsRead ==
  /\ algorithm = "interface" => InterfaceRight
  /\ algorithm = "port" => PortRight

-----------------------------------------------------------------------------
(* Command lines.                                                          *)

Text(text)     == [text |-> text, number |-> Absent]
Number(number) == [text |-> ToString(number), number |-> number]

\* Options with their values: those that a scan is started with, and others.
UsualGroups ==
  {<<"--interface", Number(1)>>, <<"--interface", Text("eth1")>>,
   <<"--mode", Text("local")>>, <<"--mode", Text("remote")>>,
   <<"--target", Number(1)>>, <<"--duration", Number(10)>>}

OtherGroups ==
  {<<"--help">>, <<"--interactive">>, <<"--list-interfaces">>, <<"--fast">>,
   <<"--interface", Number(3)>>, <<"--interface", Text("wlan0")>>,
   <<"--mode", Text("fast")>>, <<"--target", Text("nowhere")>>,
   <<"--duration", Number(0)>>, <<"--duration", Text("long")>>}

Interface(name, real, addresses) ==
  [name |-> name, real |-> real, addresses |-> addresses, mac |-> name]

\* Two addresses, a bridge with its port's address, and nothing to scan with.
Systems ==
  { << Interface("lo", FALSE, <<"127.0.0.1">>), Interface("eth0", TRUE, <<"a", "b">>),
       Interface("wlan0", FALSE, <<"c">>), Interface("eth1", TRUE, <<"d">>) >>,
    << Interface("br0", FALSE, <<"d">>), Interface("eth0", TRUE, <<>>),
       Interface("eth1", TRUE, <<"d">>) >>,
    << Interface("wlan0", FALSE, <<"c">>) >> }

\* Nothing that is there is taken for nothing.
ASSUME AbsentAssumption ==
  /\ Absent \notin Int \cup Modes \cup Valued
  /\ \A group \in UsualGroups \cup OtherGroups : Absent \notin Range(Tail(group))
  /\ \A system \in Systems : \A interface \in Range(system) :
       Absent \notin Range(interface.addresses)

\* What is typed when it is asked for.
Typed ==
  { [interface |-> 2, mode |-> "remote", target |-> TRUE],
    [interface |-> 2, mode |-> "remote", target |-> FALSE],
    [interface |-> 3, mode |-> "fast", target |-> TRUE] }

\* An option may stand at the end without its value.
CommandInputs ==
  [groups : SeqOf(UsualGroups \cup OtherGroups, 2) \cup SeqOf(UsualGroups, 4),
   dangling : {<<>>, <<"--duration">>}, system : Systems, typed : Typed]

Arguments(group) == <<Text(group[1])>> \o Tail(group)

Argv(in) ==
  FlattenSeq([i \in DOMAIN in.groups |-> Arguments(in.groups[i])])
    \o [i \in DOMAIN in.dangling |-> Text(in.dangling[i])]

\* An option that a scan can begin with.
OfScan(group) ==
  \/ group[1] \in {"--interactive", "--interface", "--target"}
  \/ group[1] = "--mode" /\ group[2].text \in Modes
  \/ group[1] = "--duration" /\ group[2].number \in Nat \ {0}

\* The value of the last such option, or what was typed instead.
LastValue(groups, option, otherwise) ==
  LET given == {i \in DOMAIN groups : groups[i][1] = option}
  IN  IF given = {} THEN otherwise ELSE groups[Max(given)][2]

\* The interfaces of a system that are meant: by name, or by the number among
\* those that are real.
Meant(system, value) ==
  LET number(i) == Cardinality({j \in 1..i : system[j].real})
  IN  {system[i] : i \in {j \in DOMAIN system :
         /\ system[j].real
         /\ IF value.number = Absent THEN system[j].name = value.text
            ELSE number(j) = value.number}}

\* The scan that is begun with these inputs, if one is.
AskedFor(in) ==
  LET started == Started(Argv(in), in.system, in.typed)
      last(option, typed) == LastValue(in.groups, option, typed)
      given(option) == \E i \in DOMAIN in.groups : in.groups[i][1] = option
      asks   == given("--interactive") \/ Argv(in) = <<>>
      meant  == Meant(in.system, last("--interface", Number(in.typed.interface)))
      mode   == last("--mode", Text(in.typed.mode)).text
      target == last("--target", IF in.typed.target THEN Number(1) ELSE Text("nowhere"))
  IN  /\ started.outcome = "scan" <=>
           /\ \A i \in DOMAIN in.groups : OfScan(in.groups[i])
           /\ in.dangling = <<>> /\ meant # {} /\ mode \in Modes
           /\ asks \/ (given("--interface") /\ given("--mode"))
           /\ mode = "remote" => asks \/ given("--target")
           /\ mode = "remote" => target.number # Absent
      /\ started.outcome = "scan" =>
           \A interface \in meant :
             LET own  == interface.addresses
                 same == {i \in DOMAIN in.system :
                            Last(own) \in Range(in.system[i].addresses)}
             IN  started = [outcome |-> "scan", adapter |-> interface.name,
                            mode |-> mode,
                            duration |-> last("--duration", Number(0)).number,
                            ownIp |-> IF own = <<>> THEN Absent ELSE Last(own),
                            ownMac |-> IF own = <<>> THEN Absent
                                       ELSE in.system[Min(same)].mac]

(***************************************************************************)
(* A scan begins just when every argument is understood, none asks for      *)
(* something else, nothing is missing that will not be asked for, and the   *)
(* interface, the mode and the target that were meant exist; it is the scan *)
(* that the last of each option has asked for, and it has the interface's   *)
(* own address, but the MAC of another when that comes first with the same  *)
(* address, and neither when the interface has no IPv4 address              *)
(* (main.c:574-783, deviceHandler.c:56-131, 229-300, 553-632).              *)
(***************************************************************************)
ScanIsAsked == algorithm = "command" => AskedFor(input)

-----------------------------------------------------------------------------
(* Cleaning up.                                                            *)

\* Devices with and without a description, a name and slots, and whether freed
\* memory still reads as before.
CleanupInputs ==
  [list : SeqOf([name : {"heap", Null}, hardware : {"heap", "literal"},
                 slots : {<<>>, <<2>>, <<1, 3>>, <<2, 0, 1>>}], 2),
   oldPointer : BOOLEAN]

\* What is freed of a list, by how its freed memory reads: see FreedOnce.
FreedRight(list, oldPointer) ==
  LET freed == EmptyList(list, oldPointer)
      at(block) == {i \in DOMAIN freed : freed[i] = block}
      devices == DOMAIN list
      again == Len(list) > 1 /\ ~oldPointer
  IN  /\ \A i, j \in DOMAIN freed :
           i < j /\ freed[i] = freed[j] => again /\ freed[i] = <<"node", 1>>
      /\ again => Cardinality(at(<<"node", 1>>)) = 2
      /\ {d \in devices : at(<<"node", d>>) # {}} =
           IF Len(list) = 1 THEN {1} ELSE devices \ {Len(list)}
      /\ (\E d \in devices : at(<<"hardware", d, "literal">>) # {}) <=>
           list # <<>> /\ list[1].hardware = "literal" /\ (Len(list) = 1 \/ again)
      /\ \A d \in devices : \A s \in DOMAIN list[d].slots :
           /\ s > 1 /\ at(<<"node", d>>) # {} => at(<<"slot", d, s>>) # {}
           /\ \A u \in 1..list[d].slots[s] :
                \A i \in at(<<"subslot", d, s, u>>), j \in at(<<"slot", d, s>>) : i < j

(***************************************************************************)
(* "remove all items from the list" (linkedList.c:106): each block is freed *)
(* once at most, a slot after its subslots, and of one device all but what  *)
(* hangs on the first of several slots.  Of several devices all nodes but   *)
(* the last go, and the first goes a second time when its freed memory does *)
(* not read as before.  A literal is freed for a single device that has not *)
(* been described (packetCapture.c:255), and then only.                     *)
(***************************************************************************)
FreedOnce == algorithm = "cleanup" => FreedRight(input.list, input.oldPointer)

-----------------------------------------------------------------------------
(* The file of results.                                                    *)

Submodule(number, peer) ==
  [t \in Range(PeerTags) \cup {"subslotNumber", "ownPortID", "MAUType", "portstate",
                               "submoduleIndetificationNumber"} |->
     CASE t = "subslotNumber" -> number
       [] t \in Range(PeerTags) \cup {"ownPortID"} -> IF peer THEN t ELSE Nil
       [] t = "MAUType" -> IF peer THEN 16 ELSE 65535
       [] t = "portstate" -> IF peer THEN 1 ELSE 0
       [] OTHER -> t]

Module(number, asked, subslots) ==
  [slotNumber |-> number, moduleIdentificationNumber |-> "id",
   moduledata |-> [t \in Range(ModuleTags) |-> IF asked THEN t ELSE Nil],
   numberOfSubmodules |-> Len(subslots), subslotList |-> subslots]

\* What a device is like whose slots these are.
DeviceOf(ip, mac, slots) ==
  [t \in {"ip-address", "mac-address", "subnetmask", "defaultGateway", "vendorId",
          "deviceId", "deviceRole", "nameOfStation", "softwareVersion",
          "HardwareRevision", "deviceType", "orderId", "UDP_Port", "numberOfSlots",
          "slotList"} |->
     CASE t \in {"ip-address", "defaultGateway"} -> ip
       [] t = "mac-address" -> mac
       [] t = "subnetmask" -> Fresh
       [] t = "nameOfStation" -> IF slots = <<>> THEN Nil ELSE ip
       [] t \in {"deviceRole", "UDP_Port", "numberOfSlots"} -> Len(slots)
       [] t = "slotList" -> slots
       [] OTHER -> t]

Devices ==
  {DeviceOf("one", "gateway", <<>>),
   DeviceOf("two", "mac",
     <<Module(0, TRUE, <<Submodule(1, FALSE), Submodule(32769, TRUE)>>)>>),
   DeviceOf("three", "gateway",
     <<Module(0, FALSE, <<>>), Module(5, TRUE, <<Submodule(1, TRUE)>>)>>)}

\* What an earlier run of the program has written, and what this one writes.
ResultInputs ==
  [earlier : SeqOf(Devices, 1), devices : SeqOf(Devices, 2), writable : BOOLEAN]

NoFile == [exists |-> FALSE, file |-> <<>>, endpos |-> 0, writable |-> TRUE]

WriteNext(disk, device) == WriteToFile(disk, device, "gateway")

Written(disk, devices) == FoldLeft(WriteNext, disk, devices)

WrittenFile ==
  LET disk == Written(NoFile, input.earlier)
  IN  Written(Restart([disk EXCEPT !.writable = input.writable]), input.devices).file

\* The addresses and numbers that tell a device's tree.
InTree == {"ip-address", "slotNumber", "subslotNumber"}

\* Where a reader of XML is, tag in tag, and what it has read of trees, in its places.
ReadToken(reader, token) ==
  CASE token[1] = "open" -> [reader EXCEPT !.place = Append(@, token[2])]
    [] token[1] = "close" ->
         [reader EXCEPT !.place = IF @ # <<>> /\ Last(@) = token[2]
                                  THEN Front(@) ELSE Append(@, "broken")]
    [] token[1] = "field" /\ token[2] \in InTree ->
         [reader EXCEPT !.fields =
            Append(@, <<Append(reader.place, token[2]), token[3]>>)]
    [] OTHER -> reader

Reader(file) == FoldLeft(ReadToken, [place |-> <<>>, fields |-> <<>>], file)

\* The addresses and numbers that a device's tree has, in their places.
TreeOf(device) ==
  LET in(inner) == <<"DeviceCollection", "Device">> \o inner
      submodules(slot) ==
        [i \in DOMAIN slot.subslotList |->
          <<in(<<"Modules", "Module", "Submodules", "Submodule", "subslotNumber">>),
            slot.subslotList[i]["subslotNumber"]>>]
  IN  << <<in(<<"ip-address">>), device["ip-address"]>> >>
        \o FlattenSeq([i \in DOMAIN device.slotList |->
             << <<in(<<"Modules", "Module", "slotNumber">>),
                  device.slotList[i]["slotNumber"]>> >> \o submodules(device.slotList[i])])

(***************************************************************************)
(* "delete the last line or start writing in the line before"               *)
(* (fileHandler.c:172): the file is a document with all devices in order,   *)
(* each with its slots and subslots, however many calls have written it,    *)
(* when one run of the program has.  A second run writes its devices over   *)
(* the first run's from the top of the file, and it is no document any      *)
(* more; one that can not write leaves all as it is.                        *)
(***************************************************************************)
FileReadsBack ==
  algorithm = "results" =>
    LET file   == WrittenFile
        reader == Reader(file)
        written == input.earlier \o (IF input.writable THEN input.devices ELSE <<>>)
    IN  written # <<>> =>
          IF input.earlier = <<>> \/ input.devices = <<>> \/ ~input.writable
          THEN /\ Head(file) = Head(TopOfFile) /\ reader.place = <<>>
               /\ reader.fields
                    = FlattenSeq([i \in DOMAIN written |-> TreeOf(written[i])])
          ELSE Head(file) # Head(TopOfFile)

-----------------------------------------------------------------------------
(* Targets and next hops.                                                  *)

Edge == {-1, 0, 1, 254, 255, 256}

SecondNumbers == {-1, 168, 256}

\* The first numbers of a text, and the others.
Parsed(second, rest) == <<192, second, 0>> \o rest

ParsedTargets == {Parsed(b, rest) : b \in SecondNumbers, rest \in SeqOf(Edge, 2)}

\* With up to two trailing blanks.
TargetInputs == [numbers : ParsedTargets, length : {6, 7, 8, 63, 64}, blanks : 0..2]

(***************************************************************************)
(* --target a.b.c.d-e stands for each address from a.b.c.d to a.b.c.e once  *)
(* and in order, and a.b.c.d for itself; everything else is refused         *)
(* (remoteScan.c:1403-1484, README.md:95).                                  *)
(***************************************************************************)
TargetsAreTheRange ==
  algorithm = "target" =>
    LET n == input.numbers
        list == TargetIP(n, input.length, input.blanks)
        last == Len(n)
    IN  IF /\ last >= 4 /\ n[2] = 168 /\ n[4] >= 0 /\ n[last] <= 255
           /\ n[4] <= n[last] /\ input.length <= 63
           /\ input.length >= 7 + input.blanks
        THEN list = [i \in 1..(n[last] - n[4] + 1) |->
                       <<192, 168, 0, n[4] + i - 1>>]
        ELSE list = Failed

\* The adapter e0 that was chosen, and another, w0; each has a gateway.
Gateway == [e0 |-> <<192, 168, 1, 1>>, w0 |-> <<172, 16, 0, 1>>]

Routes ==
  [adapter : {"e0", "w0"}, default : BOOLEAN, viaGateway : BOOLEAN]

Hosts ==
  << <<192, 168, 1, 20>>, <<192, 168, 1, 200>>, <<192, 168, 2, 20>>, <<10, 0, 0, 1>> >>

MacOf(address, adapter) == <<adapter, address>>

\* The ARP cache, of the hosts on e0 and the two gateways.
Line(ip, adapter) == [ip |-> ip, adapter |-> adapter, mac |-> MacOf(ip, adapter)]

Lines ==
  << Line(Gateway.w0, "w0"), Line(Gateway.e0, "e0") >>
    \o [i \in DOMAIN Hosts |-> Line(Hosts[i], "e0")]

ASSUME MacsAssumption == \A l \in Range(Lines) : l.mac \notin {NoMac, Failed}

\* Two requests in a row with the gateway's MAC that the first has left.
RouteInputs ==
  [prefix : {16, 24, 25}, routes : SeqOf(Routes, 2),
   missing : SmallSubsets({l.ip : l \in Range(Lines)}),
   first : Range(Hosts), second : Range(Hosts)]

\* How many values a byte of the address has for the hosts of a subnet.
HostValues(prefix, i) ==
  IF 8 * i <= prefix THEN 1 ELSE IF 8 * i >= prefix + 8 THEN 256
  ELSE <<2, 4, 8, 16, 32, 64, 128>>[8 * i - prefix]

MaskOf(prefix) == [i \in 1..4 |-> 256 - HostValues(prefix, i)]

EnvOf(in, gatewayMac) ==
  [own |-> <<192, 168, 1, 10>>, mask |-> MaskOf(in.prefix), adapter |-> "e0",
   gatewayMac |-> gatewayMac,
   routes |-> [i \in DOMAIN in.routes |->
                 [default |-> in.routes[i].default,
                  viaGateway |-> in.routes[i].viaGateway,
                  gateway |-> Gateway[in.routes[i].adapter]]],
   arp |-> FlattenSeq([i \in DOMAIN Lines |->
             IF Lines[i].ip \in in.missing THEN <<>> ELSE << Lines[i] >>])]

First  == ResolveRemoteDestinationMac(EnvOf(input, NoMac), input.first)
Second == ResolveRemoteDestinationMac(EnvOf(input, First.gatewayMac), input.second)

\* The first bits of the two addresses are the same.
SameBits(a, b, prefix) ==
  \A i \in 1..4 : a[i] \div HostValues(prefix, i) = b[i] \div HostValues(prefix, i)

DefaultGateways ==
  {i \in DOMAIN input.routes :
     input.routes[i].default /\ input.routes[i].viaGateway}

(***************************************************************************)
(* Both requests go to the target itself when it is on the subnet and in    *)
(* the ARP cache, else to the gateway of the first default route, also the  *)
(* second with the MAC that the first has kept, or to the zero MAC when     *)
(* that gateway is not reached by the chosen adapter; and none is sent      *)
(* without a host or a route (deviceHandler.c:307-320, 790-833).            *)
(***************************************************************************)
NextHopRight ==
  algorithm = "route" =>
    \A call \in {<<input.first, First.mac>>, <<input.second, Second.mac>>} :
      LET arp == {l.ip : l \in {m \in Range(Lines) : m.adapter = "e0"}}
                   \ input.missing
          gateway == Gateway[input.routes[Min(DefaultGateways)].adapter]
          hop(address, otherwise) ==
            IF address \in arp THEN MacOf(address, "e0") ELSE otherwise
      IN  call[2] =
            IF SameBits(<<192, 168, 1, 10>>, call[1], input.prefix)
            THEN hop(call[1], Failed)
            ELSE IF DefaultGateways = {} THEN Failed ELSE hop(gateway, NoMac)

(***************************************************************************)
(* deviceHandler.c:634, "fuction returns the default gateway (ip) of a      *)
(* lokal interface": a target off the subnet is reached by the gateway of   *)
(* the chosen adapter when it has one.  On Linux the first default route of *)
(* any interface is taken.                                                  *)
(***************************************************************************)
GatewayIsAdapters ==
  /\ algorithm = "route" /\ input.missing = {}
  /\ ~SameBits(<<192, 168, 1, 10>>, input.first, input.prefix)
  /\ \E i \in DefaultGateways : input.routes[i].adapter = "e0"
  => First.mac = MacOf(Gateway.e0, "e0")

-----------------------------------------------------------------------------
Init ==
  \/ algorithm = "topology" /\ input \in TopologyInputs
  \/ algorithm = "ip"       /\ input \in IPInputs
  \/ algorithm = "udp"      /\ input \in UDPInputs
  \/ algorithm = "annotation" /\ input \in AnnotationInputs
  \/ algorithm = "blocks"   /\ input \in BlockInputs
  \/ algorithm = "target"   /\ input \in TargetInputs
  \/ algorithm = "route"    /\ input \in RouteInputs
  \/ algorithm = "interface" /\ input \in InterfaceInputs
  \/ algorithm = "port"     /\ input \in PortInputs
  \/ algorithm = "command"  /\ input \in CommandInputs
  \/ algorithm = "cleanup"  /\ input \in CleanupInputs
  \/ algorithm = "results"  /\ input \in ResultInputs
  \/ algorithm = "request"  /\ input \in RequestInputs

\* Nothing happens to an input.
Next == UNCHANGED vars

Spec == Init /\ [][Next]_vars

=============================================================================
