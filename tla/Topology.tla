------------------------------ MODULE Topology ------------------------------
(***************************************************************************)
(* The topology that is printed after a scan (main.c, printResolved-        *)
(* Topology): the ports of all devices report their peers, in the order of  *)
(* the device list and the slot trees; reports become edges and nodes in    *)
(* two arrays of limited size, and a chain is printed from a node with one  *)
(* edge on, or all edges when there is no such node.  A device has its MAC, *)
(* its nameOfStation, its deviceType and the ports of its subslots.         *)
(***************************************************************************)
EXTENDS Integers, Sequences, SequencesExt, FiniteSets

CONSTANTS
  NoText,  \* a string or a MAC that is NULL, or an empty string where the code
           \* makes no difference; a port that answers has an ID of its own
  Dead     \* a label in a buffer of the loop's body, which is gone when the
           \* label is printed: whatever stands there

\* The first of the set, 0 when it is empty.
FirstOf(S) == IF S = {} THEN 0 ELSE CHOOSE i \in S : \A j \in S : i <= j

-----------------------------------------------------------------------------
(* The reports.                                                            *)

\* getDeviceLabel; the MAC is written into the caller's buffer.
DeviceLabel(device) ==
  IF device.nameOfStation # NoText THEN device.nameOfStation
  ELSE IF device.deviceType # NoText THEN device.deviceType ELSE Dead

\* findDeviceByMac, 0 when it is not listed.
DeviceByMac(list, mac) == FirstOf({i \in DOMAIN list : list[i].mac = mac})

\* Mutant of PeerLabel: what the reporting port has heard goes first.
PeerLabelHeard(list, port) ==
  IF port.peerChassisID # NoText THEN port.peerChassisID ELSE Dead

PeerLabel(list, port) ==
  LET peerDevice == DeviceByMac(list, port.peerMacAddress) IN
  IF peerDevice # 0 THEN DeviceLabel(list[peerDevice])
  ELSE IF port.peerChassisID # NoText THEN port.peerChassisID ELSE Dead

Report(list, device, port) ==
  [leftLabel |-> DeviceLabel(device), rightLabel |-> PeerLabel(list, port),
   leftPort  |-> port.ownPortID,      rightPort  |-> port.peerPortID,
   leftMac   |-> device.mac,          rightMac   |-> port.peerMacAddress]

\* A port that has not answered, or has no peer, reports nothing.
Told(list, device, port) ==
  IF port.ownPortID = NoText \/ port.peerMacAddress = NoText THEN <<>>
  ELSE << Report(list, device, port) >>

\* Device by device and port by port.
Reports(list) ==
  FlattenSeq([d \in DOMAIN list |->
    FlattenSeq([p \in DOMAIN list[d].ports |->
                 Told(list, list[d], list[d].ports[p])])])

-----------------------------------------------------------------------------
(* The arrays.                                                             *)

\* The arrays' sizes for so many devices in the list.
EdgeCapacity(deviceCount) == deviceCount * 8

NodeCapacity(deviceCount) == deviceCount * 2

\* Mutant of Matches: an edge is compared with reports from the same end only.
MatchesOneWay(edge, report) ==
  /\ edge.leftMac = report.leftMac /\ edge.rightMac = report.rightMac
  /\ edge.leftPort = report.leftPort /\ edge.rightPort = report.rightPort

\* edgeMatches; sameOptionalPort is equality when NULL is a value.
Matches(edge, report) ==
  \/ /\ edge.leftMac = report.leftMac /\ edge.rightMac = report.rightMac
     /\ edge.leftPort = report.leftPort /\ edge.rightPort = report.rightPort
  \/ /\ edge.leftMac = report.rightMac /\ edge.rightMac = report.leftMac
     /\ edge.leftPort = report.rightPort /\ edge.rightPort = report.leftPort

\* appendTopologyEdge.
AppendEdge(edges, report, capacity) ==
  IF \/ Len(edges) >= capacity
     \/ \E i \in DOMAIN edges : Matches(edges[i], report)
  THEN edges ELSE Append(edges, report)

\* findTopologyNodeIndex, 0 when there is none.
NodeIndex(nodes, mac) == FirstOf({i \in DOMAIN nodes : nodes[i].mac = mac})

\* appendTopologyNode: the first label stays.
AppendNode(nodes, label, mac, capacity) ==
  IF NodeIndex(nodes, mac) # 0 \/ Len(nodes) >= capacity
  THEN nodes ELSE Append(nodes, [label |-> label, mac |-> mac])

Edges(reports, deviceCount) ==
  FoldLeft(LAMBDA edges, r : AppendEdge(edges, r, EdgeCapacity(deviceCount)),
           <<>>, reports)

\* Each report adds its own end first.
Nodes(reports, deviceCount) ==
  LET capacity == NodeCapacity(deviceCount) IN
  FoldLeft(LAMBDA nodes, r :
             AppendNode(AppendNode(nodes, r.leftLabel, r.leftMac, capacity),
                        r.rightLabel, r.rightMac, capacity),
           <<>>, reports)

\* How many edges end at the device.
Degree(edges, mac) ==
  Cardinality({i \in DOMAIN edges : edges[i].leftMac = mac})
    + Cardinality({i \in DOMAIN edges : edges[i].rightMac = mac})

\* Mutant of StartIndex: any node with an edge.
StartAnywhere(edges, nodes) ==
  FirstOf({i \in DOMAIN nodes : Degree(edges, nodes[i].mac) >= 1})

\* The first node with one edge.
StartIndex(edges, nodes) ==
  FirstOf({i \in DOMAIN nodes : Degree(edges, nodes[i].mac) = 1})

Touches(edge, mac) == edge.leftMac = mac \/ edge.rightMac = mac

\* findEdgeForNode.
EdgeForNode(edges, visited, mac) ==
  FirstOf({i \in DOMAIN edges \ visited : Touches(edges[i], mac)})

OtherEnd(edge, mac) ==
  IF edge.leftMac = mac THEN edge.rightMac ELSE edge.leftMac

\* The chain as far as it is printed: the edges in their order, and the node
\* reached, 0 for "unknown device".
ChainStep(edges, nodes, chain) ==
  LET mac  == nodes[chain.at].mac
      edge == EdgeForNode(edges, {chain.printed[i] : i \in DOMAIN chain.printed},
                          mac)
  IN  IF chain.at = 0 THEN chain
      ELSE IF edge = 0 THEN chain
      ELSE [printed |-> Append(chain.printed, edge),
            at |-> NodeIndex(nodes, OtherEnd(edges[edge], mac))]

\* The while loop runs while there are edges that it has not printed.
Chain(edges, nodes) ==
  FoldLeft(LAMBDA chain, round : ChainStep(edges, nodes, chain),
           [printed |-> <<>>, at |-> StartIndex(edges, nodes)], edges)

IsChain(edges, nodes) == StartIndex(edges, nodes) # 0

=============================================================================
