--------------------------- MODULE TopologyProofs ---------------------------
(***************************************************************************)
(* What the topology of any scan is: proofs about the loops of Topology for *)
(* every list of reports, every number of devices, and every drawing.       *)
(***************************************************************************)
EXTENDS Topology, TLAPS, WellFoundedInduction, FiniteSetTheorems

CONSTANTS
  DeviceCount,  \* the devices in the list
  Drawn,        \* the edges and the nodes that a chain is printed from
  Placed

EdgeStep(edges, r) == AppendEdge(edges, r, EdgeCapacity(DeviceCount))

EdgeLoop == INSTANCE LeftFold WITH Step <- EdgeStep, Base <- <<>>

NodeStep(nodes, r) ==
  AppendNode(AppendNode(nodes, r.leftLabel, r.leftMac, NodeCapacity(DeviceCount)),
             r.rightLabel, r.rightMac, NodeCapacity(DeviceCount))

NodeLoop == INSTANCE LeftFold WITH Step <- NodeStep, Base <- <<>>

PrintStep(chain, round) == ChainStep(Drawn, Placed, chain)

StartOfChain == [printed |-> <<>>, at |-> StartIndex(Drawn, Placed)]

PrintLoop == INSTANCE LeftFold WITH Step <- PrintStep, Base <- StartOfChain

-----------------------------------------------------------------------------
(* Helpers.                                                                *)

LEMMA FirstOfIs ==
  ASSUME NEW S, S \subseteq Nat
  PROVE  \/ S = {} /\ FirstOf(S) = 0
         \/ FirstOf(S) \in S /\ \A j \in S : FirstOf(S) <= j
<1> DEFINE R == OpToRel(<, Nat)
<1>1. \A x, y \in Nat : <<x, y>> \in R <=> x < y
  BY DEF OpToRel
<1>2. IsWellFoundedOn(R, Nat)
  BY NatLessThanWellFounded, Zenon
<1> HIDE DEF R
<1>3. CASE S = {}
  BY <1>3 DEF FirstOf
<1>4. CASE S # {}
  <2>1. PICK x \in S : \A y \in S : ~(<<y, x>> \in R)
    BY <1>2, <1>4, WFMin
  <2>2. \A y \in S : x <= y
    <3>1. ASSUME NEW y \in S PROVE x <= y
      <4>1. x \in Nat /\ y \in Nat /\ ~(<<y, x>> \in R)
        BY <2>1
      <4>2. QED
        BY <1>1, <4>1
    <3>2. QED
      BY <3>1
  <2>3. QED
    BY <1>4, <2>1, <2>2 DEF FirstOf
<1>5. QED
  BY <1>3, <1>4

\* What Append makes of a sequence.
LEMMA Appended ==
  ASSUME NEW R, NEW seq \in Seq(R), NEW x \in R
  PROVE  /\ Append(seq, x) \in Seq(R) /\ Len(Append(seq, x)) = Len(seq) + 1
         /\ DOMAIN Append(seq, x) = DOMAIN seq \cup {Len(seq) + 1}
         /\ Append(seq, x)[Len(seq) + 1] = x
         /\ \A i \in DOMAIN seq : Append(seq, x)[i] = seq[i]
         /\ Len(seq) \in Nat /\ DOMAIN seq = 1..Len(seq)
  OBVIOUS

-----------------------------------------------------------------------------
(* The edges.                                                              *)

\* Reports of the same cable, from the same end or from both.
LEMMA MatchesIsEquivalence ==
  ASSUME NEW a, NEW b, NEW c
  PROVE  /\ Matches(a, a)
         /\ Matches(a, b) => Matches(b, a)
         /\ Matches(a, b) /\ Matches(b, c) => Matches(a, c)
  BY DEF Matches

\* The edges after the first n reports.
DrawnRight(edges, reports, n) ==
  /\ Len(edges) <= EdgeCapacity(DeviceCount)
  /\ \A i, j \in DOMAIN edges : i # j => ~Matches(edges[i], edges[j])
  /\ \A j \in DOMAIN edges : \E i \in 1..n :
       /\ edges[j] = reports[i]
       /\ \A h \in 1..(i - 1) : ~Matches(reports[h], reports[i])
  /\ Len(edges) < EdgeCapacity(DeviceCount) =>
       \A i \in 1..n : \E j \in DOMAIN edges : Matches(edges[j], reports[i])

LEMMA EdgeAppended ==
  ASSUME DeviceCount \in Nat, NEW R, NEW reports \in Seq(R),
         NEW n \in 0..(Len(reports) - 1), NEW edges \in Seq(R),
         DrawnRight(edges, reports, n)
  PROVE  /\ EdgeStep(edges, reports[n + 1]) \in Seq(R)
         /\ DrawnRight(EdgeStep(edges, reports[n + 1]), reports, n + 1)
<1> DEFINE r == reports[n + 1]
           capacity == EdgeCapacity(DeviceCount)
           new == EdgeStep(edges, r)
<1>1. r \in R /\ n \in Nat /\ Len(edges) \in Nat /\ capacity \in Nat
  BY DEF EdgeCapacity
<1>2. 1..n \subseteq 1..(n + 1) /\ n + 1 \in 1..(n + 1)
  BY <1>1
<1>3. \A i \in 1..(n + 1) : i \in 1..n \/ i = n + 1
  BY <1>1
<1> HIDE DEF r, capacity
<1>4. CASE Len(edges) >= capacity
  <2>1. new = edges
    BY <1>4 DEF EdgeStep, AppendEdge, capacity
  <2>2. ~(Len(edges) < capacity)
    BY <1>1, <1>4
  <2>3. QED
    BY <1>2, <2>1, <2>2 DEF DrawnRight, capacity, r
<1>5. CASE \E i \in DOMAIN edges : Matches(edges[i], r)
  <2>1. new = edges
    BY <1>5 DEF EdgeStep, AppendEdge
  <2>2. ASSUME Len(edges) < capacity, NEW i \in 1..(n + 1)
        PROVE  \E j \in DOMAIN edges : Matches(edges[j], reports[i])
    BY <1>3, <1>5, <2>2 DEF DrawnRight, capacity, r
  <2>3. DrawnRight(edges, reports, n + 1)
    BY <1>2, <2>2 DEF DrawnRight, capacity
  <2>4. QED
    BY <2>1, <2>3 DEF r
<1>6. CASE /\ Len(edges) < capacity
           /\ \A i \in DOMAIN edges : ~Matches(edges[i], r)
  <2>1. new = Append(edges, r)
    BY <1>1, <1>6 DEF EdgeStep, AppendEdge, capacity
  <2>2. /\ new \in Seq(R) /\ Len(new) = Len(edges) + 1
        /\ DOMAIN new = DOMAIN edges \cup {Len(edges) + 1}
        /\ new[Len(edges) + 1] = r
        /\ \A i \in DOMAIN edges : new[i] = edges[i]
        /\ Len(edges) + 1 \notin DOMAIN edges
    BY <1>1, <2>1, Appended
  <2> HIDE DEF new
  <2>3. Len(new) <= capacity
    BY <1>1, <1>6, <2>2
  <2>4. ASSUME NEW i \in DOMAIN new, NEW j \in DOMAIN new, i # j
        PROVE  ~Matches(new[i], new[j])
    <3>1. CASE i \in DOMAIN edges /\ j \in DOMAIN edges
      BY <2>2, <2>4, <3>1 DEF DrawnRight
    <3>2. CASE i = Len(edges) + 1 /\ j \in DOMAIN edges
      BY <1>6, <2>2, <3>2, MatchesIsEquivalence
    <3>3. CASE i \in DOMAIN edges /\ j = Len(edges) + 1
      BY <1>6, <2>2, <3>3
    <3>4. QED
      BY <2>2, <2>4, <3>1, <3>2, <3>3
  <2>5. ASSUME NEW j \in DOMAIN new
        PROVE  \E i \in 1..(n + 1) :
                 /\ new[j] = reports[i]
                 /\ \A h \in 1..(i - 1) : ~Matches(reports[h], reports[i])
    <3>1. CASE j \in DOMAIN edges
      BY <1>2, <2>2, <3>1 DEF DrawnRight
    <3>2. CASE j = Len(edges) + 1
      <4>1. ASSUME NEW h \in 1..n PROVE ~Matches(reports[h], r)
        <5>1. PICK i \in DOMAIN edges : Matches(edges[i], reports[h])
          BY <1>6 DEF DrawnRight, capacity
        <5>2. QED
          BY <1>6, <5>1, MatchesIsEquivalence
      <4>2. (n + 1) - 1 = n
        BY <1>1
      <4>3. QED
        BY <1>2, <2>2, <3>2, <4>1, <4>2 DEF r
    <3>3. QED
      BY <2>2, <3>1, <3>2
  <2>6. ASSUME NEW i \in 1..(n + 1)
        PROVE  \E j \in DOMAIN new : Matches(new[j], reports[i])
    <3>1. CASE i \in 1..n
      <4>1. PICK j \in DOMAIN edges : Matches(edges[j], reports[i])
        BY <1>6, <3>1 DEF DrawnRight, capacity
      <4>2. QED
        BY <2>2, <4>1
    <3>2. CASE i = n + 1
      BY <2>2, <3>2, MatchesIsEquivalence DEF r
    <3>3. QED
      BY <1>3, <3>1, <3>2
  <2>7. DrawnRight(new, reports, n + 1)
    BY <2>3, <2>4, <2>5, <2>6 DEF DrawnRight, capacity
  <2>8. QED
    BY <2>2, <2>7 DEF new, r
<1>7. QED
  BY <1>1, <1>4, <1>5, <1>6

(***************************************************************************)
(* Whatever the devices report, of however many: the array of edges never   *)
(* overflows, no cable is in it twice, each edge is a cable as it was       *)
(* reported first, and unless the array is full each report has its cable   *)
(* among the edges (main.c:160-187, 277).                                   *)
(***************************************************************************)
THEOREM CablesDrawnOnce ==
  ASSUME DeviceCount \in Nat, NEW R, NEW reports \in Seq(R)
  PROVE  /\ Edges(reports, DeviceCount) \in Seq(R)
         /\ DrawnRight(Edges(reports, DeviceCount), reports, Len(reports))
<1>1. Edges(reports, DeviceCount) = EdgeLoop!Folded(reports)
  BY DEF Edges, EdgeStep, EdgeLoop!Folded, EdgeLoop!FoldedFrom, FoldLeft,
         EdgeLoop!FoldLeft,
         MapThenFoldSet, EdgeLoop!MapThenFoldSet, Max, EdgeLoop!Max
<1>2. PICK state :
        /\ state[0] = <<>>
        /\ \A k \in 0..(Len(reports) - 1) :
             state[k + 1] = EdgeStep(state[k], reports[k + 1])
        /\ EdgeLoop!Folded(reports) = state[Len(reports)]
  BY EdgeLoop!FoldSteps
<1> DEFINE S == {k \in 0..Len(reports) :
                   state[k] \in Seq(R) /\ DrawnRight(state[k], reports, k)}
<1>3. 0 \in S
  <2>1. <<>> \in Seq(R) /\ Len(<<>>) = 0 /\ DOMAIN <<>> = {} /\ 1..0 = {}
    OBVIOUS
  <2>2. EdgeCapacity(DeviceCount) \in Nat
    BY DEF EdgeCapacity
  <2>3. DrawnRight(<<>>, reports, 0)
    BY <2>1, <2>2 DEF DrawnRight
  <2>4. 0 \in 0..Len(reports)
    OBVIOUS
  <2>5. state[0] \in Seq(R) /\ DrawnRight(state[0], reports, 0)
    BY <1>2, <2>1, <2>3
  <2>6. QED
    BY <2>4, <2>5
<1>4. ASSUME NEW k \in 0..(Len(reports) - 1), k \in S PROVE k + 1 \in S
  BY <1>2, <1>4, EdgeAppended
<1> HIDE DEF S
<1>5. Len(reports) \in Nat
  OBVIOUS
<1>6. Len(reports) \in S
  BY <1>3, <1>4, <1>5, EdgeLoop!Induction
<1>7. QED
  BY <1>1, <1>2, <1>6 DEF S

-----------------------------------------------------------------------------
(* The nodes.                                                              *)

\* The nodes that the reports can make.
NodesOf(R) == {[label |-> r.leftLabel, mac |-> r.leftMac] : r \in R}
                \cup {[label |-> r.rightLabel, mac |-> r.rightMac] : r \in R}

\* The nodes stand for different devices, and no place is beyond the array.
Distinct(nodes) ==
  /\ Len(nodes) <= NodeCapacity(DeviceCount)
  /\ \A i, j \in DOMAIN nodes : i # j => nodes[i].mac # nodes[j].mac

HasNode(nodes, mac) == \E i \in DOMAIN nodes : nodes[i].mac = mac

LEMMA NodeIndexIs ==
  ASSUME NEW N, NEW nodes \in Seq(N), NEW mac
  PROVE  \/ NodeIndex(nodes, mac) = 0 /\ ~HasNode(nodes, mac)
         \/ /\ NodeIndex(nodes, mac) \in DOMAIN nodes
            /\ nodes[NodeIndex(nodes, mac)].mac = mac
            /\ HasNode(nodes, mac) /\ NodeIndex(nodes, mac) # 0
<1> DEFINE S == {i \in DOMAIN nodes : nodes[i].mac = mac}
<1>1. DOMAIN nodes = 1..Len(nodes) /\ S \subseteq Nat /\ 0 \notin S
  OBVIOUS
<1>2. S = {} <=> ~HasNode(nodes, mac)
  BY DEF HasNode
<1>3. NodeIndex(nodes, mac) = FirstOf(S)
  BY DEF NodeIndex
<1>4. CASE S = {}
  BY <1>1, <1>2, <1>3, <1>4, FirstOfIs
<1>5. CASE S # {}
  <2>1. FirstOf(S) \in S
    BY <1>1, <1>5, FirstOfIs
  <2>2. QED
    BY <1>1, <1>2, <1>3, <1>5, <2>1
<1>6. QED
  BY <1>4, <1>5

\* Nothing is lost, and the device has a node unless there is no room.
GrownFor(N, mac, nodes, new) ==
  /\ new \in Seq(N) /\ Distinct(new)
  /\ Len(nodes) <= Len(new)
  /\ \A i \in DOMAIN nodes : i \in DOMAIN new /\ new[i] = nodes[i]
  /\ Len(new) < NodeCapacity(DeviceCount) => HasNode(new, mac)

LEMMA NodeAppended ==
  ASSUME NEW N, NEW nodes \in Seq(N), NEW label, NEW mac,
         [label |-> label, mac |-> mac] \in N,
         DeviceCount \in Nat, Distinct(nodes)
  PROVE  GrownFor(N, mac, nodes,
                  AppendNode(nodes, label, mac, NodeCapacity(DeviceCount)))
<1> DEFINE capacity == NodeCapacity(DeviceCount)
           node == [label |-> label, mac |-> mac]
           new == AppendNode(nodes, label, mac, capacity)
<1>1. capacity \in Nat /\ Len(nodes) \in Nat
  BY DEF NodeCapacity
<1>2. NodeIndex(nodes, mac) # 0 <=> HasNode(nodes, mac)
  BY NodeIndexIs
<1>3. node.mac = mac /\ node \in N
  OBVIOUS
<1> HIDE DEF capacity, node
<1>4. CASE HasNode(nodes, mac)
  <2>1. new = nodes
    BY <1>2, <1>4 DEF AppendNode
  <2>2. QED
    BY <1>1, <1>4, <2>1 DEF GrownFor, capacity
<1>5. CASE ~HasNode(nodes, mac) /\ Len(nodes) >= capacity
  <2>1. new = nodes
    BY <1>2, <1>5 DEF AppendNode, capacity
  <2>2. QED
    BY <1>1, <1>5, <2>1 DEF GrownFor, capacity
<1>6. CASE ~HasNode(nodes, mac) /\ Len(nodes) < capacity
  <2>1. new = Append(nodes, node)
    BY <1>1, <1>2, <1>6 DEF AppendNode, capacity, node
  <2>2. /\ new \in Seq(N) /\ Len(new) = Len(nodes) + 1
        /\ DOMAIN new = DOMAIN nodes \cup {Len(nodes) + 1}
        /\ new[Len(nodes) + 1] = node
        /\ \A i \in DOMAIN nodes : new[i] = nodes[i]
    BY <1>3, <2>1, Appended
  <2>3. \A i \in DOMAIN nodes : nodes[i].mac # node.mac
    BY <1>3, <1>6 DEF HasNode
  <2>4. \A i, j \in DOMAIN new : i # j => new[i].mac # new[j].mac
    BY <2>2, <2>3 DEF Distinct
  <2>5. Len(new) <= capacity
    BY <1>1, <1>6, <2>2
  <2>6. HasNode(new, mac)
    BY <1>3, <2>2 DEF HasNode
  <2>7. QED
    BY <1>1, <2>2, <2>4, <2>5, <2>6 DEF GrownFor, Distinct, capacity
<1>7. QED
  BY <1>1, <1>4, <1>5, <1>6

\* The nodes after the first n reports.
PlacedRight(nodes, reports, n) ==
  /\ Distinct(nodes)
  /\ Len(nodes) < NodeCapacity(DeviceCount) =>
       \A i \in 1..n : /\ HasNode(nodes, reports[i].leftMac)
                       /\ HasNode(nodes, reports[i].rightMac)

LEMMA NodesAppended ==
  ASSUME DeviceCount \in Nat, NEW R, NEW reports \in Seq(R),
         NEW n \in 0..(Len(reports) - 1), NEW nodes \in Seq(NodesOf(R)),
         PlacedRight(nodes, reports, n)
  PROVE  /\ NodeStep(nodes, reports[n + 1]) \in Seq(NodesOf(R))
         /\ PlacedRight(NodeStep(nodes, reports[n + 1]), reports, n + 1)
<1> DEFINE r == reports[n + 1]
           capacity == NodeCapacity(DeviceCount)
           left == AppendNode(nodes, r.leftLabel, r.leftMac, capacity)
           both == AppendNode(left, r.rightLabel, r.rightMac, capacity)
<1>1. r \in R /\ n \in Nat
  OBVIOUS
<1>2. /\ [label |-> r.leftLabel, mac |-> r.leftMac] \in NodesOf(R)
      /\ [label |-> r.rightLabel, mac |-> r.rightMac] \in NodesOf(R)
  BY <1>1 DEF NodesOf
<1>3. NodeStep(nodes, r) = both
  BY DEF NodeStep
<1> HIDE DEF r
<1>4. GrownFor(NodesOf(R), r.leftMac, nodes, left)
  BY <1>2, NodeAppended DEF PlacedRight
<1> HIDE DEF left
<1>5. GrownFor(NodesOf(R), r.rightMac, left, both)
  BY <1>2, <1>4, NodeAppended DEF GrownFor
<1> HIDE DEF both
<1>6. \A mac : HasNode(nodes, mac) => HasNode(left, mac)
  BY <1>4 DEF GrownFor, HasNode
<1>7. \A mac : HasNode(left, mac) => HasNode(both, mac)
  BY <1>5 DEF GrownFor, HasNode
<1>8. ASSUME Len(both) < capacity, NEW i \in 1..(n + 1)
      PROVE  HasNode(both, reports[i].leftMac) /\ HasNode(both, reports[i].rightMac)
  <2>1. capacity \in Nat /\ Len(nodes) \in Nat /\ Len(left) \in Nat
          /\ Len(both) \in Nat
    BY <1>4, <1>5 DEF GrownFor, NodeCapacity
  <2>2. Len(left) < capacity /\ Len(nodes) < capacity
    BY <1>4, <1>5, <1>8, <2>1 DEF GrownFor
  <2>3. CASE i = n + 1
    BY <1>4, <1>5, <1>7, <1>8, <2>2, <2>3 DEF GrownFor, r
  <2>4. CASE i # n + 1
    <3>1. i \in 1..n
      BY <1>1, <2>4
    <3>2. HasNode(nodes, reports[i].leftMac) /\ HasNode(nodes, reports[i].rightMac)
      BY <2>2, <3>1 DEF PlacedRight
    <3>3. QED
      BY <1>6, <1>7, <3>2
  <2>5. QED
    BY <2>3, <2>4
<1>9. PlacedRight(both, reports, n + 1)
  BY <1>5, <1>8 DEF GrownFor, PlacedRight
<1>10. QED
  BY <1>3, <1>5, <1>9 DEF GrownFor, r

(***************************************************************************)
(* Whatever the devices report, the array of nodes never overflows, no      *)
(* device has two nodes, every node is the end of a report with the label   *)
(* it has there, and unless the array is full both ends of every report     *)
(* have their node (main.c:189-213, 278-331).                               *)
(***************************************************************************)
THEOREM DevicesPlacedOnce ==
  ASSUME DeviceCount \in Nat, NEW R, NEW reports \in Seq(R)
  PROVE  /\ Nodes(reports, DeviceCount) \in Seq(NodesOf(R))
         /\ PlacedRight(Nodes(reports, DeviceCount), reports, Len(reports))
<1>1. Nodes(reports, DeviceCount) = NodeLoop!Folded(reports)
  BY DEF Nodes, NodeStep, NodeLoop!Folded, NodeLoop!FoldedFrom, FoldLeft,
         NodeLoop!FoldLeft,
         MapThenFoldSet, NodeLoop!MapThenFoldSet, Max, NodeLoop!Max
<1>2. PICK state :
        /\ state[0] = <<>>
        /\ \A k \in 0..(Len(reports) - 1) :
             state[k + 1] = NodeStep(state[k], reports[k + 1])
        /\ NodeLoop!Folded(reports) = state[Len(reports)]
  BY NodeLoop!FoldSteps
<1> DEFINE S == {k \in 0..Len(reports) :
                   /\ state[k] \in Seq(NodesOf(R))
                   /\ PlacedRight(state[k], reports, k)}
<1>3. 0 \in S
  <2>1. /\ <<>> \in Seq(NodesOf(R)) /\ Len(<<>>) = 0 /\ DOMAIN <<>> = {}
        /\ 1..0 = {} /\ 0 \in 0..Len(reports)
    OBVIOUS
  <2>2. NodeCapacity(DeviceCount) \in Nat
    BY DEF NodeCapacity
  <2>3. PlacedRight(<<>>, reports, 0)
    BY <2>1, <2>2 DEF PlacedRight, Distinct
  <2>4. state[0] \in Seq(NodesOf(R)) /\ PlacedRight(state[0], reports, 0)
    BY <1>2, <2>1, <2>3
  <2>5. QED
    BY <2>1, <2>4
<1>4. ASSUME NEW k \in 0..(Len(reports) - 1), k \in S PROVE k + 1 \in S
  BY <1>2, <1>4, NodesAppended
<1> HIDE DEF S
<1>5. Len(reports) \in Nat
  OBVIOUS
<1>6. Len(reports) \in S
  BY <1>3, <1>4, <1>5, NodeLoop!Induction
<1>7. QED
  BY <1>1, <1>2, <1>6 DEF S

-----------------------------------------------------------------------------
(* The chain.                                                              *)

Joins(edge, a, b) ==
  (edge.leftMac = a /\ edge.rightMac = b) \/ (edge.leftMac = b /\ edge.rightMac = a)

\* There is no way on: the device is unknown, or it has no other edge.
Stuck(chain) ==
  \/ chain.at = 0
  \/ \A i \in DOMAIN Drawn :
       (\A j \in DOMAIN chain.printed : chain.printed[j] # i)
         => ~Touches(Drawn[i], Placed[chain.at].mac)

\* The chain after so many rounds: a walk from the start on over different edges.
WalkRight(chain, rounds) ==
  /\ chain.printed \in Seq(DOMAIN Drawn) /\ chain.at \in 0..Len(Placed)
  /\ \A i, j \in DOMAIN chain.printed : i # j => chain.printed[i] # chain.printed[j]
  /\ \E walk :
       /\ walk[1] = Placed[StartIndex(Drawn, Placed)].mac
       /\ \A i \in DOMAIN chain.printed :
            Joins(Drawn[chain.printed[i]], walk[i], walk[i + 1])
       /\ chain.at # 0 => walk[Len(chain.printed) + 1] = Placed[chain.at].mac
       /\ chain.at = 0 /\ StartIndex(Drawn, Placed) # 0 =>
            ~HasNode(Placed, walk[Len(chain.printed) + 1])
  /\ Len(chain.printed) = rounds \/ Stuck(chain)

LEMMA EdgeForNodeIs ==
  ASSUME NEW E, Drawn \in Seq(E), NEW printed, NEW mac,
         NEW visited, visited = {printed[i] : i \in DOMAIN printed}
  PROVE  \/ /\ EdgeForNode(Drawn, visited, mac) = 0
            /\ \A i \in DOMAIN Drawn :
                 (\A j \in DOMAIN printed : printed[j] # i) => ~Touches(Drawn[i], mac)
         \/ /\ EdgeForNode(Drawn, visited, mac) \in DOMAIN Drawn
            /\ EdgeForNode(Drawn, visited, mac) # 0
            /\ \A j \in DOMAIN printed :
                 printed[j] # EdgeForNode(Drawn, visited, mac)
            /\ Touches(Drawn[EdgeForNode(Drawn, visited, mac)], mac)
<1> DEFINE S == {i \in DOMAIN Drawn \ visited : Touches(Drawn[i], mac)}
<1>1. DOMAIN Drawn = 1..Len(Drawn) /\ S \subseteq Nat /\ 0 \notin S
  OBVIOUS
<1>2. EdgeForNode(Drawn, visited, mac) = FirstOf(S)
  BY DEF EdgeForNode
<1>3. CASE S = {}
  <2>1. FirstOf(S) = 0
    BY <1>1, <1>3, FirstOfIs
  <2>2. ASSUME NEW i \in DOMAIN Drawn, \A j \in DOMAIN printed : printed[j] # i
        PROVE  ~Touches(Drawn[i], mac)
    <3>1. i \notin visited
      BY <2>2
    <3>2. QED
      BY <1>3, <3>1
  <2>3. QED
    BY <1>2, <2>1, <2>2
<1>4. CASE S # {}
  <2>1. FirstOf(S) \in S
    BY <1>1, <1>4, FirstOfIs
  <2>2. \A j \in DOMAIN printed : printed[j] \in visited
    OBVIOUS
  <2>3. FirstOf(S) # 0 /\ FirstOf(S) \in DOMAIN Drawn /\ FirstOf(S) \notin visited
          /\ Touches(Drawn[FirstOf(S)], mac)
    BY <1>1, <2>1
  <2>4. QED
    BY <1>2, <2>2, <2>3
<1>5. QED
  BY <1>3, <1>4

LEMMA ChainPrinted ==
  ASSUME NEW E, Drawn \in Seq(E), NEW N, Placed \in Seq(N),
         NEW rounds \in Nat, NEW chain, WalkRight(chain, rounds), NEW round
  PROVE  WalkRight(PrintStep(chain, round), rounds + 1)
<1> DEFINE mac == Placed[chain.at].mac
           visited == {chain.printed[i] : i \in DOMAIN chain.printed}
           edge == EdgeForNode(Drawn, visited, mac)
           end == OtherEnd(Drawn[edge], mac)
           new == PrintStep(chain, round)
<1>1. /\ chain.printed \in Seq(DOMAIN Drawn) /\ chain.at \in 0..Len(Placed)
      /\ Len(chain.printed) \in Nat
      /\ DOMAIN chain.printed = 1..Len(chain.printed)
  BY DEF WalkRight
<1>2. new = IF chain.at = 0 THEN chain
            ELSE IF edge = 0 THEN chain
            ELSE [printed |-> Append(chain.printed, edge),
                  at |-> NodeIndex(Placed, end)]
  BY DEF PrintStep, ChainStep
<1>3. \/ /\ edge = 0
         /\ \A i \in DOMAIN Drawn :
              (\A j \in DOMAIN chain.printed : chain.printed[j] # i)
                => ~Touches(Drawn[i], mac)
      \/ /\ edge \in DOMAIN Drawn /\ edge # 0
         /\ \A j \in DOMAIN chain.printed : chain.printed[j] # edge
         /\ Touches(Drawn[edge], mac)
  BY EdgeForNodeIs
<1> HIDE DEF new, edge, visited
<1>4. CASE chain.at = 0 \/ edge = 0
  <2>1. new = chain
    BY <1>2, <1>4
  <2>2. Stuck(chain)
    BY <1>3, <1>4 DEF Stuck
  <2>3. WalkRight(chain, rounds + 1)
    BY <2>2 DEF WalkRight
  <2>4. QED
    BY <2>1, <2>3 DEF new
<1>5. CASE chain.at # 0 /\ edge # 0
  <2>1. /\ edge \in DOMAIN Drawn
        /\ \A j \in DOMAIN chain.printed : chain.printed[j] # edge
        /\ Touches(Drawn[edge], mac)
    BY <1>3, <1>5
  <2>2. new = [printed |-> Append(chain.printed, edge), at |-> NodeIndex(Placed, end)]
    BY <1>2, <1>5
  <2>3. new.printed = Append(chain.printed, edge) /\ new.at = NodeIndex(Placed, end)
    BY <2>2
  <2>4. /\ new.printed \in Seq(DOMAIN Drawn)
        /\ Len(new.printed) = Len(chain.printed) + 1
        /\ DOMAIN new.printed = DOMAIN chain.printed \cup {Len(chain.printed) + 1}
        /\ new.printed[Len(chain.printed) + 1] = edge
        /\ \A i \in DOMAIN chain.printed : new.printed[i] = chain.printed[i]
    <3> DEFINE longer == Append(chain.printed, edge)
    <3>1. /\ longer \in Seq(DOMAIN Drawn)
          /\ Len(longer) = Len(chain.printed) + 1
          /\ DOMAIN longer = DOMAIN chain.printed \cup {Len(chain.printed) + 1}
          /\ longer[Len(chain.printed) + 1] = edge
          /\ \A i \in DOMAIN chain.printed : longer[i] = chain.printed[i]
      <4> DEFINE printed == chain.printed
                 lines == DOMAIN Drawn
      <4>1. printed \in Seq(lines) /\ edge \in lines
        BY <1>1, <2>1
      <4> HIDE DEF printed, lines
      <4>2. /\ Append(printed, edge) \in Seq(lines)
            /\ Len(Append(printed, edge)) = Len(printed) + 1
            /\ DOMAIN Append(printed, edge) = DOMAIN printed \cup {Len(printed) + 1}
            /\ Append(printed, edge)[Len(printed) + 1] = edge
            /\ \A i \in DOMAIN printed : Append(printed, edge)[i] = printed[i]
        BY <4>1, Appended
      <4>3. QED
        BY <4>2 DEF printed, lines
    <3>2. new.printed = longer
      BY <2>3
    <3> HIDE DEF longer
    <3>3. QED
      BY <3>1, <3>2
  <2>5. /\ new.at \in 0..Len(Placed)
        /\ new.at # 0 => Placed[new.at].mac = end
        /\ new.at = 0 => ~HasNode(Placed, end)
    <3>1. DOMAIN Placed = 1..Len(Placed) /\ Len(Placed) \in Nat
      OBVIOUS
    <3>2. QED
      BY <2>3, <3>1, NodeIndexIs
  <2>6. Joins(Drawn[edge], mac, end)
    BY <2>1 DEF Joins, OtherEnd, Touches
  <2> HIDE DEF end, mac
  <2>7. \A i, j \in DOMAIN new.printed : i # j => new.printed[i] # new.printed[j]
    <3>1. \A i, j \in DOMAIN chain.printed :
            i # j => chain.printed[i] # chain.printed[j]
      BY DEF WalkRight
    <3>2. \A i \in DOMAIN new.printed :
            \/ i \in DOMAIN chain.printed /\ new.printed[i] = chain.printed[i]
                 /\ new.printed[i] # edge
            \/ i = Len(chain.printed) + 1 /\ new.printed[i] = edge
      BY <2>1, <2>4
    <3>3. QED
      BY <3>1, <3>2
  <2>8. PICK walk :
          /\ walk[1] = Placed[StartIndex(Drawn, Placed)].mac
          /\ \A i \in DOMAIN chain.printed :
               Joins(Drawn[chain.printed[i]], walk[i], walk[i + 1])
          /\ chain.at # 0 => walk[Len(chain.printed) + 1] = Placed[chain.at].mac
    BY DEF WalkRight
  <2> DEFINE n == Len(chain.printed)
             further == [i \in 1..(n + 2) |-> IF i = n + 2 THEN end ELSE walk[i]]
  <2>9. /\ further[n + 2] = end
        /\ \A i \in 1..(n + 1) : further[i] = walk[i]
    BY <1>1
  <2> HIDE DEF further
  <2>10. further[1] = Placed[StartIndex(Drawn, Placed)].mac
    <3>1. 1 \in 1..(n + 1)
      BY <1>1
    <3>2. QED
      BY <2>8, <2>9, <3>1
  <2>11. ASSUME NEW i \in DOMAIN new.printed
         PROVE  Joins(Drawn[new.printed[i]], further[i], further[i + 1])
    <3>1. CASE i \in DOMAIN chain.printed
      <4>1. i \in 1..(n + 1) /\ i + 1 \in 1..(n + 1)
        <5>1. i \in 1..n /\ n \in Nat
          BY <1>1, <3>1
        <5> HIDE DEF n
        <5>2. QED
          BY <5>1
      <4>2. QED
        BY <2>4, <2>8, <2>9, <3>1, <4>1
    <3>2. CASE i = n + 1
      <4>1. n + 1 \in 1..(n + 1) /\ (n + 1) + 1 = n + 2
        BY <1>1
      <4>2. further[n + 1] = mac
        BY <1>5, <2>8, <2>9, <4>1 DEF mac
      <4>3. QED
        BY <2>4, <2>6, <2>9, <3>2, <4>1, <4>2
    <3>3. QED
      BY <2>4, <3>1, <3>2
  <2>12. /\ new.at # 0 => further[Len(new.printed) + 1] = Placed[new.at].mac
         /\ new.at = 0 => ~HasNode(Placed, further[Len(new.printed) + 1])
    <3>1. Len(new.printed) + 1 = n + 2
      BY <1>1, <2>4
    <3>2. QED
      BY <2>5, <2>9, <3>1
  <2>13. Len(new.printed) = rounds + 1 \/ Stuck(new)
    <3>1. ~Stuck(chain)
      BY <1>5, <2>1 DEF Stuck, mac
    <3>2. QED
      BY <2>4, <3>1 DEF WalkRight
  <2>14. WalkRight(new, rounds + 1)
    BY <2>4, <2>5, <2>7, <2>10, <2>11, <2>12, <2>13 DEF WalkRight
  <2>15. QED
    BY <2>14 DEF new
<1>6. QED
  BY <1>4, <1>5

(***************************************************************************)
(* Whatever the edges and the nodes are, the chain that is printed is one   *)
(* walk from the first device with one edge on, that takes no edge twice,   *)
(* and it ends only when all edges are printed, when the device reached has *)
(* no node, or when it has no further edge: no round is wasted and none is  *)
(* missing (main.c:367-417).                                                *)
(***************************************************************************)
THEOREM ChainIsWalk ==
  ASSUME NEW E, Drawn \in Seq(E), NEW N, Placed \in Seq(N)
  PROVE  WalkRight(Chain(Drawn, Placed), Len(Drawn))
<1>1. Chain(Drawn, Placed) = PrintLoop!Folded(Drawn)
  BY DEF Chain, PrintStep, StartOfChain, PrintLoop!Folded, PrintLoop!FoldedFrom, FoldLeft,
         PrintLoop!FoldLeft, MapThenFoldSet, PrintLoop!MapThenFoldSet, Max,
         PrintLoop!Max
<1>2. PICK state :
        /\ state[0] = StartOfChain
        /\ \A k \in 0..(Len(Drawn) - 1) :
             state[k + 1] = PrintStep(state[k], Drawn[k + 1])
        /\ PrintLoop!Folded(Drawn) = state[Len(Drawn)]
  BY PrintLoop!FoldSteps
<1> DEFINE S == {k \in 0..Len(Drawn) : WalkRight(state[k], k)}
<1>3. 0 \in S
  <2> DEFINE start == StartIndex(Drawn, Placed)
             walk == [i \in 1..1 |-> Placed[start].mac]
  <2>1. start \in 0..Len(Placed)
    <3>1. DOMAIN Placed = 1..Len(Placed) /\ Len(Placed) \in Nat
      OBVIOUS
    <3>2. QED
      BY <3>1, FirstOfIs DEF StartIndex
  <2>2. /\ StartOfChain.printed = <<>> /\ StartOfChain.at = start
        /\ <<>> \in Seq(DOMAIN Drawn) /\ DOMAIN <<>> = {} /\ Len(<<>>) = 0
    BY DEF StartOfChain
  <2>3. walk[1] = Placed[start].mac
    OBVIOUS
  <2> HIDE DEF walk, start
  <2>4. WalkRight(StartOfChain, 0)
    BY <2>1, <2>2, <2>3 DEF WalkRight, start
  <2>5. 0 \in 0..Len(Drawn)
    OBVIOUS
  <2>6. QED
    BY <1>2, <2>4, <2>5
<1>4. ASSUME NEW k \in 0..(Len(Drawn) - 1), k \in S PROVE k + 1 \in S
  BY <1>2, <1>4, ChainPrinted
<1> HIDE DEF S
<1>5. Len(Drawn) \in Nat
  OBVIOUS
<1>6. Len(Drawn) \in S
  BY <1>3, <1>4, <1>5, PrintLoop!Induction
<1>7. QED
  BY <1>1, <1>2, <1>6 DEF S

-----------------------------------------------------------------------------
(* Lines.                                                                  *)

\* The edges are the steps of a walk over all nodes.
IsPath(walk, n) ==
  /\ n \in Nat /\ n > 1 /\ Len(Placed) = n /\ Len(Drawn) = n - 1
  /\ \A i, j \in 1..n : walk[i] = walk[j] => i = j
  /\ \A i \in 1..n : HasNode(Placed, walk[i])
  /\ \A i \in DOMAIN Placed : \E j \in 1..n : Placed[i].mac = walk[j]
  /\ \A e \in DOMAIN Drawn : \E i \in 1..(n - 1) : Joins(Drawn[e], walk[i], walk[i + 1])
  /\ \A i \in 1..(n - 1) : \E e \in DOMAIN Drawn : Joins(Drawn[e], walk[i], walk[i + 1])

\* Which step of the walk an edge is.
AreSteps(step, walk, n) ==
  /\ step \in [DOMAIN Drawn -> 1..(n - 1)]
  /\ \A e \in DOMAIN Drawn : Joins(Drawn[e], walk[step[e]], walk[step[e] + 1])
  /\ \A i \in 1..(n - 1) : \E e \in DOMAIN Drawn : step[e] = i
  /\ \A e, f \in DOMAIN Drawn : step[e] = step[f] => e = f

\* Each step has one edge.
LEMMA PathSteps ==
  ASSUME NEW E, Drawn \in Seq(E), NEW walk, NEW n, IsPath(walk, n)
  PROVE  \E step : AreSteps(step, walk, n)
<1>1. /\ n \in Nat /\ n > 1 /\ Len(Drawn) = n - 1 /\ DOMAIN Drawn = 1..(n - 1)
      /\ \A i, j \in 1..n : walk[i] = walk[j] => i = j
      /\ \A e \in DOMAIN Drawn : \E i \in 1..(n - 1) :
           Joins(Drawn[e], walk[i], walk[i + 1])
      /\ \A i \in 1..(n - 1) : \E e \in DOMAIN Drawn :
           Joins(Drawn[e], walk[i], walk[i + 1])
  BY DEF IsPath
<1> DEFINE at(e) == CHOOSE i \in 1..(n - 1) : Joins(Drawn[e], walk[i], walk[i + 1])
           step == [e \in DOMAIN Drawn |-> at(e)]
<1>2. \A e \in DOMAIN Drawn : at(e) \in 1..(n - 1)
                              /\ Joins(Drawn[e], walk[at(e)], walk[at(e) + 1])
  BY <1>1
<1>3. step \in [DOMAIN Drawn -> 1..(n - 1)] /\ \A e \in DOMAIN Drawn : step[e] = at(e)
  BY <1>2
<1> HIDE DEF at, step
<1>4. ASSUME NEW edge, NEW i \in 1..(n - 1), NEW j \in 1..(n - 1),
             Joins(edge, walk[i], walk[i + 1]), Joins(edge, walk[j], walk[j + 1])
      PROVE  i = j
  <2>1. /\ i \in 1..n /\ i + 1 \in 1..n /\ j \in 1..n /\ j + 1 \in 1..n
        /\ ~(i = j + 1 /\ i + 1 = j) /\ i \in Nat /\ j \in Nat
    BY <1>1
  <2>2. \/ walk[i] = walk[j] /\ walk[i + 1] = walk[j + 1]
        \/ walk[i] = walk[j + 1] /\ walk[i + 1] = walk[j]
    BY <1>4 DEF Joins
  <2>3. QED
    BY <1>1, <2>1, <2>2
<1>5. \A i \in 1..(n - 1) : \E e \in DOMAIN Drawn : step[e] = i
  <2>1. ASSUME NEW i \in 1..(n - 1) PROVE \E e \in DOMAIN Drawn : step[e] = i
    <3>1. PICK e \in DOMAIN Drawn : Joins(Drawn[e], walk[i], walk[i + 1])
      BY <1>1
    <3>2. at(e) = i
      BY <1>2, <1>4, <3>1
    <3>3. QED
      BY <1>3, <3>2
  <2>2. QED
    BY <2>1
<1>6. \A e, f \in DOMAIN Drawn : step[e] = step[f] => e = f
  <2>1. step \in Surjection(DOMAIN Drawn, 1..(n - 1))
    BY <1>3, <1>5 DEF Surjection
  <2>2. IsFiniteSet(DOMAIN Drawn)
    BY <1>1, FS_Interval
  <2>3. step \in Injection(DOMAIN Drawn, 1..(n - 1))
    BY <1>1, <2>1, <2>2, FS_SurjSameCardinalityImpliesInj
  <2>4. QED
    BY <2>3 DEF Injection, IsInjective
<1>7. AreSteps(step, walk, n)
  BY <1>2, <1>3, <1>5, <1>6 DEF AreSteps
<1>8. QED
  BY <1>7

\* A device has one edge just when it is at an end of the walk.
LEMMA PathEnds ==
  ASSUME NEW E, Drawn \in Seq(E), NEW walk, NEW n, IsPath(walk, n), NEW i \in 1..n
  PROVE  Degree(Drawn, walk[i]) = 1 <=> i = 1 \/ i = n
<1> DEFINE edges == DOMAIN Drawn
           left  == {e \in edges : Drawn[e].leftMac = walk[i]}
           right == {e \in edges : Drawn[e].rightMac = walk[i]}
<1>1. /\ n \in Nat /\ n > 1 /\ Len(Drawn) = n - 1 /\ edges = 1..(n - 1)
      /\ \A a, b \in 1..n : walk[a] = walk[b] => a = b
  <2>1. DOMAIN Drawn = 1..Len(Drawn)
    OBVIOUS
  <2>2. QED
    BY <2>1 DEF IsPath
<1> PICK step : AreSteps(step, walk, n)
  BY PathSteps
<1>2. /\ step \in [edges -> 1..(n - 1)]
      /\ \A e \in edges : Joins(Drawn[e], walk[step[e]], walk[step[e] + 1])
      /\ \A j \in 1..(n - 1) : \E e \in edges : step[e] = j
      /\ \A e, f \in edges : step[e] = step[f] => e = f
  BY DEF AreSteps
<1>3. IsFiniteSet(edges)
  BY <1>1, FS_Interval
<1>4. Degree(Drawn, walk[i]) = Cardinality(left) + Cardinality(right)
  BY DEF Degree
<1> HIDE DEF edges
<1>5. ASSUME NEW e \in edges
      PROVE  /\ e \in left \/ e \in right <=> i = step[e] \/ i = step[e] + 1
             /\ ~(e \in left /\ e \in right)
  <2> DEFINE s == step[e]
  <2>1. s \in 1..(n - 1) /\ Joins(Drawn[e], walk[s], walk[s + 1])
    BY <1>2
  <2> HIDE DEF s
  <2>2. s \in 1..n /\ s + 1 \in 1..n /\ s # s + 1
    BY <1>1, <2>1
  <2>3. \A j \in 1..n : walk[j] = walk[i] <=> j = i
    BY <1>1
  <2>4. walk[s] # walk[s + 1]
    BY <1>1, <2>2
  <2>5. QED
    BY <2>1, <2>2, <2>3, <2>4 DEF Joins, s
<1>6. \A e \in edges : e \in left \cup right <=> i = step[e] \/ i = step[e] + 1
  BY <1>5
<1>7. left \cap right = {}
  BY <1>5
<1>8. left \cup right \subseteq edges
  OBVIOUS
<1> DEFINE all == left \cup right
<1>9. IsFiniteSet(all) /\ Cardinality(all) = Cardinality(left) + Cardinality(right)
  <2>1. IsFiniteSet(left) /\ IsFiniteSet(right)
    BY <1>3, <1>8, FS_Subset
  <2> HIDE DEF left, right
  <2>2. Cardinality(left) \in Nat /\ Cardinality(right) \in Nat
    BY <2>1, FS_CardinalityType
  <2>3. /\ IsFiniteSet(left \cup right)
        /\ Cardinality(left \cup right)
             = Cardinality(left) + Cardinality(right) - Cardinality(left \cap right)
    BY <2>1, FS_Union
  <2>4. Cardinality(left \cap right) = 0
    BY <1>7, FS_EmptySet
  <2>5. QED
    BY <2>2, <2>3, <2>4
<1> HIDE DEF left, right, all
<1>10. Cardinality(all) = 1 <=> \E x : all = {x}
  BY <1>9, FS_Singleton
<1>11. \A e \in edges : e \in all <=> i = step[e] \/ i = step[e] + 1
  BY <1>6 DEF all
<1>12. all \subseteq edges
  BY <1>8 DEF all
<1>13. CASE i = 1 \/ i = n
  <2> DEFINE only == IF i = 1 THEN 1 ELSE n - 1
  <2>1. /\ only \in 1..(n - 1)
        /\ \A j \in 1..(n - 1) : i = j \/ i = j + 1 <=> j = only
    BY <1>1, <1>13
  <2> HIDE DEF only
  <2>2. PICK e \in edges : step[e] = only
    BY <1>2, <2>1
  <2>3. \A f \in edges : f \in all <=> step[f] = only
    BY <1>2, <1>11, <2>1
  <2>4. all = {e}
    BY <1>2, <1>12, <2>2, <2>3
  <2>5. QED
    BY <1>4, <1>9, <1>10, <1>13, <2>4
<1>14. CASE ~(i = 1 \/ i = n)
  <2>1. i - 1 \in 1..(n - 1) /\ i \in 1..(n - 1) /\ i # i - 1 /\ i = (i - 1) + 1
    BY <1>1, <1>14
  <2>2. PICK e \in edges : step[e] = i - 1
    BY <1>2, <2>1
  <2>3. PICK f \in edges : step[f] = i
    BY <1>2, <2>1
  <2>4. e \in all /\ f \in all /\ e # f
    BY <1>11, <2>1, <2>2, <2>3
  <2>5. ~ \E x : all = {x}
    BY <2>4
  <2>6. QED
    BY <1>4, <1>9, <1>10, <1>14, <2>5
<1>15. QED
  BY <1>13, <1>14

\* The chain takes the steps of the walk when it starts where that does.
LEMMA PathIsPrinted ==
  ASSUME NEW E, Drawn \in Seq(E), NEW N, Placed \in Seq(N),
         NEW walk, NEW n, IsPath(walk, n),
         StartIndex(Drawn, Placed) \in DOMAIN Placed,
         Placed[StartIndex(Drawn, Placed)].mac = walk[1]
  PROVE  LET printed == Chain(Drawn, Placed).printed IN
         /\ Len(printed) = Len(Drawn)
         /\ {printed[i] : i \in DOMAIN printed} = DOMAIN Drawn
<1> DEFINE chain == Chain(Drawn, Placed)
           printed == chain.printed
           k == Len(printed)
           edges == DOMAIN Drawn
           start == StartIndex(Drawn, Placed)
<1>1. /\ n \in Nat /\ n > 1 /\ Len(Drawn) = n - 1 /\ edges = 1..(n - 1)
      /\ \A a, b \in 1..n : walk[a] = walk[b] => a = b
      /\ \A i \in 1..n : HasNode(Placed, walk[i])
  <2>1. DOMAIN Drawn = 1..Len(Drawn)
    OBVIOUS
  <2>2. QED
    BY <2>1 DEF IsPath
<1>2. start # 0
  <2>1. DOMAIN Placed = 1..Len(Placed)
    OBVIOUS
  <2> HIDE DEF start
  <2>2. QED
    BY <2>1 DEF start
<1> PICK step : AreSteps(step, walk, n)
  BY PathSteps
<1>3. /\ step \in [edges -> 1..(n - 1)]
      /\ \A e \in edges : Joins(Drawn[e], walk[step[e]], walk[step[e] + 1])
      /\ \A j \in 1..(n - 1) : \E e \in edges : step[e] = j
      /\ \A e, f \in edges : step[e] = step[f] => e = f
  BY DEF AreSteps
<1>4. WalkRight(chain, n - 1)
  BY <1>1, ChainIsWalk
<1> HIDE DEF chain
<1>5. /\ printed \in Seq(edges) /\ k \in Nat /\ DOMAIN printed = 1..k
      /\ \A i \in 1..k : printed[i] \in edges
      /\ \A i, j \in DOMAIN printed : i # j => printed[i] # printed[j]
      /\ k = n - 1 \/ Stuck(chain)
  BY <1>4 DEF WalkRight
<1>6. PICK way :
        /\ way[1] = walk[1]
        /\ \A i \in DOMAIN printed : Joins(Drawn[printed[i]], way[i], way[i + 1])
        /\ chain.at # 0 => way[k + 1] = Placed[chain.at].mac
        /\ chain.at = 0 => ~HasNode(Placed, way[k + 1])
  BY <1>2, <1>4 DEF WalkRight
<1> HIDE DEF printed, k, edges, start
<1> DEFINE S == {j \in 0..k : /\ j <= n - 1 /\ way[j + 1] = walk[j + 1]
                              /\ j > 0 => step[printed[j]] = j}
<1>7. 0 \in S
  <2>1. 0 \in 0..k /\ 0 <= n - 1 /\ 0 + 1 = 1
    BY <1>1, <1>5
  <2>2. QED
    BY <1>6, <2>1
<1>8. ASSUME NEW j \in 0..(k - 1), j \in S PROVE j + 1 \in S
  <2> DEFINE e == printed[j + 1]
             p == step[e]
  <2>1. /\ j \in Nat /\ j <= n - 1 /\ way[j + 1] = walk[j + 1]
        /\ j > 0 => step[printed[j]] = j
    BY <1>8
  <2>2. j + 1 \in 1..k /\ j + 1 \in 0..k /\ (j > 0 => j \in 1..k /\ j # j + 1)
    BY <1>5
  <2>3. e \in edges /\ Joins(Drawn[e], way[j + 1], way[(j + 1) + 1])
    BY <1>5, <1>6, <2>2
  <2>4. p \in 1..(n - 1) /\ Joins(Drawn[e], walk[p], walk[p + 1])
    BY <1>3, <2>3
  <2>6. j > 0 => p # j
    <3>1. j > 0 => e # printed[j] /\ printed[j] \in edges
      BY <1>5, <2>2
    <3>2. QED
      BY <1>3, <2>1, <2>3, <3>1
  <2> HIDE DEF p, e
  <2>5. /\ p \in Nat /\ p \in 1..n /\ p + 1 \in 1..n /\ j + 1 \in 1..n
    BY <1>1, <2>1, <2>4
  <2>7. \/ walk[p] = walk[j + 1] /\ way[(j + 1) + 1] = walk[p + 1]
        \/ walk[p + 1] = walk[j + 1]
    BY <2>1, <2>3, <2>4 DEF Joins
  <2>8. p = j + 1 \/ p + 1 = j + 1
    BY <1>1, <2>5, <2>7
  <2>9. p = j + 1
    BY <2>1, <2>5, <2>6, <2>8, <2>4
  <2>10. walk[p + 1] # walk[j + 1]
    BY <1>1, <2>5, <2>9
  <2>11. way[(j + 1) + 1] = walk[(j + 1) + 1]
    BY <2>7, <2>9, <2>10
  <2>12. j + 1 <= n - 1
    BY <1>1, <2>4, <2>9
  <2>13. step[printed[j + 1]] = j + 1
    BY <2>9 DEF p, e
  <2>14. QED
    BY <2>2, <2>11, <2>12, <2>13
<1>9. \A j \in 0..k : j \in S
  <2>1. ASSUME NEW j \in 0..k PROVE j \in S
    <3>1. \A h \in 0..(j - 1) : h \in S => h + 1 \in S
      <4>1. ASSUME NEW h \in 0..(j - 1) PROVE h \in 0..(k - 1)
        BY <1>5
      <4> HIDE DEF S
      <4>2. QED
        BY <1>8, <4>1
    <3>2. j \in Nat
      BY <1>5
    <3> HIDE DEF S
    <3>3. QED
      BY <1>7, <3>1, <3>2, PrintLoop!Induction
  <2>2. QED
    BY <2>1
<1>10. k <= n - 1 /\ way[k + 1] = walk[k + 1]
  BY <1>5, <1>9
<1>11. \A j \in 1..k : step[printed[j]] = j
  <2>1. \A j \in 1..k : j \in 0..k /\ j > 0
    BY <1>5
  <2>2. QED
    BY <1>9, <2>1
<1> HIDE DEF S
<1>12. k = n - 1
  <2>1. SUFFICES ASSUME k # n - 1 PROVE FALSE
    OBVIOUS
  <2>2. k + 1 \in 1..(n - 1) /\ k + 1 \in 1..n /\ Stuck(chain)
    BY <1>1, <1>5, <1>10, <2>1
  <2>3. chain.at # 0 /\ Placed[chain.at].mac = walk[k + 1]
    BY <1>1, <1>6, <1>10, <2>2
  <2>4. PICK e \in edges : step[e] = k + 1
    BY <1>3, <2>2
  <2>5. Touches(Drawn[e], walk[k + 1])
    BY <1>3, <2>4 DEF Joins, Touches
  <2>6. \A j \in DOMAIN printed : printed[j] # e
    <3>1. \A j \in 1..k : j # k + 1
      BY <1>5
    <3>2. QED
      BY <1>5, <1>11, <2>4, <3>1
  <2>7. QED
    BY <2>2, <2>3, <2>5, <2>6 DEF Stuck, edges, printed
<1>13. ASSUME NEW e \in edges PROVE e \in {printed[i] : i \in DOMAIN printed}
  <2>1. step[e] \in 1..k
    BY <1>3, <1>12
  <2>2. step[printed[step[e]]] = step[e] /\ printed[step[e]] \in edges
    BY <1>5, <1>11, <2>1
  <2>3. printed[step[e]] = e
    BY <1>3, <2>2
  <2>4. QED
    BY <1>5, <2>1, <2>3
<1>14. {printed[i] : i \in DOMAIN printed} = edges
  BY <1>5, <1>13
<1>15. QED
  BY <1>1, <1>12, <1>14 DEF printed, k, edges, chain

LEMMA PathBackwards ==
  ASSUME NEW walk, NEW n, IsPath(walk, n)
  PROVE  IsPath([i \in 1..n |-> walk[n + 1 - i]], n)
<1> DEFINE back == [i \in 1..n |-> walk[n + 1 - i]]
<1>1. n \in Nat /\ n > 1 /\ Len(Placed) = n /\ Len(Drawn) = n - 1
  BY DEF IsPath
<1>2. \A i \in 1..n : back[i] = walk[n + 1 - i] /\ n + 1 - i \in 1..n
                      /\ n + 1 - (n + 1 - i) = i
  BY <1>1
<1>3. \A i \in 1..(n - 1) : /\ n - i \in 1..(n - 1) /\ back[i] = walk[(n - i) + 1]
                            /\ back[i + 1] = walk[n - i] /\ n - (n - i) = i
  <2>1. ASSUME NEW i \in 1..(n - 1)
        PROVE  /\ n - i \in 1..(n - 1) /\ i \in 1..n /\ i + 1 \in 1..n
               /\ n + 1 - i = (n - i) + 1 /\ n + 1 - (i + 1) = n - i /\ n - (n - i) = i
    BY <1>1
  <2>2. QED
    BY <1>2, <2>1
<1> HIDE DEF back
<1>4. \A i, j \in 1..n : back[i] = back[j] => i = j
  <2>1. ASSUME NEW i \in 1..n, NEW j \in 1..n, back[i] = back[j] PROVE i = j
    <3> DEFINE a == n + 1 - i
               b == n + 1 - j
    <3>3. a \in 1..n /\ b \in 1..n /\ walk[a] = walk[b]
      BY <1>2, <2>1
    <3> HIDE DEF a, b
    <3>4. a = b
      BY <3>3 DEF IsPath
    <3>1. n + 1 - i = n + 1 - j
      BY <3>4 DEF a, b
    <3>2. QED
      BY <1>1, <3>1
  <2>2. QED
    BY <2>1
<1>5. \A i \in 1..n : HasNode(Placed, back[i])
  BY <1>2 DEF IsPath
<1>6. \A i \in DOMAIN Placed : \E j \in 1..n : Placed[i].mac = back[j]
  <2>1. ASSUME NEW i \in DOMAIN Placed PROVE \E j \in 1..n : Placed[i].mac = back[j]
    <3>1. PICK j \in 1..n : Placed[i].mac = walk[j]
      BY DEF IsPath
    <3>2. back[n + 1 - j] = walk[j] /\ n + 1 - j \in 1..n
      BY <1>2
    <3>3. QED
      BY <3>1, <3>2
  <2>2. QED
    BY <2>1
<1>7. \A edge, a, b : Joins(edge, a, b) <=> Joins(edge, b, a)
  BY DEF Joins
<1>8. \A e \in DOMAIN Drawn : \E i \in 1..(n - 1) : Joins(Drawn[e], back[i], back[i + 1])
  <2>1. ASSUME NEW e \in DOMAIN Drawn
        PROVE  \E i \in 1..(n - 1) : Joins(Drawn[e], back[i], back[i + 1])
    <3>1. PICK i \in 1..(n - 1) : Joins(Drawn[e], walk[i], walk[i + 1])
      BY DEF IsPath
    <3>2. n - i \in 1..(n - 1) /\ back[n - i] = walk[i + 1] /\ back[(n - i) + 1] = walk[i]
      BY <1>3
    <3>3. QED
      BY <1>7, <3>1, <3>2
  <2>2. QED
    BY <2>1
<1>9. \A i \in 1..(n - 1) : \E e \in DOMAIN Drawn : Joins(Drawn[e], back[i], back[i + 1])
  <2>1. ASSUME NEW i \in 1..(n - 1)
        PROVE  \E e \in DOMAIN Drawn : Joins(Drawn[e], back[i], back[i + 1])
    <3>1. PICK e \in DOMAIN Drawn : Joins(Drawn[e], walk[n - i], walk[(n - i) + 1])
      BY <1>3 DEF IsPath
    <3>2. QED
      BY <1>3, <1>7, <3>1
  <2>2. QED
    BY <2>1
<1>10. IsPath(back, n)
  BY <1>1, <1>4, <1>5, <1>6, <1>8, <1>9 DEF IsPath
<1>11. QED
  BY <1>10 DEF back

(***************************************************************************)
(* A line of devices, in whatever order the edges and the nodes stand and   *)
(* whichever end of an edge comes first, is printed as one chain with every *)
(* edge once: the first device with one edge is an end of the line, and the *)
(* walk from there meets no branch (main.c:356-417).                        *)
(***************************************************************************)
THEOREM LineIsPrinted ==
  ASSUME NEW E, Drawn \in Seq(E), NEW N, Placed \in Seq(N),
         NEW walk, NEW n, IsPath(walk, n)
  PROVE  LET printed == Chain(Drawn, Placed).printed IN
         /\ IsChain(Drawn, Placed)
         /\ Len(printed) = Len(Drawn)
         /\ {printed[i] : i \in DOMAIN printed} = DOMAIN Drawn
<1> DEFINE start == StartIndex(Drawn, Placed)
           one == {i \in DOMAIN Placed : Degree(Drawn, Placed[i].mac) = 1}
<1>1. n \in Nat /\ n > 1 /\ 1 \in 1..n /\ n \in 1..n
  BY DEF IsPath
<1>2. PICK first \in DOMAIN Placed : Placed[first].mac = walk[1]
  BY <1>1 DEF IsPath, HasNode
<1>3. first \in one
  <2>1. Degree(Drawn, walk[1]) = 1
    BY <1>1, PathEnds
  <2>2. QED
    BY <1>2, <2>1
<1>4. start = FirstOf(one) /\ one \subseteq Nat /\ 0 \notin one
  <2>1. DOMAIN Placed = 1..Len(Placed)
    OBVIOUS
  <2>2. QED
    BY <2>1 DEF StartIndex
<1> HIDE DEF start
<1>5. start \in one
  <2> HIDE DEF one
  <2>1. QED
    BY <1>3, <1>4, FirstOfIs
<1>6. start \in DOMAIN Placed /\ Degree(Drawn, Placed[start].mac) = 1
  BY <1>5
<1>7. start # 0
  BY <1>4, <1>5
<1>8. PICK i \in 1..n : Placed[start].mac = walk[i]
  BY <1>6 DEF IsPath
<1>9. i = 1 \/ i = n
  <2>1. Degree(Drawn, walk[i]) = 1
    BY <1>6, <1>8
  <2>2. QED
    BY <2>1, PathEnds
<1> DEFINE printed == Chain(Drawn, Placed).printed
<1>10. /\ Len(printed) = Len(Drawn)
       /\ {printed[j] : j \in DOMAIN printed} = DOMAIN Drawn
  <2>1. CASE i = 1
    BY <1>6, <1>8, <2>1, PathIsPrinted DEF start
  <2>2. CASE i = n
    <3> DEFINE back == [j \in 1..n |-> walk[n + 1 - j]]
    <3>1. IsPath(back, n)
      BY PathBackwards
    <3>2. back[1] = walk[n]
      BY <1>1
    <3> HIDE DEF back
    <3>3. QED
      BY <1>6, <1>8, <2>2, <3>1, <3>2, PathIsPrinted DEF start
  <2>3. QED
    BY <1>9, <2>1, <2>2
<1>11. QED
  BY <1>7, <1>10 DEF IsChain, start
=============================================================================
