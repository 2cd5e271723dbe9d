-------------------------- MODULE DeviceListProofs --------------------------
(***************************************************************************)
(* Theorems about DeviceList for every set of devices, every range of       *)
(* targets and both modes; the last ones are that what the nodes say stays  *)
(* with the device that said it, and that the list implements Inventory.    *)
(***************************************************************************)
EXTENDS DeviceList, TLAPS

(***************************************************************************)
(* Type correctness, with what sendPacket_RPC_rem relies on.                *)
(***************************************************************************)
TypeInv == StateOK /\ SendInv /\ PhaseInv

LEMMA StatusType == ASSUME StateOK PROVE Status \in Int /\ Status >= -1
<1>1. CASE list = <<>>
  BY <1>1 DEF Status
<1>2. CASE list # <<>>
  <2>1. list[Len(list)] \in Node
    BY <1>2 DEF StateOK
  <2>2. list[Len(list)].index \in Nat
    BY <2>1 DEF Node
  <2>3. QED
    BY <1>2, <2>2 DEF Status
<1>3. QED
  BY <1>1, <1>2

LEMMA RequestsType == ASSUME StateOK PROVE Requests \in Int /\ Requests >= -1
  BY StatusType, ListAssumption DEF StateOK, Requests

LEMMA NewNodeType ==
  ASSUME NEW a \in Answers, NEW n \in Nat, NEW f \in BOOLEAN,
         NEW ip \in AddressIn(a)
  PROVE  NewNode(a, n, ip, f) \in Node
  BY DEF Answers, NewNode, Node, AddressIn, Handles, Macs, Ips

LEMMA UnsetType == ASSUME NEW f \in BOOLEAN PROVE Unset(f) \in Node
  BY DEF Unset, Node, Handles

LEMMA InitTypeInv == Init => TypeInv
  BY ListAssumption DEF Init, TypeInv, StateOK, SendInv, PhaseInv, LastPhase


\* Filling fields of a node leaves a list of as many nodes.
LEMMA FillType ==
  ASSUME StateOK, NEW i \in DOMAIN list, NEW a \in Answers,
         \/ list' = [list EXCEPT ![i].handle = a.handle]
         \/ list' = [list EXCEPT ![i].about = a.kind, ![i].by = a.from,
                                 ![i].handle = a.handle]
         \/ list' = [list EXCEPT ![i].about = "full", ![i].by = a.from,
                                 ![i].handle = a.handle, ![i].finished = TRUE]
  PROVE  list' \in Seq(Node) /\ Len(list') = Len(list) /\ list' # <<>>
<1>1. list \in Seq(Node) /\ i \in 1..Len(list) /\ list[i] \in Node
  BY DEF StateOK
<1>2. a.handle \in Handles /\ a.kind \in {"identify", "unknown", "full"}
        /\ a.from \in Devices
  BY DEF Answers, Handles
<1> DEFINE one == [list[i] EXCEPT !.handle = a.handle]
           two == [list[i] EXCEPT !.about = a.kind, !.by = a.from,
                                  !.handle = a.handle]
           three == [list[i] EXCEPT !.about = "full", !.by = a.from,
                                    !.handle = a.handle, !.finished = TRUE]
<1>3. one \in Node /\ two \in Node /\ three \in Node
  BY <1>1, <1>2 DEF Node
<1>4. \E node \in Node : list' = [list EXCEPT ![i] = node]
  BY <1>3
<1>5. QED
  BY <1>1, <1>4

\* Adding a node.
LEMMA AppendType ==
  ASSUME StateOK, NEW a \in Answers, Append1(a), NextIndex \in Nat
  PROVE  list' \in Seq(Node) /\ Len(list') = Len(list) + 1 /\ list' # <<>>
<1>1. PICK ip \in AddressIn(a) :
        list' = Append(list, NewNode(a, NextIndex, ip, FALSE))
  BY DEF Append1
<1>2. NewNode(a, NextIndex, ip, FALSE) \in Node
  BY NewNodeType
<1>3. list \in Seq(Node)
  BY DEF StateOK
<1> DEFINE node == NewNode(a, NextIndex, ip, FALSE)
<1> HIDE DEF node
<1>4. list' = Append(list, node) /\ node \in Node
  BY <1>1, <1>2 DEF node
<1>5. list' \in Seq(Node) /\ Len(list') = Len(list) + 1
  BY <1>3, <1>4
<1>6. list' # <<>>
  BY <1>3, <1>5
<1>7. QED
  BY <1>5, <1>6

LEMMA NextIndexType == ASSUME StateOK, list # <<>> PROVE NextIndex \in Nat
<1>1. list[Len(list)] \in Node
  BY DEF StateOK
<1>2. QED
  BY <1>1 DEF NextIndex, Node

\* Creating the first node.
LEMMA PublishType ==
  ASSUME NEW a \in Answers, PublishFirst(a)
  PROVE  list' \in Seq(Node) /\ Len(list') = 1 /\ list' # <<>>
  BY UnsetType DEF PublishFirst

LEMMA FillFirstType ==
  ASSUME StateOK, PhaseInv, FillFirst
  PROVE  list' \in Seq(Node) /\ Len(list') = 1 /\ list' # <<>>
<1>1. PICK ip \in AddressIn(taken) :
        list' = <<NewNode(taken, 0, ip, list[1].finished)>>
  BY DEF FillFirst
<1>2. taken \in Answers /\ list[1] \in Node
  <2>1. hpc = "creating" /\ list \in Seq(Node) /\ taken \in Answers
    BY DEF FillFirst, StateOK
  <2>2. Len(list) = 1
    BY <2>1 DEF PhaseInv
  <2>3. QED
    BY <2>1, <2>2
<1>3. list[1].finished \in BOOLEAN
  BY <1>2 DEF Node
<1>4. NewNode(taken, 0, ip, list[1].finished) \in Node
  BY <1>2, <1>3, NewNodeType
<1>5. QED
  BY <1>1, <1>4


-----------------------------------------------------------------------------
(* The main thread keeps the types.                                        *)

LEMMA MainTypeInv == TypeInv /\ MainStep => TypeInv'
<1> SUFFICES ASSUME TypeInv, MainStep PROVE TypeInv'
  OBVIOUS
<1>0. LastPhase \in {3, 4} /\ (Mode = "remote" => LastPhase = 3)
  BY ListAssumption DEF LastPhase
<1> USE DEF TypeInv, StateOK, SendInv, PhaseInv
<1>1. CASE Launch
  <2>1. count' \in Int /\ count' >= -1
    BY <1>1, RequestsType DEF Launch
  <2>2. Mode = "remote" /\ phase = 1 => count' = Len(Targets)
    BY <1>1, ListAssumption, <1>0 DEF Launch, Requests
  <2>3. mpc' \in {"join", "send"} /\ hpc = "ready"
    BY <1>1 DEF Launch
  <2>4. QED
    BY <1>1, <2>1, <2>2, <2>3 DEF Launch, netVars
<1>2. CASE SendIdentify
  BY <1>2 DEF SendIdentify
<1>3. CASE SendLookup
  <2>1. list \in Seq(Node) /\ k + 1 \in 1..Len(list)
    BY <1>3 DEF SendLookup
  <2>2. list[k + 1] \in Node
    BY <2>1
  <2>3. ToListed(list[k + 1].handle) \in Lookup
    BY <2>2 DEF ToListed, Lookup, Node
  <2>4. lookups' \subseteq Lookup
    BY <1>3, <2>3 DEF SendLookup
  <2>5. hpc # "creating" \/ lookups' = lookups
    BY <1>3 DEF SendLookup
  <2>6. QED
    BY <1>3, <2>4, <2>5 DEF SendLookup
<1>4. CASE PickDevice
  <2>1. UNCHANGED <<list, hpc, taken, phase, count, capture, netVars>>
          /\ mpc = "send" /\ Mode = "remote" /\ k < count
    BY <1>4 DEF PickDevice
  <2>2. \/ phase = 1 /\ mpc' = "resolve" /\ current' = (list # <<>>) /\ k' = k
        \/ phase = 2 /\ k < Len(list) /\ mpc' = "resolve" /\ k' = k
        \/ phase = 2 /\ k' = k + 1 /\ mpc' = mpc
    BY <1>4 DEF PickDevice
  <2>3. phase = 2 => list # <<>>
    BY <2>1
  <2>4. StateOK' /\ PhaseInv'
    BY <2>1, <2>2 DEF netVars
  <2>5. mpc' = "resolve" /\ current' => list' # <<>>
    BY <2>1, <2>2, <2>3
  <2>6. SendInv'
    BY <2>1, <2>2, <2>5
  <2>7. QED
    BY <2>4, <2>6
<1>5. CASE SendResolved
  <2>0. mpc = "resolve" /\ Mode = "remote" /\ phase \in {1, 2}
          /\ UNCHANGED <<list, hpc, taken, phase, count, current, capture>>
          /\ mpc' = "send" /\ k' = k + 1
    BY <1>5 DEF SendResolved
  <2>1. ASSUME phase = 1 PROVE RemoteLookup \in Lookup
    <3>1. k + 1 \in 1..Len(Targets) /\ Targets \in Seq(Ips \cup {Junk})
      BY <2>0, <2>1, ListAssumption
    <3>2. Targets[k + 1] \in Ips \cup {Junk}
      BY <3>1
    <3>3. current => list[1] \in Node
      BY <2>0
    <3>4. current => list[1].handle \in Handles
      BY <3>3 DEF Node
    <3>5. QED
      BY <2>1, <3>2, <3>4 DEF RemoteLookup, Lookup, Handles
  <2>2. ASSUME phase = 2 PROVE RemoteLookup \in Lookup
    <3>1. list \in Seq(Node) /\ k + 1 \in 1..Len(list)
      BY <2>0, <2>2
    <3>2. list[k + 1] \in Node
      BY <3>1
    <3>3. QED
      BY <2>2, <3>2 DEF RemoteLookup, ToListed, Lookup, Node
  <2>3. RemoteLookup \in Lookup
    BY <2>0, <2>1, <2>2
  <2>4. lookups' \subseteq Lookup
    BY <1>5, <2>3 DEF SendResolved
  <2>5. QED
    BY <2>0, <2>4
<1>6. CASE SendsOver
  BY <1>6 DEF SendsOver, netVars
<1>7. CASE Join
  BY <1>7, <1>0 DEF Join, netVars
<1>8. QED
  BY <1>1, <1>2, <1>3, <1>4, <1>5, <1>6, <1>7 DEF MainStep

-----------------------------------------------------------------------------
(* The handlers keep the types.                                            *)

\* A node is published.
LEMMA PublishEffect ==
  ASSUME TypeInv, NEW a \in Answers, NEW sn, Handling(a, sn), PublishFirst(a)
  PROVE  /\ list = <<>> /\ capture = "on" /\ MayCome(a) /\ Sniffer = sn
         /\ UNCHANGED <<mpc, phase, count, k, current, lookups, asked, capture>>
         /\ list' \in Seq(Node) /\ Len(list') = 1 /\ list' # <<>>
         /\ hpc' = "creating" /\ taken' \in Answers
  BY PublishType DEF PublishFirst, Handling, mainVars, netVars

\* A node is added.
LEMMA AppendEffect ==
  ASSUME TypeInv, NEW a \in Answers, NEW sn, Handling(a, sn), Append1(a)
  PROVE  /\ list # <<>> /\ capture = "on" /\ hpc = "ready"
         /\ UNCHANGED <<mpc, phase, count, k, current, lookups, asked, capture,
                        hpc, taken>>
         /\ list' \in Seq(Node) /\ Len(list') = Len(list) + 1 /\ list' # <<>>
<1>1. list # <<>>
  BY DEF Append1
<1>2. StateOK /\ NextIndex \in Nat
  BY <1>1, NextIndexType DEF TypeInv
<1>3. list' \in Seq(Node) /\ Len(list') = Len(list) + 1 /\ list' # <<>>
  BY <1>2, AppendType
<1>4. QED
  BY <1>1, <1>3 DEF Append1, Handling, mainVars, netVars

\* A node is filled.
LEMMA FillEffect ==
  ASSUME TypeInv, HandleUnknown \/ HandleDescription \/
           \E a \in Answers : Handling(a, "rem") /\ FillByAddress(a)
  PROVE  /\ capture = "on" /\ hpc = "ready" /\ capture' \in {"on", "broken"}
         /\ UNCHANGED <<mpc, phase, count, k, current, lookups, asked, hpc, taken>>
         /\ list' \in Seq(Node) /\ Len(list') = Len(list) /\ list' # <<>>
<1> USE DEF mainVars, netVars
<1>0. StateOK
  BY DEF TypeInv
<1>1. CASE HandleUnknown
  <2>1. PICK a \in Answers, i \in DOMAIN list :
          list' = [list EXCEPT ![i].handle = a.handle]
    BY <1>1 DEF HandleUnknown, KeepHandle
  <2>2. list' \in Seq(Node) /\ Len(list') = Len(list) /\ list' # <<>>
    BY <1>0, <2>1, FillType
  <2>3. QED
    BY <1>1, <2>2 DEF HandleUnknown, KeepHandle, Handling
<1>2. CASE HandleDescription
  <2>1. PICK a \in Answers, i \in DOMAIN list :
          list' = [list EXCEPT ![i].about = "full", ![i].by = a.from,
                               ![i].handle = a.handle, ![i].finished = TRUE]
    BY <1>2 DEF HandleDescription, KeepDescription
  <2>2. list' \in Seq(Node) /\ Len(list') = Len(list) /\ list' # <<>>
    BY <1>0, <2>1, FillType
  <2>3. QED
    BY <1>2, <2>2 DEF HandleDescription, KeepDescription, Handling
<1>3. ASSUME NEW a \in Answers, Handling(a, "rem"), FillByAddress(a)
      PROVE  /\ capture = "on" /\ hpc = "ready" /\ capture' \in {"on", "broken"}
             /\ UNCHANGED <<mpc, phase, count, k, current, lookups, asked, hpc,
                            taken>>
             /\ list' \in Seq(Node) /\ Len(list') = Len(list) /\ list' # <<>>
  <2>1. PICK i \in DOMAIN list :
          list' = [list EXCEPT ![i].about = a.kind, ![i].by = a.from,
                               ![i].handle = a.handle]
    BY <1>3 DEF FillByAddress
  <2>2. list' \in Seq(Node) /\ Len(list') = Len(list) /\ list' # <<>>
    BY <1>0, <2>1, FillType
  <2>3. QED
    BY <1>3, <2>2 DEF FillByAddress, Handling
<1>4. QED
  BY <1>1, <1>2, <1>3

\* The cases of a step of a handler.
LEMMA HandlerCases ==
  ASSUME HandlerStep
  PROVE  \/ \E a \in Answers :
              /\ Handling(a, "dcp") /\ a.kind = "identify"
              /\ PublishFirst(a) \/ (SameMac(a.from) = {} /\ Append1(a))
         \/ \E a \in Answers :
              /\ Handling(a, "rem") /\ a.kind # "identify"
              /\ PublishFirst(a) \/ (SameIp(a.from) = {} /\ Append1(a))
         \/ HandleUnknown \/ HandleDescription
              \/ \E a \in Answers : Handling(a, "rem") /\ FillByAddress(a)
         \/ FillFirst
  BY DEF HandlerStep, HandleIdentify, ListSender, HandleRemote

\* With an empty list the remote handler of a local scan has no answer to take.
LEMMA NoLateFirst ==
  ASSUME TypeInv, LookupInv, NEW a \in Answers, Handling(a, "rem"),
         a.kind # "identify", list = <<>>
  PROVE  Mode = "remote" /\ phase = 1
<1>1. Mode = "local" => phase = 4
  BY DEF Handling, Sniffer
<1>2. \E r \in lookups : Reaches(r, a.from)
  BY DEF Handling, MayCome
<1>3. Mode # "local"
  BY <1>2 DEF LookupInv
<1>4. QED
  BY <1>3, ListAssumption DEF TypeInv, StateOK, PhaseInv

LEMMA HandlerTypeInv == TypeInv /\ LookupInv /\ HandlerStep => TypeInv'
<1> SUFFICES ASSUME TypeInv, LookupInv, HandlerStep PROVE TypeInv'
  OBVIOUS
<1> DEFINE Grown == /\ capture = "on" /\ capture' \in {"on", "broken"}
                    /\ UNCHANGED <<mpc, phase, count, k, current, lookups>>
                    /\ list' \in Seq(Node) /\ list' # <<>>
                    /\ Len(list') >= Len(list)
<1>1. ASSUME Grown, hpc' = "ready" PROVE TypeInv'
  BY <1>1 DEF TypeInv, StateOK, SendInv, PhaseInv
<1>2. ASSUME Grown, hpc' = "creating", capture' = "on", Len(list') = 1,
             taken' \in Answers, phase = 1, Mode = "local" => lookups = {}
      PROVE  TypeInv'
  BY <1>2 DEF TypeInv, StateOK, SendInv, PhaseInv
<1>3. ASSUME NEW a \in Answers, NEW sn, Handling(a, sn), PublishFirst(a),
             phase = 1, Mode = "local" => lookups = {}
      PROVE  TypeInv'
  <2>1. Grown /\ hpc' = "creating" /\ capture' = "on" /\ Len(list') = 1
          /\ taken' \in Answers
    BY <1>3, PublishEffect
  <2>2. QED
    BY <1>2, <1>3, <2>1
<1>4. ASSUME NEW a \in Answers, NEW sn, Handling(a, sn), Append1(a)
      PROVE  TypeInv'
  <2>1. list \in Seq(Node)
    BY DEF TypeInv, StateOK
  <2>2. Grown /\ hpc' = "ready"
    BY <1>4, <2>1, AppendEffect
  <2>3. QED
    BY <1>1, <2>2
<1>5. CASE \E a \in Answers :
             /\ Handling(a, "dcp") /\ a.kind = "identify"
             /\ PublishFirst(a) \/ (SameMac(a.from) = {} /\ Append1(a))
  <2>1. PICK a \in Answers :
          Handling(a, "dcp") /\ (PublishFirst(a) \/ Append1(a))
    BY <1>5
  <2>2. Mode = "local" /\ phase = 1
    BY <2>1, ListAssumption DEF Handling, Sniffer
  <2>3. PublishFirst(a) => lookups = {}
    BY <2>2 DEF PublishFirst, LookupInv
  <2>4. QED
    BY <1>3, <1>4, <2>1, <2>2, <2>3
<1>6. CASE \E a \in Answers :
             /\ Handling(a, "rem") /\ a.kind # "identify"
             /\ PublishFirst(a) \/ (SameIp(a.from) = {} /\ Append1(a))
  <2>1. PICK a \in Answers :
          /\ Handling(a, "rem") /\ a.kind # "identify"
          /\ PublishFirst(a) \/ Append1(a)
    BY <1>6
  <2>2. PublishFirst(a) => Mode = "remote" /\ phase = 1
    BY <2>1, NoLateFirst DEF PublishFirst
  <2>3. QED
    BY <1>3, <1>4, <2>1, <2>2
<1>7. CASE HandleUnknown \/ HandleDescription
             \/ \E a \in Answers : Handling(a, "rem") /\ FillByAddress(a)
  <2>1. list \in Seq(Node)
    BY DEF TypeInv, StateOK
  <2>2. Grown /\ hpc' = "ready"
    BY <1>7, <2>1, FillEffect
  <2>3. QED
    BY <1>1, <2>2
<1>8. CASE FillFirst
  <2>1. list' \in Seq(Node) /\ Len(list') = 1 /\ list' # <<>>
    BY <1>8, FillFirstType DEF TypeInv
  <2>2. capture = "on" /\ Len(list) = 1
    BY <1>8 DEF FillFirst, TypeInv, PhaseInv
  <2>3. hpc' = "ready" /\ UNCHANGED <<mpc, phase, count, k, current, lookups, capture>>
    BY <1>8 DEF FillFirst, mainVars, netVars
  <2>4. Grown /\ hpc' = "ready"
    BY <2>1, <2>2, <2>3
  <2>5. QED
    BY <1>1, <2>4
<1>9. QED
  BY <1>5, <1>6, <1>7, <1>8, HandlerCases

-----------------------------------------------------------------------------
(* Keys: nodes keep them, and lookups go to them.                          *)

\* The nodes there are keep their MAC and address, their index and, of course,
\* their place.
KeysKept ==
  \A i \in DOMAIN list :
    /\ i \in DOMAIN list' /\ list'[i].mac = list[i].mac
    /\ list'[i].ip = list[i].ip /\ list'[i].index = list[i].index

LEMMA AppendKeeps ==
  ASSUME TypeInv, NEW a \in Answers, Append1(a)
  PROVE  /\ KeysKept
         /\ \E ip \in AddressIn(a) :
              /\ list' = Append(list, NewNode(a, NextIndex, ip, FALSE))
              /\ list'[Len(list) + 1] = NewNode(a, NextIndex, ip, FALSE)
              /\ DOMAIN list' = DOMAIN list \cup {Len(list) + 1}
<1>1. PICK ip \in AddressIn(a) :
        list' = Append(list, NewNode(a, NextIndex, ip, FALSE))
  BY DEF Append1
<1> DEFINE node == NewNode(a, NextIndex, ip, FALSE)
<1>2. list \in Seq(Node) /\ list # <<>>
  BY DEF TypeInv, StateOK, Append1
<1>3. node \in Node
  BY <1>2, NextIndexType, NewNodeType DEF TypeInv
<1> HIDE DEF node
<1>4. list' = Append(list, node)
  BY <1>1 DEF node
<1>5. DOMAIN list' = DOMAIN list \cup {Len(list) + 1}
  BY <1>2, <1>3, <1>4
<1>6. list'[Len(list) + 1] = node /\ \A i \in DOMAIN list : list'[i] = list[i]
  BY <1>2, <1>3, <1>4
<1>7. QED
  BY <1>1, <1>5, <1>6 DEF KeysKept, node

LEMMA FillKeeps ==
  ASSUME TypeInv, HandleUnknown \/ HandleDescription \/
           \E a \in Answers : Handling(a, "rem") /\ FillByAddress(a)
  PROVE  KeysKept /\ DOMAIN list' = DOMAIN list
<1>1. list \in Seq(Node)
  BY DEF TypeInv, StateOK
<1>2. PICK a \in Answers, i \in DOMAIN list :
        \/ list' = [list EXCEPT ![i].handle = a.handle]
        \/ list' = [list EXCEPT ![i].about = a.kind, ![i].by = a.from,
                                ![i].handle = a.handle]
        \/ list' = [list EXCEPT ![i].about = "full", ![i].by = a.from,
                                ![i].handle = a.handle, ![i].finished = TRUE]
  BY DEF HandleUnknown, KeepHandle, HandleDescription, KeepDescription,
         FillByAddress
<1>3. list[i] \in Node /\ i \in 1..Len(list)
  BY <1>1
<1>4. DOMAIN list' = DOMAIN list
  BY <1>1, <1>2
<1>5. \A j \in DOMAIN list \ {i} : list'[j] = list[j]
  BY <1>1, <1>2
<1>6. list'[i].mac = list[i].mac /\ list'[i].ip = list[i].ip
        /\ list'[i].index = list[i].index
  BY <1>1, <1>2, <1>3 DEF Node
<1>7. QED
  BY <1>4, <1>5, <1>6 DEF KeysKept

LEMMA InitLookupInv == Init => LookupInv
  BY DEF Init, LookupInv

LEMMA NextLookupInv == TypeInv /\ LookupInv /\ [Next]_vars => LookupInv'
<1> SUFFICES ASSUME TypeInv, LookupInv, [Next]_vars, Mode = "local"
             PROVE  LookupInv'
  BY DEF LookupInv
<1>1. ASSUME KeysKept, lookups' = lookups PROVE LookupInv'
  BY <1>1 DEF LookupInv, KeysKept
<1>2. ASSUME list' = list, lookups' = lookups PROVE LookupInv'
  BY <1>2 DEF LookupInv
<1>3. CASE MainStep
  <2>1. CASE SendLookup
    <3>1. k + 1 \in DOMAIN list /\ list' = list
      BY <2>1 DEF SendLookup, TypeInv, StateOK
    <3>2. lookups' = lookups \cup {ToListed(list[k + 1].handle)}
      BY <2>1 DEF SendLookup
    <3>3. QED
      BY <3>1, <3>2 DEF LookupInv, ToListed
  <2>2. CASE SendResolved
    BY <2>2 DEF SendResolved, TypeInv, SendInv
  <2>3. CASE Launch \/ SendIdentify \/ PickDevice \/ SendsOver \/ Join
    BY <1>2, <2>3 DEF Launch, SendIdentify, PickDevice, SendsOver, Join, netVars
  <2>4. QED
    BY <1>3, <2>1, <2>2, <2>3 DEF MainStep
<1>4. CASE HandlerStep
  <2>1. ASSUME NEW a \in Answers, PublishFirst(a) PROVE LookupInv'
    <3>1. lookups = {} /\ lookups' = lookups
      BY <2>1 DEF PublishFirst, LookupInv, netVars
    <3>2. QED
      BY <3>1 DEF LookupInv
  <2>2. ASSUME NEW a \in Answers, Append1(a) PROVE LookupInv'
    BY <1>1, <2>2, AppendKeeps DEF Append1, netVars
  <2>3. CASE HandleUnknown \/ HandleDescription
               \/ \E a \in Answers : Handling(a, "rem") /\ FillByAddress(a)
    BY <1>1, <2>3, FillKeeps
    DEF HandleUnknown, KeepHandle, HandleDescription, KeepDescription,
        FillByAddress, netVars
  <2>4. CASE FillFirst
    <3>1. lookups = {} /\ lookups' = lookups
      BY <2>4 DEF FillFirst, TypeInv, PhaseInv, netVars
    <3>2. QED
      BY <3>1 DEF LookupInv
  <2>5. QED
    BY <1>4, <2>1, <2>2, <2>3, <2>4, HandlerCases
<1>5. CASE EndCapture
  BY <1>2, <1>5 DEF EndCapture, netVars
<1>6. CASE UNCHANGED vars
  BY <1>2, <1>6 DEF vars, netVars
<1>7. QED
  BY <1>3, <1>4, <1>5, <1>6 DEF Next, Exited

LEMMA NextTypeInv == TypeInv /\ LookupInv /\ [Next]_vars => TypeInv'
<1> SUFFICES ASSUME TypeInv, LookupInv, [Next]_vars PROVE TypeInv'
  OBVIOUS
<1>1. CASE EndCapture
  BY <1>1 DEF EndCapture, TypeInv, StateOK, SendInv, PhaseInv, mainVars, netVars
<1>2. CASE UNCHANGED vars
  BY <1>2 DEF vars, TypeInv, StateOK, SendInv, PhaseInv, mainVars, netVars
<1>3. QED
  BY <1>1, <1>2, MainTypeInv, HandlerTypeInv DEF Next, Exited

LEMMA NextFlagsOK == FlagsOK /\ [Next]_vars => FlagsOK'
<1> SUFFICES ASSUME FlagsOK, [Next]_vars PROVE FlagsOK'
  OBVIOUS
<1> USE DEF FlagsOK, mainVars, netVars
<1>1. CASE MainStep
  BY <1>1, Zenon
  DEF MainStep, Launch, SendIdentify, SendLookup, PickDevice, SendResolved,
      SendsOver, Join
<1>2. CASE HandlerStep
  <2>1. UNCHANGED <<mainVars, netVars>>
    BY <1>2, Zenon
    DEF HandlerStep, HandleIdentify, ListSender, FillFirst, HandleUnknown,
        KeepHandle,
        HandleDescription, KeepDescription, HandleRemote, PublishFirst,
        Append1, FillByAddress
  <2>2. QED
    BY <2>1, Zenon
<1>3. CASE EndCapture
  BY <1>3, Zenon DEF EndCapture
<1>4. CASE UNCHANGED vars
  BY <1>4, Zenon DEF vars
<1>5. QED
  BY <1>1, <1>2, <1>3, <1>4 DEF Next, Exited

LEMMA InitInv == Init => TypeInv /\ LookupInv /\ FlagsOK
  BY InitTypeInv, InitLookupInv DEF Init, FlagsOK

LEMMA KeyInvariant == Spec => [](TypeInv /\ LookupInv /\ FlagsOK)
<1>1. (TypeInv /\ LookupInv /\ FlagsOK) /\ [Next]_vars
        => (TypeInv /\ LookupInv /\ FlagsOK)'
  BY NextTypeInv, NextLookupInv, NextFlagsOK
<1>2. QED
  BY <1>1, InitInv, PTL DEF Spec

\* Every variable of main and of the sniffer keeps its type, the first node
\* that is visible before it is filled included.
THEOREM TypeCorrect == Spec => []TypeOK
<1>1. TypeInv /\ FlagsOK => TypeOK
  BY DEF TypeInv, TypeOK
<1>2. QED
  BY <1>1, KeyInvariant, PTL

-----------------------------------------------------------------------------
(* One node per device.                                                    *)

\* Filling and lookups aside, only a new node can be a second one.
LEMMA KeptOnce ==
  ASSUME OneNodePerDevice, KeysKept, DOMAIN list' = DOMAIN list
  PROVE  OneNodePerDevice'
  BY DEF OneNodePerDevice, KeysKept, Owns

LEMMA AppendOnce ==
  ASSUME TypeInv, OneNodePerDevice, NEW a \in Answers, Append1(a),
         \A i \in DOMAIN list : ~Owns(list[i], a.from),
         Mode = "remote" => a.kind # "identify"
  PROVE  OneNodePerDevice'
<1>1. PICK ip \in AddressIn(a) :
        /\ list'[Len(list) + 1] = NewNode(a, NextIndex, ip, FALSE)
        /\ DOMAIN list' = DOMAIN list \cup {Len(list) + 1}
  BY AppendKeeps
<1>2. KeysKept
  BY AppendKeeps
<1> DEFINE new == list'[Len(list) + 1]
<1>3. a.from \in Devices
  BY DEF Answers
<1>4. \A d \in Devices : Owns(new, d) => d = a.from
  <2>1. new.mac = MacOf[a.from] /\ new.ip = ip
    BY <1>1 DEF NewNode
  <2>2. Mode = "remote" => ip = IpOf[a.from]
    BY DEF AddressIn
  <2>3. QED
    BY <1>3, <2>1, <2>2, ListAssumption, AddressAssumption DEF Owns
<1>5. \A i \in DOMAIN list, d \in Devices : Owns(list'[i], d) <=> Owns(list[i], d)
  BY <1>2 DEF KeysKept, Owns
<1>6. SUFFICES ASSUME NEW i \in DOMAIN list', NEW j \in DOMAIN list', NEW d \in Devices,
                      Owns(list'[i], d), Owns(list'[j], d)
               PROVE  i = j
  BY Zenon DEF OneNodePerDevice, Owns
<1>7. CASE i \in DOMAIN list /\ j \in DOMAIN list
  BY <1>5, <1>6, <1>7 DEF OneNodePerDevice
<1>8. CASE i = Len(list) + 1 /\ j \in DOMAIN list
  BY <1>4, <1>5, <1>6, <1>8
<1>9. CASE i \in DOMAIN list /\ j = Len(list) + 1
  BY <1>4, <1>5, <1>6, <1>9
<1>10. QED
  BY <1>1, <1>7, <1>8, <1>9

LEMMA NextOneNode ==
  TypeInv /\ LookupInv /\ OneNodePerDevice /\ [Next]_vars => OneNodePerDevice'
<1> SUFFICES ASSUME TypeInv, LookupInv, OneNodePerDevice, [Next]_vars
             PROVE  OneNodePerDevice'
  OBVIOUS
<1>1. ASSUME list' = list PROVE OneNodePerDevice'
  BY <1>1 DEF OneNodePerDevice, Owns
<1>2. ASSUME list' \in Seq(Node), Len(list') = 1 PROVE OneNodePerDevice'
  BY <1>2 DEF OneNodePerDevice
<1>3. CASE MainStep
  BY <1>1, <1>3
  DEF MainStep, Launch, SendIdentify, SendLookup, PickDevice, SendResolved,
      SendsOver, Join
<1>4. CASE HandlerStep
  <2>1. ASSUME NEW a \in Answers, PublishFirst(a) PROVE OneNodePerDevice'
    BY <1>2, <2>1, PublishType
  <2>2. ASSUME NEW a \in Answers, Handling(a, "dcp"), SameMac(a.from) = {},
               Append1(a)
        PROVE  OneNodePerDevice'
    <3>1. Mode = "local"
      BY <2>2, ListAssumption DEF Handling, Sniffer
    <3>2. \A i \in DOMAIN list : ~Owns(list[i], a.from)
      BY <2>2, <3>1 DEF SameMac, Owns
    <3>3. QED
      BY <2>2, <3>1, <3>2, AppendOnce
  <2>3. ASSUME NEW a \in Answers, Handling(a, "rem"), a.kind # "identify",
               SameIp(a.from) = {}, Append1(a)
        PROVE  OneNodePerDevice'
    \* A local scan asked the device at the address of its node: it is there.
    <3>1. Mode # "local"
      <4>1. PICK r \in lookups : Reaches(r, a.from)
        BY <2>3 DEF Handling, MayCome
      <4>2. Mode = "local" => \E i \in DOMAIN list : list[i].ip = IpOf[a.from]
        BY <4>1 DEF LookupInv, Reaches
      <4>3. QED
        BY <2>3, <4>2 DEF SameIp
    <3>2. \A i \in DOMAIN list : ~Owns(list[i], a.from)
      BY <2>3, <3>1 DEF SameIp, Owns
    <3>3. QED
      BY <2>3, <3>2, AppendOnce
  <2>4. CASE HandleUnknown \/ HandleDescription
               \/ \E a \in Answers : Handling(a, "rem") /\ FillByAddress(a)
    BY <2>4, FillKeeps, KeptOnce
  <2>5. CASE FillFirst
    BY <1>2, <2>5, FillFirstType DEF TypeInv
  <2>6. QED
    BY <1>4, <2>1, <2>2, <2>3, <2>4, <2>5, HandlerCases
<1>5. CASE EndCapture \/ UNCHANGED vars
  BY <1>1, <1>5 DEF EndCapture, vars
<1>6. QED
  BY <1>3, <1>4, <1>5 DEF Next, Exited

\* However often and however late the devices answer, each has one node.
THEOREM NodesUnique == Spec => []OneNodePerDevice
<1>1. Init => OneNodePerDevice
  BY DEF Init, OneNodePerDevice
<1>2. QED
  BY <1>1, NextOneNode, KeyInvariant, PTL DEF Spec

-----------------------------------------------------------------------------
(* main's walks stay in the list.                                          *)

LEMMA ReadyStatus ==
  ASSUME TypeInv, CountInv, hpc = "ready", list # <<>>
  PROVE  Status = Len(list) /\ NextIndex = Len(list)
<1>1. list \in Seq(Node) /\ Len(list) \in DOMAIN list
  BY DEF TypeInv, StateOK
<1>2. list[Len(list)].index = Len(list) - 1
  BY <1>1 DEF CountInv
<1>3. QED
  BY <1>1, <1>2 DEF Status, NextIndex

LEMMA NextCountInv ==
  TypeInv /\ LookupInv /\ CountInv /\ [Next]_vars => CountInv'
<1> SUFFICES ASSUME TypeInv, LookupInv, CountInv, [Next]_vars PROVE CountInv'
  OBVIOUS
<1>0. list \in Seq(Node) /\ LastPhase \in {3, 4}
        /\ (Mode = "local" <=> LastPhase = 4)
  BY ListAssumption DEF TypeInv, StateOK, LastPhase
<1>1. ASSUME UNCHANGED <<list, hpc, mpc, phase, count>> PROVE CountInv'
  BY <1>1 DEF CountInv
<1>2. CASE MainStep
  <2>1. CASE Launch
    <3>1. hpc = "ready" /\ UNCHANGED <<list, hpc, phase>> /\ mpc = "launch"
            /\ mpc' # "launch" /\ count' = Requests
      BY <2>1 DEF Launch, TypeInv, StateOK, PhaseInv
    <3>2. Status <= Len(list)
      BY <3>1, ReadyStatus DEF Status
    <3>3. phase > 1 => Requests <= Len(list)
      BY <3>1, <3>2, <1>0 DEF Requests, CountInv, TypeInv, StateOK
    <3>4. QED
      BY <3>1, <3>3 DEF CountInv
  <2>2. CASE Join
    BY <2>2, <1>0 DEF Join, CountInv, TypeInv, StateOK
  <2>3. CASE SendIdentify \/ SendLookup \/ PickDevice \/ SendResolved \/ SendsOver
    <3>1. UNCHANGED <<list, hpc, phase, count>> /\ mpc # "launch" /\ mpc' # "launch"
      BY <2>3 DEF SendIdentify, SendLookup, PickDevice, SendResolved, SendsOver
    <3>2. QED
      BY <3>1 DEF CountInv
  <2>4. QED
    BY <1>2, <2>1, <2>2, <2>3 DEF MainStep
<1>3. CASE HandlerStep
  <2>1. ASSUME NEW a \in Answers, NEW sn, Handling(a, sn), PublishFirst(a),
               phase = 1
        PROVE  CountInv'
    BY <2>1, PublishEffect DEF CountInv
  <2>2. ASSUME NEW a \in Answers, NEW sn, Handling(a, sn), Append1(a)
        PROVE  CountInv'
    <3>1. /\ hpc = "ready" /\ list # <<>> /\ UNCHANGED <<hpc, mpc, phase, count>>
          /\ Len(list') = Len(list) + 1
      BY <2>2, AppendEffect
    <3>2. PICK ip \in AddressIn(a) :
            /\ list'[Len(list) + 1] = NewNode(a, NextIndex, ip, FALSE)
            /\ DOMAIN list' = DOMAIN list \cup {Len(list) + 1}
      BY <2>2, AppendKeeps
    <3>3. list'[Len(list) + 1].index = Len(list)
      BY <3>1, <3>2, ReadyStatus DEF NewNode
    <3>4. \A i \in DOMAIN list : list'[i].index = i - 1
      BY <2>2, <3>1, AppendKeeps DEF KeysKept, CountInv
    <3>5. ASSUME NEW i \in DOMAIN list' PROVE list'[i].index = i - 1
      <4>1. CASE i \in DOMAIN list
        BY <3>4, <4>1
      <4>2. CASE i = Len(list) + 1
        <5>1. i - 1 = Len(list)
          BY <1>0, <4>2
        <5>2. QED
          BY <3>3, <4>2, <5>1
      <4>3. QED
        BY <3>2, <3>5, <4>1, <4>2
    <3>6. QED
      BY <1>0, <3>1, <3>5 DEF CountInv, TypeInv, StateOK
  <2>3. CASE HandleUnknown \/ HandleDescription
               \/ \E a \in Answers : Handling(a, "rem") /\ FillByAddress(a)
    <3>1. KeysKept /\ DOMAIN list' = DOMAIN list
      BY <2>3, FillKeeps
    <3>2. UNCHANGED <<hpc, mpc, phase, count>> /\ Len(list') = Len(list)
      BY <2>3, FillEffect
    <3>3. QED
      BY <3>1, <3>2 DEF CountInv, KeysKept
  <2>4. CASE FillFirst
    <3>1. phase' = 1
      BY <2>4 DEF FillFirst, TypeInv, PhaseInv, mainVars
    <3>2. PICK ip \in AddressIn(taken) :
            list' = <<NewNode(taken, 0, ip, list[1].finished)>>
      BY <2>4 DEF FillFirst
    <3>3. DOMAIN list' = {1} /\ list'[1].index = 0
      BY <3>2 DEF NewNode
    <3>4. QED
      BY <3>1, <3>3 DEF CountInv
  <2>5. ASSUME NEW a \in Answers, NEW sn, Handling(a, sn), PublishFirst(a),
               sn = "dcp" \/ (sn = "rem" /\ a.kind # "identify")
        PROVE  phase = 1
    BY <2>5, NoLateFirst DEF PublishFirst, Handling, Sniffer
  <2>6. QED
    BY <1>3, <2>1, <2>2, <2>3, <2>4, <2>5, HandlerCases
<1>4. CASE EndCapture \/ UNCHANGED vars
  BY <1>1, <1>4 DEF EndCapture, vars, mainVars
<1>5. QED
  BY <1>2, <1>3, <1>4 DEF Next, Exited

\* main never follows a next pointer behind the last node.
THEOREM WalksInRange == Spec => []WalkInRange
<1>1. Init => CountInv
  BY DEF Init, CountInv
<1>2. CountInv => WalkInRange
  BY DEF CountInv, WalkInRange
<1>3. QED
  BY <1>1, <1>2, NextCountInv, KeyInvariant, PTL DEF Spec

-----------------------------------------------------------------------------
(* Handles.                                                                *)

\* A handler fills one node, with the answer's handle, and no other.
LEMMA FillOne ==
  ASSUME TypeInv, NEW a \in Answers, NEW i \in DOMAIN list,
         \/ list' = [list EXCEPT ![i].handle = a.handle]
         \/ list' = [list EXCEPT ![i].about = a.kind, ![i].by = a.from,
                                 ![i].handle = a.handle]
         \/ list' = [list EXCEPT ![i].about = "full", ![i].by = a.from,
                                 ![i].handle = a.handle, ![i].finished = TRUE]
  PROVE  /\ DOMAIN list' = DOMAIN list
         /\ \A j \in DOMAIN list \ {i} : list'[j] = list[j]
         /\ list'[i].handle = a.handle
         /\ list'[i].mac = list[i].mac /\ list'[i].ip = list[i].ip
<1>1. list \in Seq(Node) /\ list[i] \in Node /\ i \in 1..Len(list)
  BY DEF TypeInv, StateOK
<1>2. DOMAIN list' = DOMAIN list
  BY <1>1
<1>3. \A j \in DOMAIN list \ {i} : list'[j] = list[j]
  BY <1>1
<1>4. list'[i].mac = list[i].mac /\ list'[i].ip = list[i].ip
  BY <1>1 DEF Node
<1>5. list'[i].handle = a.handle
  <2> DEFINE one == [list[i] EXCEPT !.handle = a.handle]
             two == [list[i] EXCEPT !.about = a.kind, !.by = a.from,
                                    !.handle = a.handle]
             three == [list[i] EXCEPT !.about = "full", !.by = a.from,
                                      !.handle = a.handle, !.finished = TRUE]
  <2>1. list'[i] = one \/ list'[i] = two \/ list'[i] = three
    BY <1>1
  <2>2. one.handle = a.handle /\ two.handle = a.handle
          /\ three.handle = a.handle
    BY <1>1 DEF Node
  <2>3. QED
    BY <2>1, <2>2
<1>6. QED
  BY <1>2, <1>3, <1>4, <1>5

\* A lookup answer comes from the addresses of the node that has its MAC.
LEMMA AnswerIsNodes ==
  ASSUME TypeInv, LookupInv, OneNodePerDevice, Mode = "local",
         NEW a \in Answers, a.kind # "identify", MayCome(a),
         NEW i \in SameMac(a.from)
  PROVE  list[i].mac = MacOf[a.from] /\ list[i].ip = IpOf[a.from]
<1>1. PICK r \in lookups : Reaches(r, a.from)
  BY DEF MayCome
<1>2. PICK j \in DOMAIN list : list[j].mac = r.mac /\ list[j].ip = r.ip
  BY <1>1 DEF LookupInv
<1>3. a.from \in Devices
  BY DEF Answers
<1>4. i \in DOMAIN list /\ Owns(list[i], a.from) /\ Owns(list[j], a.from)
  BY <1>1, <1>2 DEF SameMac, Owns, Reaches
<1>5. i = j
  BY <1>2, <1>3, <1>4 DEF OneNodePerDevice
<1>6. QED
  BY <1>1, <1>2, <1>5 DEF Reaches

LEMMA NextHandleInv ==
  TypeInv /\ LookupInv /\ OneNodePerDevice /\ HandleInv /\ [Next]_vars => HandleInv'
<1> SUFFICES ASSUME TypeInv, LookupInv, OneNodePerDevice, HandleInv,
                    [Next]_vars, Mode = "local"
             PROVE  HandleInv'
  BY DEF HandleInv
<1>0. LastPhase = 4 /\ phase \in 1..4 /\ list \in Seq(Node)
  BY ListAssumption DEF LastPhase, TypeInv, StateOK
<1> DEFINE SameLookups == lookups' = lookups
<1>1. ASSUME UNCHANGED <<list, hpc, taken, lookups>>,
             phase' < LastPhase => phase < LastPhase
      PROVE  HandleInv'
    BY <1>1 DEF HandleInv, LookupCarriesOwnHandle, HandleIsDestinations,
                LastPhase
<1>2. ASSUME lookups' = lookups PROVE LookupCarriesOwnHandle'
  BY <1>2 DEF HandleInv, LookupCarriesOwnHandle, HandleIsDestinations
<1>3. CASE MainStep
  <2>1. CASE SendLookup
    <3>1. /\ k + 1 \in DOMAIN list /\ phase \in {2, 3}
          /\ UNCHANGED <<list, hpc, taken, phase>>
          /\ lookups' = lookups \cup {ToListed(list[k + 1].handle)}
      BY <2>1, <1>0 DEF SendLookup, TypeInv, StateOK
    <3>2. hpc = "ready"
      BY <3>1 DEF TypeInv, StateOK, PhaseInv
    <3>3. list[k + 1].handle # JunkHandle
      BY <3>1, <3>2 DEF HandleInv
    <3>4. list[k + 1].handle \in Devices =>
            Reaches(ToListed(list[k + 1].handle), list[k + 1].handle)
      BY <1>0, <3>1 DEF HandleInv, Reaches, ToListed
    <3>5. LookupCarriesOwnHandle'
      BY <3>1, <3>3, <3>4
      DEF HandleInv, LookupCarriesOwnHandle, HandleIsDestinations, ToListed,
          Reaches
    <3>6. QED
      BY <3>1, <3>5 DEF HandleInv
  <2>2. CASE SendResolved
    BY <2>2 DEF SendResolved, TypeInv, SendInv
  <2>3. CASE Join
    BY <1>0, <1>1, <2>3 DEF Join, netVars
  <2>4. CASE Launch \/ SendIdentify \/ PickDevice \/ SendsOver
    BY <1>1, <2>4 DEF Launch, SendIdentify, PickDevice, SendsOver, netVars
  <2>5. QED
    BY <1>3, <2>1, <2>2, <2>3, <2>4 DEF MainStep
<1>4. CASE HandlerStep
  <2>1. ASSUME NEW a \in Answers, a.kind = "identify", PublishFirst(a)
        PROVE  HandleInv'
    <3>1. lookups' = lookups /\ hpc' = "creating" /\ taken' = a
      BY <2>1 DEF PublishFirst, netVars
    <3>2. DOMAIN list' = {1} /\ list'[1].handle = JunkHandle
      BY <2>1 DEF PublishFirst, Unset
    <3>3. QED
      BY <1>2, <2>1, <3>1, <3>2, DistinctAssumption DEF HandleInv
  <2>2. ASSUME NEW a \in Answers, Append1(a), hpc = "ready",
               a.kind = "identify" \/ phase = 4
        PROVE  HandleInv'
    <3>1. UNCHANGED <<lookups, hpc, taken, phase>>
      BY <2>2 DEF Append1, netVars, mainVars
    <3>2. PICK ip \in AddressIn(a) :
            /\ list' = Append(list, NewNode(a, NextIndex, ip, FALSE))
            /\ list'[Len(list) + 1] = NewNode(a, NextIndex, ip, FALSE)
            /\ DOMAIN list' = DOMAIN list \cup {Len(list) + 1}
      BY <2>2, AppendKeeps
    <3> DEFINE node == NewNode(a, NextIndex, ip, FALSE)
    <3>3. node.handle # JunkHandle
            /\ (a.kind = "identify" => node.handle \notin Devices)
      BY DistinctAssumption DEF NewNode, Answers
    <3>5. /\ list' = Append(list, node) /\ list'[Len(list) + 1] = node
          /\ node \in Node
      BY <2>2, <3>2, NextIndexType, NewNodeType DEF TypeInv, Append1
    <3> HIDE DEF node
    <3>4. \A i \in DOMAIN list : list'[i] = list[i]
      BY <1>0, <3>5
    <3>6. \A i \in DOMAIN list' : list'[i].handle # JunkHandle
      BY <2>2, <3>2, <3>3, <3>4, <3>5 DEF HandleInv
    <3>7. phase < LastPhase =>
            \A i \in DOMAIN list' : list'[i].handle \in Devices =>
              /\ list'[i].mac = MacOf[list'[i].handle]
              /\ list'[i].ip = IpOf[list'[i].handle]
      <4>1. SUFFICES ASSUME phase < LastPhase, NEW i \in DOMAIN list',
                            list'[i].handle \in Devices
                     PROVE  /\ list'[i].mac = MacOf[list'[i].handle]
                            /\ list'[i].ip = IpOf[list'[i].handle]
        OBVIOUS
      <4>2. node.handle \notin Devices
        BY <1>0, <2>2, <3>3, <4>1
      <4>3. i \in DOMAIN list
        BY <3>2, <3>5, <4>1, <4>2
      <4>4. QED
        BY <3>4, <4>1, <4>3 DEF HandleInv
    <3>8. QED
      BY <1>2, <2>2, <3>1, <3>6, <3>7 DEF HandleInv, LastPhase
  <2>3. ASSUME NEW a \in Answers, NEW i \in DOMAIN list, hpc = "ready",
               UNCHANGED <<lookups, hpc, taken, phase>>,
               \/ list' = [list EXCEPT ![i].handle = a.handle]
               \/ list' = [list EXCEPT ![i].about = a.kind, ![i].by = a.from,
                                       ![i].handle = a.handle]
               \/ list' = [list EXCEPT ![i].about = "full", ![i].by = a.from,
                                       ![i].handle = a.handle,
                                       ![i].finished = TRUE],
               \/ list[i].mac = MacOf[a.from] /\ list[i].ip = IpOf[a.from]
               \/ phase = 4
        PROVE  HandleInv'
    <3>1. /\ DOMAIN list' = DOMAIN list
          /\ \A j \in DOMAIN list \ {i} : list'[j] = list[j]
          /\ list'[i].handle = a.handle
          /\ list'[i].mac = list[i].mac /\ list'[i].ip = list[i].ip
      BY <2>3, FillOne
    <3>2. a.handle # JunkHandle /\ (a.handle \in Devices => a.handle = a.from)
      BY DistinctAssumption DEF Answers
    <3>3. \A j \in DOMAIN list' : list'[j].handle # JunkHandle
      BY <2>3, <3>1, <3>2 DEF HandleInv
    <3>4. phase < LastPhase =>
            \A j \in DOMAIN list' : list'[j].handle \in Devices =>
              /\ list'[j].mac = MacOf[list'[j].handle]
              /\ list'[j].ip = IpOf[list'[j].handle]
      BY <1>0, <2>3, <3>1, <3>2 DEF HandleInv
    <3>5. QED
      BY <1>2, <2>3, <3>3, <3>4 DEF HandleInv, LastPhase
  <2>4. CASE HandleUnknown \/ HandleDescription
    <3>1. PICK a \in Answers, i \in DOMAIN list :
            /\ i \in SameMac(a.from) /\ Handling(a, "ip") /\ a.kind # "identify"
            /\ \/ list' = [list EXCEPT ![i].handle = a.handle]
               \/ list' = [list EXCEPT ![i].about = "full", ![i].by = a.from,
                                       ![i].handle = a.handle,
                                       ![i].finished = TRUE]
      BY <2>4 DEF HandleUnknown, KeepHandle, HandleDescription,
                  KeepDescription, IsFirst
    <3>2. hpc = "ready" /\ MayCome(a) /\ UNCHANGED <<lookups, hpc, taken, phase>>
      BY <2>4, <3>1 DEF HandleUnknown, KeepHandle, HandleDescription,
                        KeepDescription, Handling, mainVars,
                        netVars
    <3>3. list[i].mac = MacOf[a.from] /\ list[i].ip = IpOf[a.from]
      BY <3>1, <3>2, AnswerIsNodes
    <3>4. QED
      BY <2>3, <3>1, <3>2, <3>3
  <2>5. ASSUME NEW a \in Answers, Handling(a, "rem"), FillByAddress(a)
        PROVE  HandleInv'
    <3>1. phase = 4 /\ hpc = "ready"
      BY <2>5 DEF Handling, Sniffer
    <3>2. UNCHANGED <<lookups, hpc, taken, phase>>
      BY <2>5 DEF FillByAddress, mainVars, netVars
    <3>3. PICK i \in DOMAIN list :
            list' = [list EXCEPT ![i].about = a.kind, ![i].by = a.from,
                                 ![i].handle = a.handle]
      BY <2>5 DEF FillByAddress
    <3>4. QED
      BY <2>3, <3>1, <3>2, <3>3
  <2>6. CASE FillFirst
    <3>1. /\ taken.kind = "identify" /\ hpc' = "ready" /\ lookups' = lookups
          /\ phase' = phase
      BY <2>6 DEF FillFirst, HandleInv, mainVars, netVars
    <3>2. PICK ip \in AddressIn(taken) :
            list' = <<NewNode(taken, 0, ip, list[1].finished)>>
      BY <2>6 DEF FillFirst
    <3>3. DOMAIN list' = {1} /\ list'[1].handle = NoHandle
      BY <3>1, <3>2 DEF NewNode
    <3>4. QED
      BY <1>2, <3>1, <3>3, DistinctAssumption DEF HandleInv
  <2>7. ASSUME NEW a \in Answers, Handling(a, "dcp"), a.kind = "identify",
               PublishFirst(a) \/ Append1(a)
        PROVE  HandleInv'
    BY <2>1, <2>2, <2>7 DEF Handling
  <2>8. ASSUME NEW a \in Answers, Handling(a, "rem"), a.kind # "identify",
               PublishFirst(a) \/ Append1(a)
        PROVE  HandleInv'
    <3>1. phase = 4 /\ hpc = "ready"
      BY <2>8 DEF Handling, Sniffer
    <3>2. ~PublishFirst(a)
      BY <2>8, NoLateFirst DEF PublishFirst
    <3>3. QED
      BY <2>2, <2>8, <3>1, <3>2
  <2>9. QED
    BY <1>4, <2>4, <2>5, <2>6, <2>7, <2>8, HandlerCases
<1>5. CASE EndCapture \/ UNCHANGED vars
  BY <1>1, <1>5 DEF EndCapture, vars, mainVars, netVars
<1>6. QED
  BY <1>3, <1>4, <1>5 DEF Next, Exited

\* A local scan never sends a handle that its destination has not issued.
THEOREM HandlesGoHome ==
  ASSUME Mode = "local" PROVE Spec => []LookupCarriesOwnHandle
<1>1. Init => HandleInv
  BY DEF Init, HandleInv, LookupCarriesOwnHandle, HandleIsDestinations
<1>2. HandleInv => LookupCarriesOwnHandle
  BY DEF HandleInv
<1>3. QED
  BY <1>1, <1>2, NextHandleInv, KeyInvariant, NodesUnique, PTL DEF Spec

-----------------------------------------------------------------------------
(* What a handler's break of the capture says of the devices.              *)

\* The answer of packet_handler_IP changes one node: a handle, or a description
\* that finishes it.
LEMMA AnswerFinishes ==
  ASSUME TypeInv, HandleUnknown \/ HandleDescription
  PROVE  /\ DOMAIN list' = DOMAIN list
         /\ \A j \in DOMAIN list :
              list'[j].finished =>
                list'[j].about = "full"
                  \/ (list[j].finished /\ list'[j].about = list[j].about)
<1>1. list \in Seq(Node)
  BY DEF TypeInv, StateOK
<1>2. PICK a \in Answers, i \in DOMAIN list :
        \/ list' = [list EXCEPT ![i].handle = a.handle]
        \/ list' = [list EXCEPT ![i].about = "full", ![i].by = a.from,
                                ![i].handle = a.handle, ![i].finished = TRUE]
  BY DEF HandleUnknown, KeepHandle, HandleDescription, KeepDescription
<1>3. list[i] \in Node /\ i \in 1..Len(list)
  BY <1>1
<1>4. DOMAIN list' = DOMAIN list
        /\ \A j \in DOMAIN list \ {i} : list'[j] = list[j]
  BY <1>1, <1>2
<1> DEFINE one == [list[i] EXCEPT !.handle = a.handle]
           three == [list[i] EXCEPT !.about = "full", !.by = a.from,
                                    !.handle = a.handle, !.finished = TRUE]
<1>5. list'[i] = one \/ list'[i] = three
  BY <1>2, <1>3
<1>6. one.finished = list[i].finished /\ one.about = list[i].about
        /\ three.about = "full"
  BY <1>3 DEF Node
<1>7. list'[i].about = "full" \/ (list'[i].finished = list[i].finished
                                    /\ list'[i].about = list[i].about)
  BY <1>5, <1>6
<1>8. QED
  BY <1>4, <1>7, Zenon

LEMMA NextFinishedInv ==
  TypeInv /\ LookupInv /\ FinishedInv /\ [Next]_vars => FinishedInv'
<1> SUFFICES ASSUME TypeInv, LookupInv, FinishedInv, [Next]_vars
             PROVE  FinishedInv'
  OBVIOUS
<1>0. LastPhase \in {3, 4} /\ (Mode = "local" => LastPhase = 4)
        /\ phase \in 1..LastPhase /\ list \in Seq(Node)
  BY ListAssumption DEF LastPhase, TypeInv, StateOK
<1>1. ASSUME list' = list, phase' < LastPhase => phase < LastPhase,
             \/ capture' # "broken"
             \/ capture' = "broken" /\ capture = "broken" /\ phase' = phase
      PROVE  FinishedInv'
  BY <1>1 DEF FinishedInv, LastPhase
<1>2. CASE MainStep
  <2>1. CASE Launch
    BY <1>1, <2>1 DEF Launch
  <2>2. CASE Join
    BY <1>0, <1>1, <2>2 DEF Join
  <2>3. CASE SendIdentify \/ SendLookup \/ PickDevice \/ SendResolved \/ SendsOver
    BY <1>1, <2>3 DEF SendIdentify, SendLookup, PickDevice, SendResolved,
                      SendsOver
  <2>4. QED
    BY <1>2, <2>1, <2>2, <2>3 DEF MainStep
<1>3. CASE HandlerStep
  <2>1. ASSUME NEW a \in Answers, NEW sn, Handling(a, sn), PublishFirst(a)
        PROVE  FinishedInv'
    <3>1. capture' = "on" /\ DOMAIN list' = {1}
      BY <2>1 DEF Handling, PublishFirst
    <3>2. QED
      BY <3>1 DEF FinishedInv
  <2>2. ASSUME NEW a \in Answers, NEW sn, Handling(a, sn), Append1(a)
        PROVE  FinishedInv'
    <3>1. capture' = "on" /\ phase' = phase
      BY <2>2 DEF Handling, Append1, mainVars
    <3>2. PICK ip \in AddressIn(a) :
            /\ list' = Append(list, NewNode(a, NextIndex, ip, FALSE))
            /\ list'[Len(list) + 1] = NewNode(a, NextIndex, ip, FALSE)
            /\ DOMAIN list' = DOMAIN list \cup {Len(list) + 1}
      BY <2>2, AppendKeeps
    <3> DEFINE node == NewNode(a, NextIndex, ip, FALSE)
    <3>3. node.finished = FALSE
      BY DEF NewNode
    <3>4. /\ list' = Append(list, node) /\ list'[Len(list) + 1] = node
          /\ node \in Node
      BY <2>2, <3>2, NextIndexType, NewNodeType DEF TypeInv, Append1
    <3> HIDE DEF node
    <3>5. \A i \in DOMAIN list : list'[i] = list[i]
      BY <1>0, <3>4
    <3>6. ASSUME Mode = "local", phase < LastPhase, NEW i \in DOMAIN list',
                 i > 1, list'[i].finished
          PROVE  list'[i].about = "full"
      <4>1. i \in DOMAIN list
        BY <3>2, <3>3, <3>4, <3>6
      <4>2. list[i].finished /\ list'[i] = list[i]
        BY <3>5, <3>6, <4>1
      <4>3. QED
        BY <3>6, <4>1, <4>2 DEF FinishedInv
    <3>7. QED
      BY <3>1, <3>6 DEF FinishedInv, LastPhase
  <2>3. CASE HandleUnknown \/ HandleDescription
    <3>1. /\ DOMAIN list' = DOMAIN list
          /\ \A j \in DOMAIN list :
               list'[j].finished =>
                 list'[j].about = "full"
                   \/ (list[j].finished /\ list'[j].about = list[j].about)
      BY <2>3, AnswerFinishes
    <3>2. Mode = "local" /\ phase < LastPhase /\ phase' = phase
            /\ (capture' = "broken" => AllFinished(list'))
      <4>1. Sniffer = "ip" /\ phase' = phase
        BY <2>3 DEF HandleUnknown, KeepHandle, HandleDescription,
                    KeepDescription, Handling, mainVars
      <4>2. Mode = "local" /\ phase < LastPhase
        BY <1>0, <4>1, ListAssumption DEF Sniffer
      <4>3. CASE HandleUnknown
        BY <4>1, <4>2, <4>3 DEF HandleUnknown, KeepHandle, Handling
      <4>4. CASE HandleDescription
        <5>1. capture' = IF AllFinished(list') THEN "broken" ELSE "on"
          BY <4>4, Zenon DEF HandleDescription, KeepDescription
        <5>2. QED
          BY <4>1, <4>2, <5>1
      <4>5. QED
        BY <2>3, <4>3, <4>4
    <3>3. \A i \in DOMAIN list' :
            i > 1 /\ list'[i].finished => list'[i].about = "full"
      BY <3>1, <3>2 DEF FinishedInv
    <3>4. capture' = "broken" => \A i \in DOMAIN list' : list'[i].finished
      BY <3>2 DEF AllFinished
    <3>5. QED
      BY <3>2, <3>3, <3>4 DEF FinishedInv, LastPhase
  <2>4. ASSUME NEW a \in Answers, Handling(a, "rem"), FillByAddress(a)
        PROVE  FinishedInv'
    <3>1. capture' = "on" /\ phase' = phase /\ (Mode = "local" => phase = LastPhase)
      BY <1>0, <2>4 DEF Handling, FillByAddress, Sniffer, mainVars
    <3>2. QED
      BY <1>0, <3>1 DEF FinishedInv, LastPhase
  <2>5. CASE FillFirst
    <3>1. capture' = "on" /\ DOMAIN list' = {1}
      BY <2>5 DEF FillFirst, TypeInv, PhaseInv
    <3>2. QED
      BY <3>1 DEF FinishedInv
  <2>6. QED
    BY <1>3, <2>1, <2>2, <2>3, <2>4, <2>5, HandlerCases
<1>4. CASE EndCapture \/ UNCHANGED vars
  BY <1>1, <1>4 DEF EndCapture, vars, mainVars
<1>5. QED
  BY <1>2, <1>3, <1>4 DEF Next, Exited

\* Only the device of the first node can be cut off by a handler's break.
THEOREM OnlyFirstCutOff == Spec => []BreakSparesOnlyFirst
<1>1. Init => FinishedInv
  BY DEF Init, FinishedInv
<1>2. TypeInv /\ FinishedInv => BreakSparesOnlyFirst
  BY DEF TypeInv, StateOK, FinishedInv, BreakSparesOnlyFirst
<1>3. QED
  BY <1>1, <1>2, NextFinishedInv, KeyInvariant, PTL DEF Spec

-----------------------------------------------------------------------------
(* Everyone is asked.                                                      *)

LEMMA NextAskedInv ==
  TypeInv /\ LookupInv /\ CountInv /\ AskedInv /\ [Next]_vars => AskedInv'
<1> SUFFICES ASSUME TypeInv, LookupInv, CountInv, AskedInv, [Next]_vars,
                    Mode = "local", phase' \in {2, 3}
             PROVE  AskedInv'
  BY DEF AskedInv
<1>0. list \in Seq(Node) /\ phase \in 1..4 /\ k \in Nat /\ count \in Int
  BY ListAssumption DEF LastPhase, TypeInv, StateOK
<1>1. ASSUME UNCHANGED <<mpc, phase, count, k, lookups>>, KeysKept,
             DOMAIN list' = DOMAIN list, Len(list') = Len(list),
             list' = <<>> <=> list = <<>>
      PROVE  AskedInv'
  BY <1>1 DEF AskedInv, KeysKept
<1>2. CASE MainStep
  <2>1. CASE Launch
    <3>1. UNCHANGED <<list, phase, lookups>> /\ hpc = "ready" /\ k' = 0
            /\ mpc = "launch" /\ count' = Requests
            /\ mpc' = IF Status = -1 /\ phase = 2 THEN "join" ELSE "send"
      BY <2>1 DEF Launch, TypeInv, StateOK, PhaseInv, netVars
    <3>2. list # <<>> => Status = Len(list)
      BY <3>1, ReadyStatus
    <3>3. list # <<>> => count' = Len(list)
      BY <1>0, <3>1, <3>2, ListAssumption DEF Requests, LastPhase, AskedInv
    <3>4. mpc' = "join" => list = <<>>
      BY <1>0, <3>1, <3>2
    <3>5. \A i \in DOMAIN list : ~(i <= 0)
      BY <1>0
    <3>6. QED
      BY <3>1, <3>3, <3>4, <3>5 DEF AskedInv
  <2>2. CASE SendLookup
    <3>1. /\ mpc = "send" /\ k + 1 \in DOMAIN list /\ k' = k + 1
          /\ UNCHANGED <<list, mpc, phase, count>>
          /\ lookups' = lookups \cup {ToListed(list[k + 1].handle)}
      BY <2>2, <1>0 DEF SendLookup
    <3>2. \A i \in DOMAIN list : i <= k' => i <= k \/ i = k + 1
      BY <1>0, <3>1
    <3>3. ToListed(list[k + 1].handle).mac = list[k + 1].mac
      BY DEF ToListed
    <3>4. \A i \in DOMAIN list : i <= k' =>
            \E r \in lookups' : r.mac = list[i].mac
      BY <3>1, <3>2, <3>3 DEF AskedInv
    <3>5. QED
      BY <3>1, <3>4 DEF AskedInv
  <2>3. CASE SendsOver
    BY <2>3 DEF SendsOver, AskedInv, netVars
  <2>4. CASE Join
    <3>1. list # <<>> /\ mpc' = "launch" => phase = 1 \/ count = Len(list)
      BY <2>4, <1>0 DEF Join, AskedInv
    <3>2. UNCHANGED <<list, count>> /\ mpc' \in {"launch", "exit"}
            /\ mpc = "join" /\ (mpc' = "exit" => phase' = phase)
            /\ (phase = 1 /\ mpc' = "launch" => phase' = 2)
      BY <2>4, <1>0 DEF Join
    <3>3. QED
      BY <1>0, <3>1, <3>2 DEF AskedInv
  <2>5. CASE SendIdentify \/ PickDevice \/ SendResolved
    BY <2>5 DEF SendIdentify, PickDevice, SendResolved, TypeInv, SendInv
  <2>6. QED
    BY <1>2, <2>1, <2>2, <2>3, <2>4, <2>5 DEF MainStep
<1>3. CASE HandlerStep
  <2>1. CASE HandleUnknown \/ HandleDescription
               \/ \E a \in Answers : Handling(a, "rem") /\ FillByAddress(a)
    <3>1. KeysKept /\ DOMAIN list' = DOMAIN list
      BY <2>1, FillKeeps
    <3>2. UNCHANGED <<mpc, phase, count, k, lookups>> /\ Len(list') = Len(list)
            /\ list' # <<>> /\ list' \in Seq(Node)
      BY <2>1, FillEffect
    <3>3. list # <<>>
      BY <1>0, <3>2
    <3>4. QED
      BY <1>1, <3>1, <3>2, <3>3
  <2>2. ASSUME NEW a \in Answers, NEW sn, sn \in {"dcp", "rem"}, Handling(a, sn),
               PublishFirst(a) \/ Append1(a)
        PROVE  FALSE
    <3>1. phase \notin {2, 3}
      BY <2>2 DEF Handling, Sniffer
    <3>2. phase' = phase
      BY <2>2 DEF PublishFirst, Append1, mainVars
    <3>3. QED
      BY <3>1, <3>2
  <2>3. CASE FillFirst
    BY <2>3 DEF FillFirst, TypeInv, StateOK, PhaseInv, mainVars
  <2>4. QED
    BY <1>3, <2>1, <2>2, <2>3, HandlerCases
<1>4. CASE EndCapture \/ UNCHANGED vars
  BY <1>4 DEF EndCapture, vars, mainVars, netVars, AskedInv
<1>5. QED
  BY <1>2, <1>3, <1>4 DEF Next, Exited

\* No device of the list is forgotten by main's walk, whatever the sniffer does
\* to the list meanwhile.
THEOREM EveryoneAsked == Spec => []EveryDeviceAsked
<1>1. Init => CountInv /\ AskedInv
  BY DEF Init, CountInv, AskedInv
<1>2. TypeInv /\ AskedInv => EveryDeviceAsked
  <2> SUFFICES ASSUME TypeInv, AskedInv, Mode = "local", mpc = "join",
                      phase \in {2, 3}, NEW i \in DOMAIN list
               PROVE  \E r \in lookups : r.mac = list[i].mac
    BY DEF EveryDeviceAsked
  <2>1. i <= k
    BY DEF AskedInv, TypeInv, StateOK
  <2>2. QED
    BY <2>1 DEF AskedInv
<1>3. QED
  BY <1>1, <1>2, NextAskedInv, NextCountInv, KeyInvariant, PTL DEF Spec

-----------------------------------------------------------------------------
(* What a handler's step does to one node.                                 *)

\* A node is one device's at most.
LEMMA OneOwner ==
  ASSUME NEW node, NEW d \in Devices, NEW e \in Devices,
         Owns(node, d), Owns(node, e)
  PROVE  d = e
  BY ListAssumption, AddressAssumption DEF Owns

\* What a filled node says is the answer's or what it said before.
LEMMA FillSays ==
  ASSUME TypeInv, NEW a \in Answers, NEW i \in DOMAIN list,
         \/ list' = [list EXCEPT ![i].handle = a.handle]
         \/ list' = [list EXCEPT ![i].about = a.kind, ![i].by = a.from,
                                 ![i].handle = a.handle]
         \/ /\ list' = [list EXCEPT ![i].about = "full", ![i].by = a.from,
                                    ![i].handle = a.handle, ![i].finished = TRUE]
            /\ a.kind = "full"
  PROVE  \/ list'[i].about = list[i].about /\ list'[i].by = list[i].by
         \/ list'[i].about = a.kind /\ list'[i].by = a.from
<1>1. list \in Seq(Node) /\ list[i] \in Node /\ i \in 1..Len(list)
  BY DEF TypeInv, StateOK
<1> DEFINE one == [list[i] EXCEPT !.handle = a.handle]
           two == [list[i] EXCEPT !.about = a.kind, !.by = a.from,
                                  !.handle = a.handle]
           three == [list[i] EXCEPT !.about = "full", !.by = a.from,
                                    !.handle = a.handle, !.finished = TRUE]
<1>2. /\ one.about = list[i].about /\ one.by = list[i].by
      /\ two.about = a.kind /\ two.by = a.from
      /\ three.about = "full" /\ three.by = a.from
  BY <1>1 DEF Node
<1>3. CASE list' = [list EXCEPT ![i].handle = a.handle]
  <2>1. list'[i] = one
    BY <1>1, <1>3
  <2>2. QED
    BY <1>2, <1>3, <2>1
<1>4. CASE list' = [list EXCEPT ![i].about = a.kind, ![i].by = a.from,
                                ![i].handle = a.handle]
  <2>1. list'[i] = two
    BY <1>1, <1>4
  <2>2. QED
    BY <1>2, <2>1
<1>5. CASE /\ list' = [list EXCEPT ![i].about = "full", ![i].by = a.from,
                                   ![i].handle = a.handle, ![i].finished = TRUE]
           /\ a.kind = "full"
  <2>1. list'[i] = three
    BY <1>1, <1>5
  <2>2. QED
    BY <1>2, <1>5, <2>1
<1>6. QED
  BY <1>3, <1>4, <1>5

\* The node an answer fills.
FilledBy(a, i) ==
  /\ MayCome(a) /\ a.kind # "identify"
  /\ DOMAIN list' = DOMAIN list
  /\ \A j \in DOMAIN list \ {i} : list'[j] = list[j]
  /\ list'[i].mac = list[i].mac /\ list'[i].ip = list[i].ip
  /\ list'[i].handle = a.handle
  /\ \/ list'[i].about = list[i].about /\ list'[i].by = list[i].by
     \/ list'[i].about = a.kind /\ list'[i].by = a.from

\* The node is the sender's, or one that the remote handler of a local scan
\* takes for the sender's because its DCP answer had no address.
LEMMA FillCases ==
  ASSUME TypeInv, SenderInv,
         HandleUnknown \/ HandleDescription
           \/ \E a \in Answers :
                Handling(a, "rem") /\ a.kind # "identify" /\ FillByAddress(a)
  PROVE  /\ hpc = "ready" /\ hpc' = "ready"
         /\ UNCHANGED <<phase, lookups, asked>>
         /\ \E a \in Answers, i \in DOMAIN list :
              /\ FilledBy(a, i)
              /\ \/ /\ Owns(list[i], a.from)
                    /\ list'[i].by = a.from \/ phase < LastPhase
                 \/ /\ Mode = "local" /\ phase = LastPhase
                    /\ \E d \in NoIpBlock : Owns(list[i], d)
<1>0. /\ NoIpBlock \subseteq Devices /\ Mode \in {"local", "remote"}
      /\ LastPhase = IF Mode = "local" THEN 4 ELSE 3
      /\ phase \in 1..LastPhase /\ list \in Seq(Node)
  BY ListAssumption DEF LastPhase, TypeInv, StateOK
<1> USE DEF mainVars, netVars
<1>1. ASSUME NEW a \in Answers, NEW i \in DOMAIN list, MayCome(a),
             a.kind # "identify",
             \/ list' = [list EXCEPT ![i].handle = a.handle]
             \/ list' = [list EXCEPT ![i].about = a.kind, ![i].by = a.from,
                                     ![i].handle = a.handle]
             \/ /\ list' = [list EXCEPT ![i].about = "full", ![i].by = a.from,
                                        ![i].handle = a.handle,
                                        ![i].finished = TRUE]
                /\ a.kind = "full"
      PROVE  FilledBy(a, i)
  <2>1. /\ DOMAIN list' = DOMAIN list
        /\ \A j \in DOMAIN list \ {i} : list'[j] = list[j]
        /\ list'[i].handle = a.handle
        /\ list'[i].mac = list[i].mac /\ list'[i].ip = list[i].ip
    <3>1. CASE list' = [list EXCEPT ![i].handle = a.handle]
      BY <3>1, FillOne
    <3>2. CASE list' = [list EXCEPT ![i].about = a.kind, ![i].by = a.from,
                                    ![i].handle = a.handle]
      BY <3>2, FillOne
    <3>3. CASE list' = [list EXCEPT ![i].about = "full", ![i].by = a.from,
                                    ![i].handle = a.handle, ![i].finished = TRUE]
      BY <3>3, FillOne
    <3>4. QED
      BY <1>1, <3>1, <3>2, <3>3, Zenon
  <2>2. \/ list'[i].about = list[i].about /\ list'[i].by = list[i].by
        \/ list'[i].about = a.kind /\ list'[i].by = a.from
    BY <1>1, FillSays
  <2>3. QED
    BY <1>1, <2>1, <2>2 DEF FilledBy
<1>2. CASE HandleUnknown
  <2>1. PICK a \in Answers, i \in DOMAIN list :
          /\ Handling(a, "ip") /\ a.kind = "unknown" /\ i \in SameMac(a.from)
          /\ list' = [list EXCEPT ![i].handle = a.handle]
          /\ UNCHANGED <<hpc, phase, lookups, asked>>
    BY <1>2 DEF HandleUnknown, KeepHandle, IsFirst
  <2>2. hpc = "ready" /\ MayCome(a) /\ Mode = "local" /\ phase < LastPhase
    BY <1>0, <2>1 DEF Handling, Sniffer
  <2>3. FilledBy(a, i)
    BY <1>1, <2>1, <2>2
  <2>4. Owns(list[i], a.from)
    BY <2>1, <2>2 DEF SameMac, Owns
  <2>5. QED
    BY <2>1, <2>2, <2>3, <2>4
<1>3. CASE HandleDescription
  <2>1. PICK a \in Answers, i \in DOMAIN list :
          /\ Handling(a, "ip") /\ a.kind = "full" /\ i \in SameMac(a.from)
          /\ list' = [list EXCEPT ![i].about = "full", ![i].by = a.from,
                                  ![i].handle = a.handle, ![i].finished = TRUE]
          /\ UNCHANGED <<hpc, phase, lookups, asked>>
    BY <1>3 DEF HandleDescription, KeepDescription, IsFirst
  <2>2. hpc = "ready" /\ MayCome(a) /\ Mode = "local" /\ phase < LastPhase
    BY <1>0, <2>1 DEF Handling, Sniffer
  <2>3. FilledBy(a, i)
    BY <1>1, <2>1, <2>2
  <2>4. Owns(list[i], a.from)
    BY <2>1, <2>2 DEF SameMac, Owns
  <2>5. QED
    BY <2>1, <2>2, <2>3, <2>4
<1>4. CASE \E a \in Answers :
             Handling(a, "rem") /\ a.kind # "identify" /\ FillByAddress(a)
  <2>1. PICK a \in Answers, i \in DOMAIN list :
          /\ Handling(a, "rem") /\ a.kind # "identify" /\ i \in SameIp(a.from)
          /\ list' = [list EXCEPT ![i].about = a.kind, ![i].by = a.from,
                                  ![i].handle = a.handle]
          /\ UNCHANGED <<hpc, phase, lookups, asked>>
    BY <1>4 DEF FillByAddress, IsFirst
  <2>2. hpc = "ready" /\ MayCome(a) /\ (Mode = "local" => phase = LastPhase)
    BY <1>0, <2>1 DEF Handling, Sniffer
  <2>3. FilledBy(a, i)
    BY <1>1, <2>1, <2>2
  <2>4. list'[i].by = a.from
    <3>1. list[i] \in Node
      BY <1>0
    <3> DEFINE two == [list[i] EXCEPT !.about = a.kind, !.by = a.from,
                                      !.handle = a.handle]
    <3>2. list'[i] = two
      BY <1>0, <2>1
    <3>3. two.by = a.from
      BY <3>1 DEF Node
    <3>4. QED
      BY <3>2, <3>3
  <2>5. a.from \in Devices /\ list[i].ip = IpOf[a.from]
    BY <2>1 DEF Answers, SameIp
  <2>6. CASE Mode = "remote"
    BY <2>1, <2>2, <2>3, <2>4, <2>5, <2>6 DEF Owns
  <2>7. CASE Mode = "local"
    <3>1. PICK d \in Devices :
            /\ list[i].mac = MacOf[d]
            /\ list[i].ip = IpOf[d] \/ d \in NoIpBlock
      BY <2>2 DEF SenderInv
    <3>2. CASE list[i].ip = IpOf[d]
      <4>1. d = a.from
        BY <2>5, <3>2, AddressAssumption
      <4>2. Owns(list[i], a.from)
        BY <2>7, <3>1, <4>1 DEF Owns
      <4>3. QED
        BY <2>1, <2>2, <2>3, <2>4, <4>2
    <3>3. CASE d \in NoIpBlock
      <4>1. Owns(list[i], d)
        BY <2>7, <3>1 DEF Owns
      <4>2. QED
        BY <2>1, <2>2, <2>3, <2>7, <3>3, <4>1
    <3>4. QED
      BY <3>1, <3>2, <3>3
  <2>8. QED
    BY <1>0, <2>6, <2>7
<1>5. QED
  BY <1>2, <1>3, <1>4

\* The node a handler adds, or fills for the first time.
NewFrom(a, node) ==
  /\ a \in Answers /\ MayCome(a) /\ (Mode = "remote" => a.kind # "identify")
  /\ node.mac = MacOf[a.from] /\ node.ip \in AddressIn(a)
  /\ node.about = a.kind /\ node.by = a.from
  /\ node.handle \in {NoHandle, a.handle}

\* It is the sender's, and nobody else's.
LEMMA NewIsSenders ==
  ASSUME NEW a, NEW node, NewFrom(a, node)
  PROVE  /\ a.from \in Devices /\ a.kind \in {"identify", "unknown", "full"}
         /\ \A d \in Devices :
              Owns(node, d) <=> d = a.from
         /\ node.mac = MacOf[a.from]
         /\ node.ip = IpOf[a.from] \/ (Mode = "local" /\ a.from \in NoIpBlock)
         /\ node.handle \in Devices => node.handle = a.from
         /\ node.by = a.from
<1>1. a \in Answers /\ a.from \in Devices /\ a.handle \in {a.from, NoHandle}
        /\ a.kind \in {"identify", "unknown", "full"}
  BY DEF NewFrom, Answers
<1>2. node.mac = MacOf[a.from]
        /\ (node.ip = IpOf[a.from] \/ (Mode = "local" /\ a.from \in NoIpBlock))
  BY <1>1, ListAssumption DEF NewFrom, AddressIn
<1>3. Owns(node, a.from)
  BY <1>2 DEF Owns
<1>4. \A d \in Devices : Owns(node, d) <=> d = a.from
  BY <1>1, <1>3, OneOwner
<1>5. node.handle \in Devices => node.handle = a.from
  BY <1>1, DistinctAssumption DEF NewFrom
<1>6. QED
  BY <1>1, <1>2, <1>4, <1>5 DEF NewFrom

\* A node is added at the end.
Added(a) ==
  /\ NewFrom(a, list'[Len(list) + 1])
  /\ DOMAIN list' = DOMAIN list \cup {Len(list) + 1}
  /\ \A i \in DOMAIN list : list'[i] = list[i]

LEMMA AppendAdds ==
  ASSUME TypeInv, NEW a \in Answers, Append1(a), MayCome(a),
         Mode = "remote" => a.kind # "identify"
  PROVE  Added(a)
<1>1. PICK ip \in AddressIn(a) :
        /\ list' = Append(list, NewNode(a, NextIndex, ip, FALSE))
        /\ list'[Len(list) + 1] = NewNode(a, NextIndex, ip, FALSE)
        /\ DOMAIN list' = DOMAIN list \cup {Len(list) + 1}
  BY AppendKeeps
<1> DEFINE node == NewNode(a, NextIndex, ip, FALSE)
<1>2. list \in Seq(Node) /\ node \in Node
  BY NextIndexType, NewNodeType DEF TypeInv, StateOK, Append1
<1>3. NewFrom(a, node)
  BY DEF NewFrom, NewNode
<1>4. list' = Append(list, node) /\ list'[Len(list) + 1] = node
  BY <1>1
<1> HIDE DEF node
<1>5. \A i \in DOMAIN list : list'[i] = list[i]
  BY <1>2, <1>4
<1>6. QED
  BY <1>1, <1>3, <1>4, <1>5 DEF Added

\* The first node is filled.
LEMMA FillFirstAdds ==
  ASSUME SenderInv, FillFirst, taken \in Answers
  PROVE  DOMAIN list' = {1} /\ NewFrom(taken, list'[1])
<1>1. PICK ip \in AddressIn(taken) :
        list' = <<NewNode(taken, 0, ip, list[1].finished)>>
  BY DEF FillFirst
<1>2. MayCome(taken) /\ (Mode = "remote" => taken.kind # "identify")
  BY DEF FillFirst, SenderInv
<1>3. list'[1] = NewNode(taken, 0, ip, list[1].finished) /\ DOMAIN list' = {1}
  BY <1>1
<1>4. NewFrom(taken, NewNode(taken, 0, ip, list[1].finished))
  BY <1>2 DEF NewFrom, NewNode
<1>5. QED
  BY <1>3, <1>4

\* The cases of a step of a handler, told by what they do to the list.
LEMMA ListCases ==
  ASSUME TypeInv, LookupInv, SenderInv, HandlerStep
  PROVE  /\ UNCHANGED <<phase, lookups, asked>>
         /\ \/ \E a \in Answers, finished \in BOOLEAN :
                 /\ hpc = "ready" /\ hpc' = "creating" /\ taken' = a
                 /\ MayCome(a) /\ (Mode = "remote" => a.kind # "identify")
                 /\ list = <<>> /\ list' = <<Unset(finished)>>
            \/ /\ hpc = "creating" /\ hpc' = "ready"
               /\ DOMAIN list' = {1} /\ NewFrom(taken, list'[1])
            \/ \E a \in Answers :
                 /\ hpc = "ready" /\ hpc' = "ready" /\ Added(a)
                 /\ \A i \in DOMAIN list : ~Owns(list[i], a.from)
            \/ HandleUnknown \/ HandleDescription
                 \/ \E a \in Answers : Handling(a, "rem")
                      /\ a.kind # "identify" /\ FillByAddress(a)
<1> USE DEF mainVars, netVars
<1>0. Mode \in {"local", "remote"}
  BY ListAssumption
<1>1. ASSUME NEW a \in Answers, NEW sn, Handling(a, sn), PublishFirst(a),
             Mode = "remote" => a.kind # "identify"
      PROVE  /\ UNCHANGED <<phase, lookups, asked>>
             /\ \E finished \in BOOLEAN :
                  /\ hpc = "ready" /\ hpc' = "creating" /\ taken' = a
                  /\ MayCome(a) /\ (Mode = "remote" => a.kind # "identify")
                  /\ list = <<>> /\ list' = <<Unset(finished)>>
  BY <1>1 DEF PublishFirst, Handling
<1>2. ASSUME NEW a \in Answers, NEW sn, Handling(a, sn), Append1(a),
             Mode = "remote" => a.kind # "identify"
      PROVE  /\ UNCHANGED <<phase, lookups, asked>>
             /\ hpc = "ready" /\ hpc' = "ready" /\ Added(a)
  BY <1>2, AppendAdds DEF Append1, Handling
<1>3. CASE HandleIdentify
  <2>1. PICK a \in Answers :
          /\ Handling(a, "dcp") /\ a.kind = "identify"
          /\ PublishFirst(a) \/ (SameMac(a.from) = {} /\ Append1(a))
    BY <1>3 DEF HandleIdentify, ListSender
  <2>2. Mode = "local"
    BY <1>0, <2>1 DEF Handling, Sniffer
  <2>3. SameMac(a.from) = {} => \A i \in DOMAIN list : ~Owns(list[i], a.from)
    BY <2>2 DEF SameMac, Owns
  <2>4. QED
    BY <1>1, <1>2, <2>1, <2>2, <2>3
<1>4. CASE HandleRemote
  <2>1. PICK a \in Answers :
          /\ Handling(a, "rem") /\ a.kind # "identify"
          /\ \/ PublishFirst(a) \/ FillByAddress(a)
             \/ SameIp(a.from) = {} /\ Append1(a)
    BY <1>4 DEF HandleRemote
  \* A local scan asked the device at the address of its node: it is there.
  <2>2. SameIp(a.from) = {} => Mode = "remote"
    <3>1. PICK r \in lookups : Reaches(r, a.from)
      BY <2>1 DEF Handling, MayCome
    <3>2. Mode = "local" => \E i \in DOMAIN list : list[i].ip = IpOf[a.from]
      BY <3>1 DEF LookupInv, Reaches
    <3>3. QED
      BY <1>0, <3>2 DEF SameIp
  <2>3. SameIp(a.from) = {} => \A i \in DOMAIN list : ~Owns(list[i], a.from)
    BY <2>2 DEF SameIp, Owns
  <2>4. CASE FillByAddress(a)
    BY <2>1, <2>4 DEF FillByAddress
  <2>5. CASE PublishFirst(a)
    BY <1>1, <2>1, <2>5
  <2>6. CASE SameIp(a.from) = {} /\ Append1(a)
    BY <1>2, <2>1, <2>3, <2>6
  <2>7. QED
    BY <2>1, <2>4, <2>5, <2>6
<1>5. CASE FillFirst
  <2>1. taken \in Answers /\ hpc = "creating" /\ hpc' = "ready"
          /\ UNCHANGED <<phase, lookups, asked>>
    BY <1>5 DEF FillFirst, TypeInv, StateOK
  <2>2. QED
    BY <1>5, <2>1, FillFirstAdds
<1>6. CASE HandleUnknown \/ HandleDescription
  BY <1>6 DEF HandleUnknown, KeepHandle, HandleDescription, KeepDescription
<1>7. QED
  BY <1>3, <1>4, <1>5, <1>6 DEF HandlerStep

-----------------------------------------------------------------------------
(* Answers stay with their senders.                                        *)

\* What the nodes' senders are does not change while the list does not, and the
\* last phase is not left.
LEMMA SameSenders ==
  ASSUME TypeInv, SenderInv, UNCHANGED <<list, hpc, taken>>,
         asked => asked', lookups \subseteq lookups',
         phase = LastPhase => phase' = LastPhase
  PROVE  SenderInv'
<1>1. MayCome(taken) => MayCome(taken)'
  BY DEF MayCome, Reaches
<1>2. AnswersStayWithSender'
  BY DEF SenderInv, AnswersStayWithSender, Owns, LastPhase
<1>3. QED
  BY <1>1, <1>2 DEF SenderInv, Unset

LEMMA NextSenderInv ==
  TypeInv /\ LookupInv /\ FlagsOK /\ SenderInv /\ [Next]_vars => SenderInv'
<1> SUFFICES ASSUME TypeInv, LookupInv, FlagsOK, SenderInv, [Next]_vars
             PROVE  SenderInv'
  OBVIOUS
<1>0. LastPhase \in {3, 4} /\ phase \in 1..LastPhase /\ list \in Seq(Node)
        /\ hpc \in {"ready", "creating"} /\ NoIpBlock \subseteq Devices
  BY ListAssumption DEF LastPhase, TypeInv, StateOK
<1>1. CASE MainStep
  BY <1>0, <1>1, SameSenders
  DEF MainStep, Launch, SendIdentify, SendLookup, PickDevice, SendResolved,
      SendsOver, Join, mainVars, netVars
<1>2. CASE EndCapture \/ UNCHANGED vars
  BY <1>2, SameSenders DEF EndCapture, vars, mainVars, netVars
<1>3. CASE HandlerStep
  <2>0. UNCHANGED <<phase, lookups, asked>>
    BY <1>3, ListCases
  <2> DEFINE Fits(node) == \E d \in Devices :
               /\ node.mac = MacOf[d]
               /\ node.ip = IpOf[d] \/ (Mode = "local" /\ d \in NoIpBlock)
             Stays(node) ==
               \/ /\ node.handle \in Devices => Owns(node, node.handle)
                  /\ node.by \in Devices => Owns(node, node.by)
               \/ phase = LastPhase /\ \E d \in NoIpBlock : Owns(node, d)
  <2>1. ASSUME hpc' = "ready",
               \A i \in DOMAIN list' : Fits(list'[i]) /\ Stays(list'[i])
        PROVE  SenderInv'
    BY <2>0, <2>1 DEF SenderInv, AnswersStayWithSender, Owns, LastPhase
  <2>2. ASSUME NEW a, NEW node, NewFrom(a, node)
        PROVE  Fits(node) /\ Stays(node)
    BY <2>2, NewIsSenders
  <2>3. hpc = "ready" => \A i \in DOMAIN list : Fits(list[i])
    BY DEF SenderInv
  <2>4. \A i \in DOMAIN list : Stays(list[i])
    BY DEF SenderInv, AnswersStayWithSender
  <2>5. ASSUME NEW a \in Answers, NEW finished \in BOOLEAN,
               hpc' = "creating", taken' = a, MayCome(a),
               Mode = "remote" => a.kind # "identify",
               list' = <<Unset(finished)>>
        PROVE  SenderInv'
    <3>1. MayCome(taken)'
      BY <2>0, <2>5 DEF MayCome, Reaches
    <3>2. DOMAIN list' = {1} /\ list'[1].by = Junk /\ list'[1].handle = JunkHandle
      BY <2>5 DEF Unset
    <3>3. AnswersStayWithSender'
      BY <3>2, DistinctAssumption DEF AnswersStayWithSender
    <3>4. (\E f \in BOOLEAN : list = <<Unset(f)>>)'
      BY <2>5 DEF Unset
    <3>5. QED
      BY <2>5, <3>1, <3>3, <3>4 DEF SenderInv
  <2>6. ASSUME hpc' = "ready", DOMAIN list' = {1}, NewFrom(taken, list'[1])
        PROVE  SenderInv'
    BY <2>1, <2>2, <2>6
  <2>7. ASSUME NEW a \in Answers, hpc = "ready", hpc' = "ready", Added(a)
        PROVE  SenderInv'
    <3>1. NewFrom(a, list'[Len(list) + 1])
            /\ DOMAIN list' = DOMAIN list \cup {Len(list) + 1}
            /\ \A i \in DOMAIN list : list'[i] = list[i]
      BY <2>7 DEF Added
    <3>2. Fits(list'[Len(list) + 1]) /\ Stays(list'[Len(list) + 1])
      BY <2>2, <3>1
    <3>3. \A i \in DOMAIN list : Fits(list'[i]) /\ Stays(list'[i])
      BY <2>3, <2>4, <2>7, <3>1
    <3>4. \A i \in DOMAIN list' : Fits(list'[i]) /\ Stays(list'[i])
      BY <3>1, <3>2, <3>3
    <3>5. QED
      BY <2>1, <2>7, <3>4
  <2>8. CASE HandleUnknown \/ HandleDescription
               \/ \E a \in Answers : Handling(a, "rem")
                    /\ a.kind # "identify" /\ FillByAddress(a)
    <3>1. hpc = "ready" /\ hpc' = "ready"
      BY <2>8, FillCases
    <3>2. PICK a \in Answers, i \in DOMAIN list :
            /\ FilledBy(a, i)
            /\ \/ /\ Owns(list[i], a.from)
                  /\ list'[i].by = a.from \/ phase < LastPhase
               \/ /\ Mode = "local" /\ phase = LastPhase
                  /\ \E d \in NoIpBlock : Owns(list[i], d)
      BY <2>8, FillCases
    <3>3. /\ DOMAIN list' = DOMAIN list
          /\ \A j \in DOMAIN list \ {i} : list'[j] = list[j]
          /\ list'[i].mac = list[i].mac /\ list'[i].ip = list[i].ip
          /\ list'[i].handle = a.handle
          /\ list'[i].by = list[i].by \/ list'[i].by = a.from
      BY <3>2 DEF FilledBy
    <3>4. \A d \in Devices : Owns(list'[i], d) <=> Owns(list[i], d)
      BY <3>3 DEF Owns
    <3>5. Fits(list'[i])
      BY <2>3, <3>1, <3>3
    <3>6. Stays(list'[i])
      <4>1. CASE phase = LastPhase /\ \E d \in NoIpBlock : Owns(list[i], d)
        BY <1>0, <3>4, <4>1
      <4>2. CASE /\ Owns(list[i], a.from)
                 /\ list'[i].by = a.from \/ phase < LastPhase
        <5>1. a.from \in Devices /\ a.handle \in {a.from, NoHandle}
          BY DEF Answers
        <5>2. list'[i].handle \in Devices => Owns(list'[i], list'[i].handle)
          BY <3>3, <3>4, <4>2, <5>1, DistinctAssumption
        <5>3. CASE list'[i].by = a.from
          BY <3>4, <4>2, <5>1, <5>2, <5>3
        <5>4. CASE list'[i].by = list[i].by /\ phase < LastPhase
          <6>1. list[i].by \in Devices => Owns(list[i], list[i].by)
            BY <1>0, <2>4, <5>4
          <6>2. QED
            BY <3>4, <5>2, <5>4, <6>1
        <5>5. QED
          BY <3>3, <4>2, <5>3, <5>4
      <4>3. QED
        BY <3>2, <4>1, <4>2
    <3>7. \A j \in DOMAIN list' : Fits(list'[j]) /\ Stays(list'[j])
      BY <2>3, <2>4, <3>1, <3>3, <3>5, <3>6
    <3>8. QED
      BY <2>1, <3>1, <3>7
  <2>9. QED
    BY <1>3, <2>5, <2>6, <2>7, <2>8, ListCases
<1>4. QED
  BY <1>1, <1>2, <1>3 DEF Next, Exited

LEMMA SenderInvariant == Spec => []SenderInv
<1>1. Init => SenderInv
  BY DEF Init, SenderInv, AnswersStayWithSender
<1>2. QED
  BY <1>1, NextSenderInv, KeyInvariant, PTL DEF Spec

\* A node's description and its handle are never another device's, but in a
\* local scan's node whose DCP answer had no address.
THEOREM AnswersStay == Spec => []AnswersStayWithSender
<1>1. SenderInv => AnswersStayWithSender
  BY DEF SenderInv
<1>2. QED
  BY <1>1, SenderInvariant, PTL

-----------------------------------------------------------------------------
(* The list implements the inventory.                                      *)

\* Listed, NodeOf and the inventory, of any list of nodes.
ListedIn(nodes) ==
  {d \in Devices \ NoIpBlock : \E i \in DOMAIN nodes : Owns(nodes[i], d)}

NodeIn(nodes, d) == CHOOSE i \in DOMAIN nodes : Owns(nodes[i], d)

Told(nodes) == [d \in ListedIn(nodes) |-> nodes[NodeIn(nodes, d)].about]

Once(nodes) ==
  \A i, j \in DOMAIN nodes : \A d \in Devices :
    Owns(nodes[i], d) /\ Owns(nodes[j], d) => i = j

\* What the devices may have said.
Said ==
  [d \in Devices |->
     {kind \in {"identify", "unknown", "full"} :
        \E a \in Answers : a.kind = kind /\ a.from = d /\ MayCome(a)}]

LEMMA NodeInIs ==
  ASSUME NEW nodes, Once(nodes), NEW d \in Devices, NEW i \in DOMAIN nodes,
         Owns(nodes[i], d)
  PROVE  NodeIn(nodes, d) = i
<1>1. NodeIn(nodes, d) \in DOMAIN nodes /\ Owns(nodes[NodeIn(nodes, d)], d)
  BY DEF NodeIn
<1>2. QED
  BY <1>1 DEF Once

\* What is told of the others than d, when nodes keep their owners and only nodes
\* of d are new or say something new.
LEMMA ToldKept ==
  ASSUME NEW old, NEW new, Once(old), Once(new), DOMAIN old \subseteq DOMAIN new,
         \A i \in DOMAIN old : \A e \in Devices :
           Owns(new[i], e) <=> Owns(old[i], e),
         NEW d \in Devices,
         \A i \in DOMAIN new \ DOMAIN old : \A e \in Devices \ NoIpBlock :
           ~Owns(new[i], e) \/ e = d,
         \A i \in DOMAIN old :
           \/ new[i].about = old[i].about
           \/ \A e \in Devices \ NoIpBlock : ~Owns(old[i], e) \/ e = d
  PROVE  /\ ListedIn(new) \ {d} = ListedIn(old) \ {d}
         /\ d \in ListedIn(old) => d \in ListedIn(new)
         /\ \A e \in ListedIn(old) \ {d} : Told(new)[e] = Told(old)[e]
<1>1. ListedIn(new) \ {d} = ListedIn(old) \ {d}
  BY DEF ListedIn
<1>2. d \in ListedIn(old) => d \in ListedIn(new)
  BY DEF ListedIn
<1>3. ASSUME NEW e \in ListedIn(old) \ {d} PROVE Told(new)[e] = Told(old)[e]
  <2>1. PICK i \in DOMAIN old : Owns(old[i], e) /\ e \in Devices \ NoIpBlock
    BY <1>3 DEF ListedIn
  <2>2. NodeIn(old, e) = i
    BY <2>1, NodeInIs
  <2>3. NodeIn(new, e) = i
    BY <2>1, NodeInIs
  <2>4. new[i].about = old[i].about
    BY <1>3, <2>1
  <2>5. e \in ListedIn(new)
    BY <1>1, <1>3
  <2>6. Told(new)[e] = new[i].about /\ Told(old)[e] = old[i].about
    BY <1>3, <2>2, <2>3, <2>5 DEF Told
  <2>7. QED
    BY <2>4, <2>6
<1>4. QED
  BY <1>1, <1>2, <1>3

\* What devices may say grows with the requests, and stays while those do.
LEMMA SaidGrows ==
  ASSUME asked => asked', lookups \subseteq lookups'
  PROVE  \A d \in Devices : Said[d] \subseteq Said'[d]
  BY DEF Said, MayCome, Reaches

LEMMA SaidStays == ASSUME UNCHANGED <<asked, lookups>> PROVE Said' = Said
  BY DEF Said, MayCome, Reaches

LEMMA QuietStep ==
  ASSUME asked => asked', lookups \subseteq lookups', Told(list') = Told(list)
  PROVE  I!Next
<1>1. (Said \in [Devices -> SUBSET I!Kinds])'
  BY DEF Said, I!Kinds
<1>2. I!Say
  BY <1>1, SaidGrows
  DEF I!Say, I!Kinds, Said, Told, Listed, ListedIn, NodeOf, NodeIn
<1>3. QED
  BY <1>2 DEF I!Next

\* A new node of a.from, which had none.
LEMMA DiscoverStep ==
  ASSUME UNCHANGED <<asked, lookups>>, NEW a \in Answers, MayCome(a),
         a.from \notin ListedIn(list),
         ListedIn(list') = ListedIn(list) \cup {a.from},
         Told(list')[a.from] = a.kind,
         \A e \in ListedIn(list) : Told(list')[e] = Told(list)[e]
  PROVE  I!Next
<1>1. a.from \in Devices /\ a.kind \in {"identify", "unknown", "full"}
        /\ a.kind \in Said[a.from]
  BY DEF Answers, Said
<1>2. Told(list') = [e \in ListedIn(list) \cup {a.from} |->
                       IF e = a.from THEN a.kind ELSE Told(list)[e]]
  BY DEF Told
<1>3. DOMAIN Told(list) = ListedIn(list)
  BY DEF Told
<1>4. I!Discover(a.from, a.kind)
  BY <1>1, <1>2, <1>3, SaidStays
  DEF I!Discover, Said, Told, Listed, ListedIn, NodeOf, NodeIn
<1>5. QED
  BY <1>1, <1>4 DEF I!Next, I!Kinds

\* a.from is told anew.
LEMMA DescribeStep ==
  ASSUME UNCHANGED <<asked, lookups>>, NEW a \in Answers, MayCome(a),
         a.kind # "identify", a.from \in ListedIn(list),
         ListedIn(list') = ListedIn(list), Told(list')[a.from] = a.kind,
         \A e \in ListedIn(list) \ {a.from} : Told(list')[e] = Told(list)[e]
  PROVE  I!Next
<1>1. a.from \in Devices /\ a.kind \in {"identify", "unknown", "full"}
        /\ a.kind \in Said[a.from] \ {"identify"}
  BY DEF Answers, Said
<1>2. Told(list') = [Told(list) EXCEPT ![a.from] = a.kind]
  BY DEF Told
<1>3. DOMAIN Told(list) = ListedIn(list)
  BY DEF Told
<1>4. I!Describe(a.from, a.kind)
  BY <1>1, <1>2, <1>3, SaidStays
  DEF I!Describe, Said, Told, Listed, ListedIn, NodeOf, NodeIn
<1>5. QED
  BY <1>1, <1>4 DEF I!Next, I!Kinds

\* A node that nobody owns lists nobody.
LEMMA UnsetLists ==
  ASSUME NEW finished
  PROVE  ListedIn(<<Unset(finished)>>) = {}
<1>1. ASSUME NEW d \in Devices PROVE ~Owns(Unset(finished), d)
  BY <1>1, DistinctAssumption DEF Owns, Unset, Macs, Ips
<1>2. QED
  BY <1>1 DEF ListedIn

LEMMA EmptyTold ==
  ASSUME NEW old, NEW new, ListedIn(old) = {}, ListedIn(new) = {}
  PROVE  Told(new) = Told(old)
  BY DEF Told

LEMMA HandlerInventory ==
  ASSUME TypeInv, LookupInv, SenderInv, OneNodePerDevice, OneNodePerDevice',
         HandlerStep
  PROVE  I!Next
<1>0. UNCHANGED <<phase, lookups, asked>> /\ list \in Seq(Node)
  BY ListCases DEF TypeInv, StateOK
<1>1. Once(list) /\ Once(list')
  BY DEF OneNodePerDevice, Once, Owns
<1>2. ASSUME NEW finished \in BOOLEAN, list = <<>>, list' = <<Unset(finished)>>
      PROVE  I!Next
  <2>1. ListedIn(list) = {} /\ ListedIn(list') = {}
    BY <1>2, UnsetLists DEF ListedIn
  <2>2. QED
    BY <1>0, <2>1, EmptyTold, QuietStep
<1>3. ASSUME hpc = "creating", DOMAIN list' = {1}, NewFrom(taken, list'[1])
      PROVE  I!Next
  <2>1. ListedIn(list) = {}
    BY <1>3, UnsetLists DEF SenderInv
  <2>2. taken \in Answers /\ MayCome(taken) /\ list'[1].about = taken.kind
          /\ taken.from \in Devices
          /\ \A d \in Devices : Owns(list'[1], d) <=> d = taken.from
    BY <1>3, NewIsSenders DEF NewFrom
  <2>3. CASE taken.from \in NoIpBlock
    <3>1. ListedIn(list') = {}
      BY <1>3, <2>2, <2>3 DEF ListedIn
    <3>2. QED
      BY <1>0, <2>1, <3>1, EmptyTold, QuietStep
  <2>4. CASE taken.from \notin NoIpBlock
    <3>1. ListedIn(list') = {taken.from}
      BY <1>3, <2>2, <2>4 DEF ListedIn
    <3>2. NodeIn(list', taken.from) = 1
      BY <1>1, <1>3, <2>2, NodeInIs
    <3>3. Told(list')[taken.from] = taken.kind
      BY <2>2, <3>1, <3>2 DEF Told
    <3>4. QED
      BY <1>0, <2>1, <2>2, <3>1, <3>3, DiscoverStep
  <2>5. QED
    BY <2>3, <2>4
<1>4. ASSUME NEW a \in Answers, Added(a), \A i \in DOMAIN list : ~Owns(list[i], a.from)
      PROVE  I!Next
  <2> DEFINE n == Len(list) + 1
  <2>1. /\ NewFrom(a, list'[n]) /\ DOMAIN list' = DOMAIN list \cup {n}
        /\ \A i \in DOMAIN list : list'[i] = list[i]
    BY <1>4 DEF Added
  <2>2. a.from \in Devices /\ MayCome(a) /\ list'[n].about = a.kind
          /\ \A d \in Devices : Owns(list'[n], d) <=> d = a.from
    BY <2>1, NewIsSenders DEF NewFrom
  <2>3. a.from \notin ListedIn(list)
    BY <1>4 DEF ListedIn
  <2> HIDE DEF n
  <2>4. /\ ListedIn(list') \ {a.from} = ListedIn(list) \ {a.from}
        /\ \A e \in ListedIn(list) \ {a.from} : Told(list')[e] = Told(list)[e]
    BY <1>1, <2>1, <2>2, ToldKept
  <2>5. CASE a.from \in NoIpBlock
    <3>1. ListedIn(list') = ListedIn(list)
      BY <2>3, <2>4, <2>5 DEF ListedIn
    <3>2. Told(list') = Told(list)
      BY <2>3, <2>4, <3>1 DEF Told
    <3>3. QED
      BY <1>0, <3>2, QuietStep
  <2>6. CASE a.from \notin NoIpBlock
    <3>1. a.from \in ListedIn(list')
      BY <2>1, <2>2, <2>6 DEF ListedIn
    <3>2. ListedIn(list') = ListedIn(list) \cup {a.from}
      BY <2>3, <2>4, <3>1
    <3>3. NodeIn(list', a.from) = n
      BY <1>1, <2>1, <2>2, NodeInIs
    <3>4. Told(list')[a.from] = a.kind
      BY <2>2, <3>1, <3>3 DEF Told
    <3>5. QED
      BY <1>0, <2>2, <2>3, <2>4, <3>2, <3>4, DiscoverStep
  <2>7. QED
    BY <2>5, <2>6
<1>5. CASE HandleUnknown \/ HandleDescription
             \/ \E a \in Answers : Handling(a, "rem")
                  /\ a.kind # "identify" /\ FillByAddress(a)
  <2>1. PICK a \in Answers, i \in DOMAIN list :
          /\ FilledBy(a, i)
          /\ \/ Owns(list[i], a.from)
             \/ Mode = "local" /\ \E d \in NoIpBlock : Owns(list[i], d)
    BY <1>5, FillCases
  <2>2. /\ DOMAIN list' = DOMAIN list /\ MayCome(a) /\ a.kind # "identify"
        /\ \A j \in DOMAIN list \ {i} : list'[j] = list[j]
        /\ list'[i].mac = list[i].mac /\ list'[i].ip = list[i].ip
        /\ list'[i].about = list[i].about \/ list'[i].about = a.kind
        /\ a.from \in Devices
    BY <2>1 DEF FilledBy, Answers
  <2>3. \A j \in DOMAIN list : \A e \in Devices :
          Owns(list'[j], e) <=> Owns(list[j], e)
    BY <2>2 DEF Owns
  <2>4. \A e \in Devices \ NoIpBlock : ~Owns(list[i], e) \/ e = a.from
    BY <2>1, <2>2, OneOwner, ListAssumption
  <2>5. /\ ListedIn(list') \ {a.from} = ListedIn(list) \ {a.from}
        /\ \A e \in ListedIn(list) \ {a.from} : Told(list')[e] = Told(list)[e]
    BY <1>1, <2>2, <2>3, <2>4, ToldKept
  <2>6. ListedIn(list') = ListedIn(list)
    BY <2>2, <2>3 DEF ListedIn
  <2>7. CASE a.from \in ListedIn(list) /\ list'[i].about = a.kind
               /\ Owns(list[i], a.from)
    <3>1. NodeIn(list', a.from) = i
      BY <1>1, <2>2, <2>3, <2>7, NodeInIs
    <3>2. Told(list')[a.from] = a.kind
      BY <2>6, <2>7, <3>1 DEF Told
    <3>3. QED
      BY <1>0, <2>2, <2>5, <2>6, <2>7, <3>2, DescribeStep
  <2>8. CASE \/ a.from \notin ListedIn(list)
             \/ list'[i].about = list[i].about
             \/ ~Owns(list[i], a.from)
    <3>1. ASSUME a.from \in ListedIn(list)
          PROVE  Told(list')[a.from] = Told(list)[a.from]
      <4>1. PICK j \in DOMAIN list : Owns(list[j], a.from)
        BY <3>1 DEF ListedIn
      <4>2. NodeIn(list', a.from) = j /\ NodeIn(list, a.from) = j
        BY <1>1, <2>2, <2>3, <4>1, NodeInIs
      <4>3. list'[j].about = list[j].about
        BY <2>2, <2>8, <3>1, <4>1
      <4>4. QED
        BY <2>6, <3>1, <4>2, <4>3 DEF Told
    <3>2. Told(list') = Told(list)
      BY <2>5, <2>6, <3>1 DEF Told
    <3>3. QED
      BY <1>0, <3>2, QuietStep
  <2>9. QED
    BY <2>2, <2>7, <2>8
<1>6. QED
  BY <1>2, <1>3, <1>4, <1>5, ListCases

\* The list of two threads implements the inventory: every step of the scan is
\* a step of the inventory or leaves it alone.
THEOREM ListIsInventory == Spec => Implements
<1>1. Init => I!Init
  <2> SUFFICES ASSUME Init PROVE I!Init
    OBVIOUS
  <2>1. \A a \in Answers : ~MayCome(a)
    BY DEF Init, MayCome
  <2>2. ListedIn(list) = {}
    BY DEF Init, ListedIn
  <2>3. Said = [d \in Devices |-> {}]
    BY <2>1 DEF Said
  <2>4. Told(list) = [d \in {} |-> "identify"]
    BY <2>2 DEF Told
  <2>5. QED
    BY <2>3, <2>4 DEF I!Init, Said, Told, Listed, ListedIn, NodeOf, NodeIn
<1>2. TypeInv /\ LookupInv /\ FlagsOK /\ SenderInv /\ OneNodePerDevice
        /\ OneNodePerDevice' /\ [Next]_vars => [I!Next]_(I!vars)
  <2> SUFFICES ASSUME TypeInv, LookupInv, FlagsOK, SenderInv, OneNodePerDevice,
                      OneNodePerDevice', [Next]_vars
               PROVE  I!Next
    OBVIOUS
  <2>1. CASE MainStep
    <3>1. list' = list /\ (asked => asked') /\ lookups \subseteq lookups'
      BY <2>1
      DEF MainStep, Launch, SendIdentify, SendLookup, PickDevice, SendResolved,
          SendsOver, Join, mainVars, netVars
    <3>2. QED
      BY <3>1, QuietStep
  <2>2. CASE EndCapture \/ UNCHANGED vars
    BY <2>2, QuietStep DEF EndCapture, vars, mainVars, netVars
  <2>3. QED
    BY <2>1, <2>2, HandlerInventory DEF Next, Exited
<1>3. QED
  BY <1>1, <1>2, SenderInvariant, KeyInvariant, NodesUnique, PTL
  DEF Spec, Implements, I!Spec

=============================================================================
