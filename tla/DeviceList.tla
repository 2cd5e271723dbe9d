----------------------------- MODULE DeviceList -----------------------------
(***************************************************************************)
(* How the list of found devices comes about: main sends the requests that  *)
(* discover devices, and at the same time the sniffer's handlers build and  *)
(* fill the linked list threadData->first (main.c, packetCapture.c,         *)
(* remoteScan.c, linkedList.c).  There is no lock.                          *)
(*                                                                         *)
(*   local   phase 1 DCP identify, phases 2 and 3 endpoint mapper lookups,  *)
(*           phase 4 the implicit reads, whose capture still takes lookup   *)
(*           answers;                                                       *)
(*   remote  phase 1 a lookup per target address, phase 2 one per listed    *)
(*           device, phase 3 the implicit reads.                            *)
(*                                                                         *)
(* Answers are lost, duplicated, delayed into later phases and reordered,   *)
(* so what may come is a matter of what was asked alone.                    *)
(* CaptureSession says when a capture ends; here it may end at any time.    *)
(* A handle stands for the device that issued it.                           *)
(***************************************************************************)
EXTENDS Integers, Sequences

CONSTANTS
  Mode,        \* "local" or "remote"
  Devices,
  MacOf,       \* MacOf[d]: the source MAC of d's frames: a router's in remote
  IpOf,        \* IpOf[d]: d's address
  NoIpBlock,   \* the devices whose DCP answer has no IP parameter
  Targets,     \* the addresses of --target, a sequence
  NoHandle,    \* the handle of twenty zero bytes
  JunkHandle,  \* what malloc left where a handle will be
  Junk         \* what malloc left where an address will be

Macs == {MacOf[d] : d \in Devices}
Ips  == {IpOf[d] : d \in Devices}

ASSUME ListAssumption ==
  /\ Mode \in {"local", "remote"}
  /\ MacOf \in [Devices -> Macs] /\ IpOf \in [Devices -> Ips]
  /\ NoIpBlock \subseteq Devices
  /\ Targets \in Seq(Ips \cup {Junk}) \ {<<>>}

ASSUME DistinctAssumption ==
  /\ NoHandle \notin Devices /\ JunkHandle \notin Devices
  /\ NoHandle # JunkHandle
  /\ Junk \notin Devices /\ Junk \notin Macs \cup Ips

ASSUME AddressAssumption ==
  /\ \A d, e \in Devices : IpOf[d] = IpOf[e] => d = e
  /\ Mode = "local" => \A d, e \in Devices : MacOf[d] = MacOf[e] => d = e

VARIABLES
  list,     \* the nodes from threadData->first on
  hpc,      \* "ready", or "creating" the first node from `taken`
  taken,    \* the answer whose node is being created
  mpc,      \* main: "launch", "send", "resolve", "join" or "exit"
  phase,
  count,    \* main: deviceCount, defcount or range + 1
  k,        \* main: numberOfIPDev
  current,  \* main: sendPacket_RPC_rem's currentDevice is not NULL
  capture,  \* "off", "on" or "broken": the loop was broken by a handler
  lookups,  \* the lookup requests on the wire
  asked     \* the DCP identify request is on the wire

mainVars == <<mpc, phase, count, k, current>>
netVars  == <<lookups, asked>>
vars == <<list, hpc, taken, mainVars, capture, netVars>>

Handles == Devices \cup {NoHandle, JunkHandle}

Node ==
  [index : Nat, mac : Macs \cup {Junk}, ip : Ips \cup {Junk},
   about : {"identify", "unknown", "full"}, by : Devices \cup {Junk},
   handle : Handles, finished : BOOLEAN]

Lookup == [mac : Macs \cup {Junk}, ip : Ips \cup {Junk}, handle : Handles]

Idle == [kind |-> "identify", from |-> Junk, handle |-> NoHandle]

LastPhase == IF Mode = "local" THEN 4 ELSE 3

\* sniffer_thread_DCP, sniffer_thread_IP or sniffer_thread_remote.
Sniffer ==
  IF Mode = "remote" \/ phase = 4 THEN "rem" ELSE IF phase = 1 THEN "dcp" ELSE "ip"

Init ==
  /\ list = <<>> /\ hpc = "ready" /\ taken = Idle
  /\ mpc = "launch" /\ phase = 1 /\ count = 0 /\ k = 0 /\ current = FALSE
  /\ capture = "off"
  /\ lookups = {} /\ asked = FALSE

-----------------------------------------------------------------------------
(* The devices.  An answer may come as soon as there is a request for it, and *)
(* once more, and at any later time, and never.                              *)

\* The request reaches the device that has the destination addresses.
Reaches(r, d) == r.ip = IpOf[d] /\ (Mode = "local" => r.mac = MacOf[d])

\* The endpoint mapper gives its first entry and a handle to a lookup without
\* one, and the next entry, perhaps its last, to a lookup with the handle it
\* gave; it gives no entry for another handle.
MayCome(a) ==
  \/ a.kind = "identify" /\ asked
  \/ \E r \in lookups :
       /\ Reaches(r, a.from)
       /\ \/ r.handle = NoHandle /\ a.handle = a.from
          \/ r.handle = a.from /\ a.kind = "full"

Answers ==
  [kind : {"identify"}, from : Devices, handle : {NoHandle}]
    \cup {a \in [kind : {"unknown", "full"}, from : Devices,
                 handle : Devices \cup {NoHandle}] :
            a.handle \in {a.from, NoHandle}}

-----------------------------------------------------------------------------
(* linkedList.c                                                            *)

\* Mutant of NextIndex: the index of the node before it.
NextIndexSame == list[Len(list)].index

\* Mutant of NextIndex: the nodes are counted from the other end.
NextIndexBack == list[Len(list)].index - 1

\* add_to_list: new_box->index.
NextIndex == list[Len(list)].index + 1

\* linkedlist_status: -1 for NULL, else one more than the last node's index.
Status == IF list = <<>> THEN -1 ELSE list[Len(list)].index + 1

-----------------------------------------------------------------------------
(* The main thread.                                                        *)

\* Mutant of Requests: the loop runs to and including the last index.
RequestsTooMany ==
  IF phase = LastPhase THEN 0
  ELSE IF phase = 1 THEN IF Mode = "local" THEN 1 ELSE Len(Targets)
  ELSE IF phase = 2 THEN Status + 1
  ELSE count

\* How many requests the loop of this phase sends; the implicit reads of the
\* last phase are another module's.
Requests ==
  IF phase = LastPhase THEN 0
  ELSE IF phase = 1 THEN IF Mode = "local" THEN 1 ELSE Len(Targets)
  ELSE IF phase = 2 THEN Status
  ELSE count

\* CreateThread(sniffer).  With an empty list the local scan only waits for
\* that sniffer; the remote one has left before.
Launch ==
  /\ mpc = "launch"
  /\ capture' = "on" /\ count' = Requests /\ k' = 0
  /\ mpc' = IF Status = -1 /\ phase = 2 THEN "join" ELSE "send"
  /\ UNCHANGED <<list, hpc, taken, phase, current, netVars>>

\* sendPacket_DCP.
SendIdentify ==
  /\ mpc = "send" /\ Mode = "local" /\ phase = 1 /\ k < count
  /\ asked' = TRUE /\ k' = k + 1
  /\ UNCHANGED <<list, hpc, taken, mpc, phase, count, current, capture,
                 lookups>>

ToListed(handle) ==
  [mac |-> list[k + 1].mac, ip |-> list[k + 1].ip, handle |-> handle]

\* sendPacket_RPC to the k-th node; it is there, or the code dereferences NULL.
SendLookup ==
  /\ mpc = "send" /\ Mode = "local" /\ phase \in {2, 3}
  /\ k < count /\ k < Len(list)
  /\ lookups' = lookups \cup {ToListed(list[k + 1].handle)}
  /\ k' = k + 1
  /\ UNCHANGED <<list, hpc, taken, mpc, phase, count, current, capture,
                 asked>>

\* sendPacket_RPC_rem takes currentDevice, the first node in a first call and
\* the k-th in a follow-up, before it resolves the destination's MAC.
PickDevice ==
  /\ mpc = "send" /\ Mode = "remote" /\ phase \in {1, 2} /\ k < count
  /\ \/ phase = 1 /\ mpc' = "resolve" /\ current' = (list # <<>>) /\ UNCHANGED k
     \/ phase = 2 /\ k < Len(list)
          /\ mpc' = "resolve" /\ current' = TRUE /\ UNCHANGED k
     \/ phase = 2 /\ k >= Len(list)
          /\ k' = k + 1 /\ UNCHANGED <<mpc, current>>
  /\ UNCHANGED <<list, hpc, taken, phase, count, capture, netVars>>

\* The handle is currentDevice's in a first call too, where the destination is
\* the k-th target and currentDevice the first node of the list.
RemoteLookup ==
  IF phase = 1
  THEN [mac |-> Junk, ip |-> Targets[k + 1],
        handle |-> IF current THEN list[1].handle ELSE NoHandle]
  ELSE [ToListed(list[k + 1].handle) EXCEPT !.mac = Junk]

\* resolveRemoteDestinationMac fails, or the request is sent.  The resolved
\* MAC is the next hop's and says nothing of the device.
SendResolved ==
  /\ mpc = "resolve"
  /\ \/ lookups' = lookups \cup {RemoteLookup}
     \/ UNCHANGED lookups
  /\ mpc' = "send" /\ k' = k + 1
  /\ UNCHANGED <<list, hpc, taken, phase, count, current, capture, asked>>

SendsOver ==
  /\ mpc = "send" /\ k >= count
  /\ mpc' = "join"
  /\ UNCHANGED <<list, hpc, taken, phase, count, k, current, capture, netVars>>

\* The sniffer has returned.  --duration may have ended the scan; an empty
\* list ends it, in remote after phase 1 and in local in phase 2.
Join ==
  /\ mpc = "join" /\ capture # "on" /\ hpc = "ready"
  /\ \/ mpc' = "exit" /\ UNCHANGED phase
     \/ /\ phase < LastPhase
        /\ list = <<>> => Mode = "local" /\ phase = 1
        /\ mpc' = "launch" /\ phase' = phase + 1
  /\ capture' = "off"
  /\ UNCHANGED <<list, hpc, taken, count, k, current, netVars>>

-----------------------------------------------------------------------------
(* The sniffer's handlers.                                                 *)

Handling(a, sniffer) ==
  /\ capture = "on" /\ Sniffer = sniffer /\ hpc = "ready" /\ MayCome(a)

\* Mutant of SameMac: the handlers compare addresses instead.
SameMacByIp(d) == {i \in DOMAIN list : list[i].ip = IpOf[d]}

\* compareMacAddress along the list.
SameMac(d) == {i \in DOMAIN list : list[i].mac = MacOf[d]}

\* Mutant of SameIp: the comparison that remoteScan.c has in a comment, without
\* its second half.
SameIpByMac(d) == {i \in DOMAIN list : list[i].mac = MacOf[d]}

\* Mutant of SameIp: the walk starts behind the first node.
SameIpBehindFirst(d) == {i \in DOMAIN list : i > 1 /\ list[i].ip = IpOf[d]}

\* compareIPaddr along the list.
SameIp(d) == {i \in DOMAIN list : list[i].ip = IpOf[d]}

\* Mutant of IsFirst: the handler fills the first node when any matches.
IsHead(i, matches) == matches # {} /\ i = 1

\* The walk stops at its first match.
IsFirst(i, matches) == i \in matches /\ \A j \in matches : i <= j

\* createDatasheet leaves the address as malloc found it, and a DCP answer
\* without an IP parameter does not set it.
AddressIn(a) ==
  IF a.kind = "identify" /\ a.from \in NoIpBlock
  THEN Ips \cup {Junk} ELSE {IpOf[a.from]}

\* What the node of a new device says.  add_to_list is given no handle by the
\* DCP handler and the answer's by the remote one.
NewNode(a, index, ip, finished) ==
  [index |-> index, mac |-> MacOf[a.from], ip |-> ip,
   about |-> a.kind, by |-> a.from,
   handle |-> IF a.kind = "identify" THEN NoHandle ELSE a.handle,
   finished |-> finished]

\* What malloc returned, with no field set; main can only see its handle.
Unset(finished) ==
  [index |-> 0, mac |-> Junk, ip |-> Junk, about |-> "identify",
   by |-> Junk, handle |-> JunkHandle, finished |-> finished]

\* Mutant of PublishFirst: the list is not looked at.
PublishAlways(a) ==
  /\ hpc' = "creating" /\ taken' = a
  /\ \E finished \in BOOLEAN : list' = <<Unset(finished)>>
  /\ UNCHANGED <<mainVars, capture, netVars>>

\* threadData->first = malloc(...) makes the node visible before it is filled.
PublishFirst(a) ==
  /\ list = <<>>
  /\ hpc' = "creating" /\ taken' = a
  /\ \E finished \in BOOLEAN : list' = <<Unset(finished)>>
  /\ UNCHANGED <<mainVars, capture, netVars>>

\* The fields of the first node are set, all but finished.
FillFirst ==
  /\ hpc = "creating"
  /\ \E ip \in AddressIn(taken) :
       list' = <<NewNode(taken, 0, ip, list[1].finished)>>
  /\ hpc' = "ready" /\ taken' = Idle
  /\ UNCHANGED <<mainVars, capture, netVars>>

\* Mutant of Append1: the node is linked to the first and not to the last.
AppendBehindFirst(a) ==
  /\ list # <<>>
  /\ \E ip \in AddressIn(a) :
       list' = <<list[1], NewNode(a, NextIndex, ip, FALSE)>>
  /\ UNCHANGED <<hpc, taken, mainVars, capture, netVars>>

\* add_to_list fills the node before it links it.
Append1(a) ==
  /\ list # <<>>
  /\ \E ip \in AddressIn(a) :
       list' = Append(list, NewNode(a, NextIndex, ip, FALSE))
  /\ UNCHANGED <<hpc, taken, mainVars, capture, netVars>>

\* packet_handler_dcp; a device that is in the list is left alone.
ListSender(a) ==
  /\ Handling(a, "dcp") /\ a.kind = "identify"
  /\ PublishFirst(a) \/ (SameMac(a.from) = {} /\ Append1(a))

HandleIdentify == \E a \in Answers : ListSender(a)

\* packet_handler_IP, annotation "Unknown": only the handle is kept.
KeepHandle(a) ==
  /\ Handling(a, "ip") /\ a.kind = "unknown"
  /\ \E i \in DOMAIN list :
       /\ IsFirst(i, SameMac(a.from))
       /\ list' = [list EXCEPT ![i].handle = a.handle]
  /\ UNCHANGED <<hpc, taken, mainVars, capture, netVars>>

HandleUnknown == \E a \in Answers : KeepHandle(a)

\* Mutant of AllFinished: one finished device is enough.
AnyFinished(nodes) == \E i \in DOMAIN nodes : nodes[i].finished

\* checkDevicesFullExtracted.
AllFinished(nodes) == \A i \in DOMAIN nodes : nodes[i].finished

\* packet_handler_IP, a description: the node is filled and finished, and the
\* loop is broken when every node is.
KeepDescription(a) ==
  /\ Handling(a, "ip") /\ a.kind = "full"
  /\ \E i \in DOMAIN list :
       /\ IsFirst(i, SameMac(a.from))
       /\ list' = [list EXCEPT ![i].about = "full", ![i].by = a.from,
                               ![i].handle = a.handle, ![i].finished = TRUE]
  /\ capture' = IF AllFinished(list') THEN "broken" ELSE "on"
  /\ UNCHANGED <<hpc, taken, mainVars, netVars>>

HandleDescription == \E a \in Answers : KeepDescription(a)

\* The node of the answer's address is filled, whatever the annotation.
FillByAddress(a) ==
  /\ \E i \in DOMAIN list :
       /\ IsFirst(i, SameIp(a.from))
       /\ list' = [list EXCEPT ![i].about = a.kind, ![i].by = a.from,
                               ![i].handle = a.handle]
  /\ UNCHANGED <<hpc, taken, mainVars, capture, netVars>>

\* packet_handler_IP_rem.
HandleRemote ==
  \E a \in Answers :
    /\ Handling(a, "rem") /\ a.kind # "identify"
    /\ \/ PublishFirst(a)
       \/ FillByAddress(a)
       \/ SameIp(a.from) = {} /\ Append1(a)

\* The timer breaks the loop, or it could not be started.
EndCapture ==
  /\ capture = "on" /\ hpc = "ready"
  /\ capture' = "off"
  /\ UNCHANGED <<list, hpc, taken, mainVars, netVars>>

-----------------------------------------------------------------------------
Exited == mpc = "exit" /\ UNCHANGED vars

MainStep ==
  Launch \/ SendIdentify \/ SendLookup \/ PickDevice \/ SendResolved
    \/ SendsOver \/ Join

HandlerStep ==
  HandleIdentify \/ FillFirst \/ HandleUnknown \/ HandleDescription
    \/ HandleRemote

Next ==
  MainStep \/ HandlerStep \/ EndCapture \/ Exited

Spec == Init /\ [][Next]_vars

-----------------------------------------------------------------------------
(* Properties.                                                             *)

FlagsOK == current \in BOOLEAN /\ asked \in BOOLEAN

StateOK ==
  /\ list \in Seq(Node)
  /\ hpc \in {"ready", "creating"}
  /\ hpc = "creating" => taken \in Answers
  /\ mpc \in {"launch", "send", "resolve", "join", "exit"}
  /\ phase \in 1..LastPhase /\ count \in Int /\ count >= -1 /\ k \in Nat
  /\ capture \in {"off", "on", "broken"}
  /\ lookups \subseteq Lookup

\* The type invariant: every variable has its type.
TypeOK == StateOK /\ FlagsOK

\* The node is d's: it has what the handlers of this mode know a device by.
Owns(node, d) ==
  IF Mode = "local" THEN node.mac = MacOf[d] ELSE node.ip = IpOf[d]

(***************************************************************************)
(* However often a device answers, in whatever phase and whoever else       *)
(* answers meanwhile, it has one node: no handler adds what is there        *)
(* (packetCapture.c:329-337, remoteScan.c:1263), and a lookup answer that   *)
(* is late enough to reach the remote handler of a local scan, which knows  *)
(* devices by address and not by MAC, finds its node all the same.          *)
(***************************************************************************)
OneNodePerDevice ==
  \A i, j \in DOMAIN list : \A d \in Devices :
    Owns(list[i], d) /\ Owns(list[j], d) => i = j

(***************************************************************************)
(* What a node says, and the handle it keeps, come from the device whose    *)
(* node it is.  Only a node whose DCP answer had no address may be taken    *)
(* for another's, by the remote handler (packetCapture.c:452-466, 471-486,  *)
(* remoteScan.c:1263-1284).                                                 *)
(***************************************************************************)
AnswersStayWithSender ==
  \A i \in DOMAIN list :
    \/ /\ list[i].handle \in Devices => Owns(list[i], list[i].handle)
       /\ list[i].by \in Devices => Owns(list[i], list[i].by)
    \/ phase = LastPhase /\ \E d \in NoIpBlock : Owns(list[i], d)

(***************************************************************************)
(* remoteScan.c:419, "handle  first set 0 as long as handle is NULL": a     *)
(* lookup carries no handle but one that its destination has issued.  The   *)
(* remote first call does not keep it: it takes the handle of the first     *)
(* node, whichever target it asks.                                          *)
(***************************************************************************)
HandleIsDestinations ==
  \A r \in lookups : r.handle \in Devices => Reaches(r, r.handle)

(***************************************************************************)
(* What the local scan does keep of it, however late or often the answers   *)
(* come that put handles into nodes: a lookup carries no handle or one that *)
(* its destination has issued, and never what malloc left there.            *)
(***************************************************************************)
LookupCarriesOwnHandle ==
  HandleIsDestinations /\ \A r \in lookups : r.handle # JunkHandle

(***************************************************************************)
(* numberOfIPDev stays inside the list that main walks without looking for  *)
(* its end (packetHandler.c:178, main.c:988): the count main keeps across   *)
(* two phases is never more than the nodes there are.                       *)
(***************************************************************************)
WalkInRange ==
  mpc \in {"send", "resolve"} /\ phase > 1 => count <= Len(list)

(***************************************************************************)
(* When main has walked the list in a local lookup phase, every device in   *)
(* the list has been asked, also those that answered DCP last.              *)
(***************************************************************************)
EveryDeviceAsked ==
  Mode = "local" /\ mpc = "join" /\ phase \in {2, 3} =>
    \A i \in DOMAIN list : \E r \in lookups : r.mac = list[i].mac

(***************************************************************************)
(* A handler that breaks the capture cuts nobody off but the device of the  *)
(* first node: every other node has its description by then, from this      *)
(* phase or the one before (packetCapture.c:486-491, linkedList.c:54).      *)
(***************************************************************************)
BreakSparesOnlyFirst ==
  capture = "broken" =>
    \A i \in 2..Len(list) : list[i].about = "full"

(***************************************************************************)
(* packetHandler.c:1262, "check if every device set the finished bool to    *)
(* true": a capture is broken by a handler only when every device of the    *)
(* list has given its description.  The code does not keep it: finished of  *)
(* the first node is not initialised.                                       *)
(***************************************************************************)
BreakMeansAllFinished ==
  capture = "broken" =>
    \A i \in DOMAIN list : list[i].about = "full"

-----------------------------------------------------------------------------
(* The list implements the inventory.                                      *)

\* The devices in the list that have told their address.
Listed ==
  {d \in Devices \ NoIpBlock : \E i \in DOMAIN list : Owns(list[i], d)}

NodeOf(d) == CHOOSE i \in DOMAIN list : Owns(list[i], d)

I == INSTANCE Inventory WITH
       said      <- [d \in Devices |->
                       {kind \in {"identify", "unknown", "full"} :
                          \E a \in Answers :
                            a.kind = kind /\ a.from = d /\ MayCome(a)}],
       inventory <- [d \in Listed |-> list[NodeOf(d)].about]

(***************************************************************************)
(* The list of nodes that two threads and late packets make is an           *)
(* inventory of the devices that told their address: a device enters it     *)
(* once, after it has answered, it never leaves, and what is said of it is  *)
(* what it has said.                                                        *)
(***************************************************************************)
Implements == I!Spec

-----------------------------------------------------------------------------
(* The inductive invariants behind the theorems of DeviceListProofs.       *)

\* What sendPacket_RPC_rem relies on between picking a device and sending.
SendInv ==
  /\ mpc = "resolve" =>
       /\ Mode = "remote" /\ phase \in {1, 2} /\ k < count
       /\ phase = 2 => k < Len(list)
       /\ current => list # <<>>
  /\ mpc \in {"send", "resolve"} /\ Mode = "remote" /\ phase = 1 =>
       count = Len(Targets)

\* No sniffer runs while main is between two phases, and none goes on with an
\* empty list: the first node is created in phase 1, in a local scan before
\* any lookup.
PhaseInv ==
  /\ mpc \in {"launch", "exit"} => capture = "off"
  /\ list = <<>> /\ phase > 1 => Mode = "local" /\ phase = 2
  /\ hpc = "creating" =>
       /\ Len(list) = 1 /\ capture = "on" /\ phase = 1
       /\ Mode = "local" => lookups = {}

\* In a local scan every lookup went to the MAC and the address of a node.
LookupInv ==
  Mode = "local" =>
    \A r \in lookups : \E i \in DOMAIN list :
      list[i].mac = r.mac /\ list[i].ip = r.ip

\* The nodes are numbered as they stand, and the count main keeps was theirs.
CountInv ==
  /\ hpc = "ready" => \A i \in DOMAIN list : list[i].index = i - 1
  /\ phase > 1 /\ ~(phase = 2 /\ mpc = "launch") => count <= Len(list)

\* What a local scan keeps of handles.  Until the last phase, whose handler
\* knows devices by address alone, a node's handle was issued at its addresses.
HandleInv ==
  Mode = "local" =>
    /\ LookupCarriesOwnHandle
    /\ hpc = "creating" => taken.kind = "identify"
    /\ hpc = "ready" => \A i \in DOMAIN list : list[i].handle # JunkHandle
    /\ phase < LastPhase =>
         \A i \in DOMAIN list : list[i].handle \in Devices =>
           /\ list[i].mac = MacOf[list[i].handle]
           /\ list[i].ip = IpOf[list[i].handle]

\* A node behind the first is finished only by its description, and a capture
\* is broken only when all are.
FinishedInv ==
  /\ Mode = "local" /\ phase < LastPhase =>
       \A i \in DOMAIN list :
         i > 1 /\ list[i].finished => list[i].about = "full"
  /\ capture = "broken" =>
       /\ Mode = "local" /\ phase < LastPhase
       /\ \A i \in DOMAIN list : list[i].finished

\* How far main's walk of a local lookup phase has come.
AskedInv ==
  Mode = "local" /\ phase \in {2, 3} =>
    /\ list # <<>> /\ ~(phase = 2 /\ mpc = "launch") => count = Len(list)
    /\ mpc = "join" => list = <<>> \/ k >= count
    /\ mpc \in {"send", "join"} =>
         \A i \in DOMAIN list : i <= k =>
           \E r \in lookups : r.mac = list[i].mac

\* Whose the nodes are.  A node that is filled has a device's MAC and, but for a
\* DCP answer without one, its address.  Until it is filled it is nobody's, and
\* the answer it waits for was asked for.
SenderInv ==
  /\ hpc = "creating" =>
       /\ MayCome(taken) /\ (Mode = "remote" => taken.kind # "identify")
       /\ \E finished \in BOOLEAN : list = <<Unset(finished)>>
  /\ hpc = "ready" =>
       \A i \in DOMAIN list : \E d \in Devices :
         /\ list[i].mac = MacOf[d]
         /\ list[i].ip = IpOf[d] \/ (Mode = "local" /\ d \in NoIpBlock)
  /\ AnswersStayWithSender

=============================================================================
