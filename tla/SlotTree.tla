------------------------------ MODULE SlotTree ------------------------------
(***************************************************************************)
(* The implicit reads.  Main asks every device for its slots and subslots,  *)
(* then every subslot for its port data, then every slot for its I&M data   *)
(* (main.c, remoteScan.c sendpacket_IM_rem); the sniffer's handlers build   *)
(* the tree of slots from the first answer and fill it from the others      *)
(* (packetCapture.c).  There is no lock: main walks a tree by two cursors,  *)
(* its own pointers and the positions it hands to sendpacket_IM_rem, which  *)
(* walks again from device->slotList, and a repeated answer replaces that.  *)
(*                                                                         *)
(* A tree that was replaced is never freed, so main may stay in it.  A NULL *)
(* that is dereferenced ends the process.  As in DeviceList, an answer may  *)
(* come late, more than once or never, and a capture may end at any time.   *)
(***************************************************************************)
EXTENDS Integers, Sequences

CONSTANTS
  Count,     \* deviceCount; devices are known by their positions in the list
  Modules,   \* Modules[d]: what is plugged, a sequence of slots
  Layer,     \* 2, or 3: the destination's MAC is resolved first and may not be
  Junks,     \* what malloc may have left where a number will be
  MaxTrees   \* MaxTrees[d]: how often d's slots may be answered: a bound

Devices == 1..Count

Plugged == [number : Nat, subs : Seq(Nat)]

ASSUME TreeAssumption ==
  /\ Count \in Nat /\ MaxTrees \in [Devices -> Nat]
  /\ Layer \in {2, 3}
  /\ Junks \subseteq Nat /\ Junks # {}
  /\ Modules \in [Devices -> Seq(Plugged)]

\* A slot number stands in one slot of a device, a subslot number once in it.
ASSUME NumberAssumption ==
  \A d \in Devices : \A s, t \in DOMAIN Modules[d] :
    /\ Modules[d][s].number = Modules[d][t].number => s = t
    /\ \A u, v \in DOMAIN Modules[d][s].subs :
         Modules[d][s].subs[u] = Modules[d][s].subs[v] => u = v

VARIABLES
  trees,     \* trees[d]: the trees made for d; the last is device->slotList
  job,       \* the device whose tree is being built and what comes next in it
  mpc,       \* main's program counter, "dead" when NULL was dereferenced
  phase,     \* 1 slots, 2 ports, 3 I&M
  k,         \* main: numberOfIPDev + 1
  cursor,    \* main: slot and subslot, and the tree that they point into
  seen,      \* sendpacket_IM_rem: the tree it has found the slot in
  number,    \* sendpacket_IM_rem: the slot number it has put into the packet
  capture,   \* pcap_loop is running
  requests,  \* the requests on the wire
  late,      \* history: the devices whose tree was replaced after phase 1
  missed,    \* history: the devices with a request whose MAC did not resolve
  got,       \* history: the port answers that were handled
  fault      \* history: whose tree had a NULL where one was dereferenced

mainVars == <<mpc, phase, k, cursor, seen, number>>
history  == <<late, missed, got, fault>>
vars == <<trees, job, mainVars, capture, requests, history>>

Subslot == [number : Nat, answered : BOOLEAN]
Slot    == [number : Nat, subs : Seq(Subslot), read : BOOLEAN]

\* A request is for device d's slots, for a subslot's ports or for a slot.
Request == [what : {"slots", "port", "im"}, d : Devices, slot : Nat, sub : Nat]

NoJob    == [d |-> 0, stage |-> "idle"]
NoCursor == [gen |-> 0, slot |-> 0, sub |-> 0]

Init ==
  /\ trees = [d \in Devices |-> <<>>] /\ job = NoJob
  /\ mpc = "launch" /\ phase = 1 /\ k = 1
  /\ cursor = NoCursor /\ seen = 0 /\ number = 0
  /\ capture = FALSE /\ requests = {}
  /\ late = {} /\ missed = {} /\ got = {} /\ fault = 0

\* device->slotList; there is one when the device has a tree.
Current(d) == trees[d][Len(trees[d])]

-----------------------------------------------------------------------------
(* The main thread.                                                        *)

Launch ==
  /\ mpc = "launch"
  /\ mpc' = "device" /\ k' = 1 /\ capture' = TRUE
  /\ UNCHANGED <<trees, job, phase, cursor, seen, number, requests, history>>

\* sendpacket_IM_rem, REALIDENTIFICATIONDATA, which reads no tree.
AskSlots ==
  /\ mpc = "device" /\ phase = 1 /\ k <= Count
  /\ k' = k + 1
  /\ \/ requests' = requests \cup
                      {[what |-> "slots", d |-> k, slot |-> 0, sub |-> 1]}
     \/ Layer = 3 /\ UNCHANGED requests
  /\ UNCHANGED <<trees, job, mpc, phase, cursor, seen, number, capture,
                 history>>

\* slot = list->device->slotList.
EnterDevice ==
  /\ mpc = "device" /\ phase > 1 /\ k <= Count
  /\ IF trees[k] = <<>>
     THEN k' = k + 1 /\ UNCHANGED <<mpc, cursor>>
     ELSE /\ cursor' = [gen |-> Len(trees[k]), slot |-> 1, sub |-> 0]
          /\ mpc' = "slot" /\ UNCHANGED k
  /\ UNCHANGED <<trees, job, phase, seen, number, capture, requests, history>>

\* The slot that main points to.
Here == trees[k][cursor.gen][cursor.slot]

\* The port walk reads slot->subslotList, the I&M walk asks the slot itself.
EnterSlot ==
  /\ mpc = "slot"
  /\ \/ phase = 2 /\ Here.subs # <<>>
          /\ mpc' = "send" /\ cursor' = [cursor EXCEPT !.sub = 1]
     \/ phase = 2 /\ Here.subs = <<>> /\ mpc' = "next" /\ UNCHANGED cursor
     \/ phase = 3 /\ mpc' = "send" /\ UNCHANGED cursor
  /\ UNCHANGED <<trees, job, phase, k, seen, number, capture, requests,
                 history>>

\* Mutant of AfterSend: the next slot, whatever was asked.
AfterSendNext == "next"

\* Where main goes on when sendpacket_IM_rem has returned.
AfterSend == IF phase = 2 THEN "after" ELSE "next"

Die(d) == fault' = d /\ mpc' = "dead"

Ask(what, slot, sub) ==
  requests' = requests \cup
                {[what |-> what, d |-> k, slot |-> slot, sub |-> sub]}

\* resolveRemoteDestinationMac fails, and nothing is sent.
Unresolved ==
  /\ mpc = "send" /\ Layer = 3
  /\ mpc' = AfterSend /\ missed' = missed \cup {k}
  /\ UNCHANGED <<trees, job, phase, k, cursor, seen, number, capture, requests,
                 late, got, fault>>

\* sendpacket_IM_rem goes posSlot steps from device->slotList on and reads the
\* slot's number; for the I&M data that is all it reads.
FindSlot ==
  /\ mpc = "send"
  /\ \/ /\ cursor.slot > Len(Current(k))
        /\ Die(k) /\ UNCHANGED <<seen, number, requests>>
     \/ /\ cursor.slot <= Len(Current(k)) /\ phase = 2
        /\ seen' = Len(trees[k]) /\ number' = Current(k)[cursor.slot].number
        /\ mpc' = "sub" /\ UNCHANGED <<requests, fault>>
     \/ /\ cursor.slot <= Len(Current(k)) /\ phase = 3
        /\ Ask("im", Current(k)[cursor.slot].number, 1)
        /\ mpc' = AfterSend /\ UNCHANGED <<seen, number, fault>>
  /\ UNCHANGED <<trees, job, phase, k, cursor, capture, late, missed, got>>

\* The subslots that sendpacket_IM_rem looks through.
SubsSeen == trees[k][seen][cursor.slot].subs

\* It goes posSubslot steps from that slot's subslotList on, and sends.
FindSubslot ==
  /\ mpc = "sub"
  /\ \/ cursor.sub > Len(SubsSeen) /\ Die(k) /\ UNCHANGED requests
     \/ /\ cursor.sub <= Len(SubsSeen)
        /\ Ask("port", number, SubsSeen[cursor.sub].number)
        /\ mpc' = AfterSend /\ UNCHANGED fault
  /\ UNCHANGED <<trees, job, phase, k, cursor, seen, number, capture, late,
                 missed, got>>

\* Mutant of NextSubslot: the walk goes one too far.
NextSubslotTooFar ==
  /\ mpc = "after"
  /\ IF cursor.sub <= Len(Here.subs)
     THEN mpc' = "send" /\ cursor' = [cursor EXCEPT !.sub = @ + 1]
     ELSE mpc' = "next" /\ UNCHANGED cursor
  /\ UNCHANGED <<trees, job, phase, k, seen, number, capture, requests,
                 history>>

\* subslot = subslot->next, after the Sleep.
NextSubslot ==
  /\ mpc = "after"
  /\ IF cursor.sub < Len(Here.subs)
     THEN mpc' = "send" /\ cursor' = [cursor EXCEPT !.sub = @ + 1]
     ELSE mpc' = "next" /\ UNCHANGED cursor
  /\ UNCHANGED <<trees, job, phase, k, seen, number, capture, requests,
                 history>>

\* slot = slot->next, or list = list->next when there is none.
NextSlot ==
  /\ mpc = "next"
  /\ \/ /\ cursor.slot < Len(trees[k][cursor.gen])
        /\ mpc' = "slot"
        /\ cursor' = [cursor EXCEPT !.slot = @ + 1, !.sub = 0] /\ UNCHANGED k
     \/ /\ cursor.slot = Len(trees[k][cursor.gen])
        /\ mpc' = "device" /\ cursor' = NoCursor /\ k' = k + 1
  /\ UNCHANGED <<trees, job, phase, seen, number, capture, requests, history>>

SendsOver ==
  /\ mpc = "device" /\ k > Count
  /\ mpc' = "join"
  /\ UNCHANGED <<trees, job, phase, k, cursor, seen, number, capture, requests,
                 history>>

\* Mutant of Join: there is one more phase.
JoinOneMore ==
  /\ mpc = "join" /\ ~capture
  /\ \/ mpc' = "exit" /\ UNCHANGED phase
     \/ phase <= 3 /\ mpc' = "launch" /\ phase' = phase + 1
  /\ UNCHANGED <<trees, job, k, cursor, seen, number, capture, requests,
                 history>>

\* The sniffer has returned; --duration may have ended the scan.
Join ==
  /\ mpc = "join" /\ ~capture
  /\ \/ mpc' = "exit" /\ UNCHANGED phase
     \/ phase < 3 /\ mpc' = "launch" /\ phase' = phase + 1
  /\ UNCHANGED <<trees, job, k, cursor, seen, number, capture, requests,
                 history>>

-----------------------------------------------------------------------------
(* The handlers.  An answer with an error code, which is what a request for  *)
(* a slot that the device does not have gets, is left alone.                 *)

Handling == capture /\ job = NoJob

\* createSlotList and createSubslotList leave the numbers as malloc found them.
NewSlots == [number : Junks, subs : {<<>>}, read : {FALSE}]

NewSubslots == [number : Junks, answered : {FALSE}]

WithTree(d, tree) == [trees EXCEPT ![d][Len(trees[d])] = tree]

\* getRealidentificationData links an empty slot as the device's new list; a
\* device without slots keeps the list it has.
TakeSlots ==
  \E d \in Devices :
    /\ Handling /\ \E r \in requests : r.what = "slots" /\ r.d = d
    /\ Len(trees[d]) < MaxTrees[d] /\ Modules[d] # <<>>
    /\ \E slot \in NewSlots : trees' = [trees EXCEPT ![d] = Append(@, <<slot>>)]
    /\ job' = [d |-> d, stage |-> "slot"]
    /\ late' = IF phase = 1 THEN late ELSE late \cup {d}
    /\ UNCHANGED <<mainVars, capture, requests, missed, got, fault>>

\* The slot, and in it the subslot, that is being built: the last there is.
Building(stage) == job.stage = stage
Tree == Current(job.d)
At   == Len(Tree)
Real == Modules[job.d][At]

\* "no subslots to read": the function returns, and so do all later slots.
Ends(subs) == subs = <<>>

FillSlot ==
  /\ Building("slot")
  /\ trees' = WithTree(job.d, [Tree EXCEPT ![At].number = Real.number])
  /\ job' = IF Ends(Real.subs) THEN NoJob ELSE [job EXCEPT !.stage = "link"]
  /\ UNCHANGED <<mainVars, capture, requests, history>>

\* The first subslot, and each further one.
LinkSubslot ==
  /\ Building("link")
  /\ \E sub \in NewSubslots :
       trees' = WithTree(job.d, [Tree EXCEPT ![At].subs = Append(@, sub)])
  /\ job' = [job EXCEPT !.stage = "subslot"]
  /\ UNCHANGED <<mainVars, capture, requests, history>>

\* Mutant of MoreSlots: one slot short.
MoreSlotsShort == At + 1 < Len(Modules[job.d])

\* counterSlots < numberofslots.
MoreSlots == At < Len(Modules[job.d])

FillSubslot ==
  LET n == Len(Tree[At].subs) IN
  /\ Building("subslot")
  /\ trees' = WithTree(job.d, [Tree EXCEPT ![At].subs[n].number = Real.subs[n]])
  /\ job' = IF n < Len(Real.subs) THEN [job EXCEPT !.stage = "link"]
            ELSE IF MoreSlots THEN [job EXCEPT !.stage = "more"] ELSE NoJob
  /\ UNCHANGED <<mainVars, capture, requests, history>>

LinkSlot ==
  /\ Building("more")
  /\ \E slot \in NewSlots : trees' = WithTree(job.d, Append(Tree, slot))
  /\ job' = [job EXCEPT !.stage = "slot"]
  /\ UNCHANGED <<mainVars, capture, requests, history>>

\* The first slot with this number, 0 when next leads to NULL.
SlotOf(tree, n) ==
  LET hits == {s \in DOMAIN tree : tree[s].number = n} IN
  IF hits = {} THEN 0 ELSE CHOOSE s \in hits : \A t \in hits : s <= t

\* The device has the subslot, or the slot, that the request names.
HasSubslot(r) ==
  \E s \in DOMAIN Modules[r.d] :
    /\ Modules[r.d][s].number = r.slot
    /\ \E u \in DOMAIN Modules[r.d][s].subs : Modules[r.d][s].subs[u] = r.sub
HasSlot(r) == \E s \in DOMAIN Modules[r.d] : Modules[r.d][s].number = r.slot

\* Mutant of SubslotIn: the handler looks for the subslot in the first slot.
SubslotInFirst(tree, r) == <<1, SlotOf(tree[1].subs, r.sub)>>

\* Where an answer's slot and subslot are.
SubslotIn(tree, r) ==
  LET s == SlotOf(tree, r.slot) IN
  <<s, IF s = 0 THEN 0 ELSE SlotOf(tree[s].subs, r.sub)>>

\* getSubmodulPDRealData: the port data go where the numbers match; next is
\* followed without looking for the end.
TakePort ==
  \E r \in requests :
    LET tree == Current(r.d)
        at   == SubslotIn(tree, r) IN
    /\ Handling /\ r.what = "port" /\ HasSubslot(r)
    /\ got' = got \cup {<<r.d, r.slot, r.sub>>}
    /\ \/ /\ at[2] = 0 /\ Die(r.d) /\ UNCHANGED trees
       \/ /\ at[2] > 0
          /\ trees' = WithTree(r.d,
               [tree EXCEPT ![at[1]].subs[at[2]].answered = TRUE])
          /\ UNCHANGED <<mpc, fault>>
    /\ UNCHANGED <<job, phase, k, cursor, seen, number, capture, requests,
                   late, missed>>

\* getIMData, likewise.
TakeIM ==
  \E r \in requests :
    LET tree == Current(r.d)
        s    == SlotOf(tree, r.slot) IN
    /\ Handling /\ r.what = "im" /\ HasSlot(r)
    /\ \/ s = 0 /\ Die(r.d) /\ UNCHANGED trees
       \/ /\ s > 0
          /\ trees' = WithTree(r.d, [tree EXCEPT ![s].read = TRUE])
          /\ UNCHANGED <<mpc, fault>>
    /\ UNCHANGED <<job, phase, k, cursor, seen, number, capture, requests,
                   late, missed, got>>

\* The timer ends the loop; pcap_loop returns when its handler has.
EndCapture ==
  /\ Handling
  /\ capture' = FALSE
  /\ UNCHANGED <<trees, job, mainVars, requests, history>>

-----------------------------------------------------------------------------
MainStep ==
  Launch \/ AskSlots \/ EnterDevice \/ EnterSlot \/ Unresolved \/ FindSlot
    \/ FindSubslot \/ NextSubslot \/ NextSlot \/ SendsOver \/ Join

HandlerStep ==
  TakeSlots \/ FillSlot \/ LinkSubslot \/ FillSubslot \/ LinkSlot \/ TakePort
    \/ TakeIM

Stopped == mpc \in {"exit", "dead"} /\ UNCHANGED vars

Next == (mpc # "dead" /\ (MainStep \/ HandlerStep \/ EndCapture)) \/ Stopped

Spec == Init /\ [][Next]_vars

-----------------------------------------------------------------------------
(* Properties.                                                             *)

\* All but capture, which is a truth value.
StateOK ==
  /\ trees \in [Devices -> Seq(Seq(Slot))]
  /\ job \in [d : Devices, stage : {"slot", "link", "subslot", "more"}]
             \cup {NoJob}
  /\ mpc \in {"launch", "device", "slot", "send", "sub", "after", "next",
              "join", "exit", "dead"}
  /\ phase \in 1..3 /\ k \in Nat
  /\ cursor \in [gen : Nat, slot : Nat, sub : Nat]
  /\ seen \in Nat /\ number \in Nat
  /\ requests \subseteq Request
  /\ late \subseteq Devices /\ missed \subseteq Devices
  /\ got \subseteq Devices \X Nat \X Nat
  /\ fault \in 0..Count

\* The type invariant: every variable has its type.
TypeOK == StateOK /\ capture \in BOOLEAN

\* d's tree stands as an answer has left it.
Whole(d) == trees[d] # <<>> /\ job.d # d

\* What a tree says is plugged.
Plan(tree) ==
  [s \in DOMAIN tree |->
     [number |-> tree[s].number,
      subs   |-> [u \in DOMAIN tree[s].subs |-> tree[s].subs[u].number]]]

(***************************************************************************)
(* Whatever was built, replaced or filled in which order, a tree that is    *)
(* not being built is the device's plugged slots from the first on, up to   *)
(* the first without submodules: getRealidentificationData                  *)
(* (packetCapture.c:969-1044) counts right and nobody else relinks.         *)
(***************************************************************************)
TreeIsPlugged ==
  \A d \in Devices : Whole(d) =>
    LET plan == Plan(Current(d)) IN
    /\ plan = SubSeq(Modules[d], 1, Len(plan))
    /\ \/ Len(plan) = Len(Modules[d])
       \/ plan[Len(plan)].subs = <<>>

(***************************************************************************)
(* No NULL is dereferenced, neither by a handler that follows next without  *)
(* looking for the end (packetCapture.c:1179-1198, 1303-1309) nor by        *)
(* sendpacket_IM_rem that goes to a position main found in another tree     *)
(* (remoteScan.c:967-990), unless the device's slots were answered again    *)
(* while its ports or its I&M data were being read.                         *)
(***************************************************************************)
DiesOfLateAnswer == fault # 0 => fault \in late

(***************************************************************************)
(* When main has walked the ports (main.c:1048-1066), every subslot of      *)
(* every device in the list has been asked for, unless its tree was         *)
(* replaced under the walk or its MAC did not resolve.                      *)
(***************************************************************************)
EveryPortAsked ==
  mpc = "join" /\ phase = 2 =>
    \A d \in Devices \ (late \cup missed) : trees[d] # <<>> =>
      \A s \in DOMAIN Current(d) : \A u \in DOMAIN Current(d)[s].subs :
        [what |-> "port", d |-> d, slot |-> Current(d)[s].number,
         sub |-> Current(d)[s].subs[u].number] \in requests

(***************************************************************************)
(* Port data stand in the subslot they were asked for and came for, and     *)
(* they are lost only with a tree that is replaced: in a device whose slots *)
(* were not answered again exactly the subslots that answered have theirs.  *)
(***************************************************************************)
PortDataKept ==
  \A d \in Devices : Whole(d) =>
    LET kept == UNION
          {{<<d, slot.number, slot.subs[u].number>> :
              u \in {v \in DOMAIN slot.subs : slot.subs[v].answered}} :
            slot \in {Current(d)[s] : s \in DOMAIN Current(d)}}
        came == {g \in got : g[1] = d} IN
    kept \subseteq came /\ (d \notin late /\ fault = 0 => kept = came)

-----------------------------------------------------------------------------
(* The inductive invariants behind the theorems of SlotTreeProofs.         *)

Walking == mpc \in {"slot", "send", "sub", "after", "next"}

\* main's pointers, and the position sendpacket_IM_rem has found, stand in a
\* tree of the device.
WalkInv ==
  /\ k >= 1
  /\ \A d \in Devices : \A g \in DOMAIN trees[d] : trees[d][g] # <<>>
  /\ Walking =>
       /\ phase > 1 /\ k \in Devices /\ cursor.gen \in DOMAIN trees[k]
       /\ cursor.slot \in DOMAIN trees[k][cursor.gen]
  /\ mpc \in {"sub", "after"} => phase = 2
  /\ mpc \in {"send", "sub", "after"} /\ phase = 2 =>
       cursor.sub \in DOMAIN Here.subs
  /\ mpc = "sub" =>
       seen \in DOMAIN trees[k] /\ cursor.slot \in DOMAIN trees[k][seen]

\* The slot's number, and those of its first n subslots, are the plugged ones.
Like(slot, real, n) ==
  /\ slot.number = real.number /\ Len(slot.subs) <= Len(real.subs)
  /\ \A u \in DOMAIN slot.subs : u <= n => slot.subs[u].number = real.subs[u]

Done(slot, real) ==
  Like(slot, real, Len(slot.subs)) /\ Len(slot.subs) = Len(real.subs)

\* How far a tree is, all slots but the last being done.
Shape(tree, mods, stage) ==
  LET last == tree[Len(tree)]
      real == mods[Len(tree)] IN
  /\ tree # <<>> /\ Len(tree) <= Len(mods)
  /\ \A s \in DOMAIN tree :
       s < Len(tree) => Done(tree[s], mods[s]) /\ tree[s].subs # <<>>
  /\ stage = "slot" => last.subs = <<>>
  /\ stage = "link" =>
       /\ Like(last, real, Len(last.subs)) /\ Len(last.subs) < Len(real.subs)
  /\ stage = "subslot" =>
       /\ Like(last, real, Len(last.subs) - 1) /\ last.subs # <<>>
  /\ stage = "more" =>
       /\ Done(last, real) /\ last.subs # <<>> /\ Len(tree) < Len(mods)
  /\ stage = "idle" =>
       /\ Done(last, real) /\ (Len(tree) = Len(mods) \/ last.subs = <<>>)

StageOf(d) == IF job.d = d THEN job.stage ELSE "idle"

\* A tree is being built only during a capture, and after phase 1 only for a
\* late answer.
PlugInv ==
  /\ job # NoJob =>
       /\ capture /\ trees[job.d] # <<>>
       /\ phase > 1 => job.d \in late
  /\ \A d \in Devices :
       trees[d] # <<>> => Shape(Current(d), Modules[d], StageOf(d))

\* Without a late answer main stays in the tree that sendpacket_IM_rem walks.
CursorInv ==
  Walking /\ k \notin late =>
    /\ cursor.gen = Len(trees[k])
    /\ mpc = "sub" => seen = Len(trees[k]) /\ number = Here.number

\* The tree has the slot and the subslot that the request is for.
Names(tree, r) ==
  \E s \in DOMAIN tree :
    /\ tree[s].number = r.slot
    /\ r.what = "port" => \E u \in DOMAIN tree[s].subs :
                            tree[s].subs[u].number = r.sub

RequestInv ==
  \A r \in requests : r.what # "slots" =>
    /\ phase > 1 /\ trees[r.d] # <<>>
    /\ r.d \notin late => Names(Current(r.d), r)

\* What main's walk of the ports has behind it.
Passed(d, s, u) ==
  \/ d < k
  \/ /\ d = k /\ Walking
     /\ \/ s < cursor.slot
        \/ /\ s = cursor.slot
           /\ mpc = "next" \/ u < cursor.sub \/ (mpc = "after" /\ u = cursor.sub)

PortOf(d, s, u) ==
  [what |-> "port", d |-> d, slot |-> Current(d)[s].number,
   sub |-> Current(d)[s].subs[u].number]

WalkedInv ==
  /\ mpc = "join" => k > Count
  /\ phase = 2 /\ mpc \notin {"launch", "dead"} =>
       \A d \in Devices \ (late \cup missed) : trees[d] # <<>> =>
         \A s \in DOMAIN Current(d) : \A u \in DOMAIN Current(d)[s].subs :
           Passed(d, s, u) => PortOf(d, s, u) \in requests

\* Port data are in a tree that is built, where they came for, and are lost only
\* with the tree.
DataInv ==
  /\ got # {} => phase > 1
  /\ \A d \in Devices : trees[d] # <<>> =>
       \A s \in DOMAIN Current(d) : \A u \in DOMAIN Current(d)[s].subs :
         Current(d)[s].subs[u].answered =>
           /\ job.d # d
           /\ <<d, Current(d)[s].number, Current(d)[s].subs[u].number>> \in got
  /\ fault = 0 => \A g \in got : g[1] \notin late =>
       /\ trees[g[1]] # <<>>
       /\ \E s \in DOMAIN Current(g[1]) : \E u \in DOMAIN Current(g[1])[s].subs :
            /\ Current(g[1])[s].subs[u].answered
            /\ Current(g[1])[s].number = g[2]
            /\ Current(g[1])[s].subs[u].number = g[3]

TreeInv ==
  /\ TypeOK /\ WalkInv /\ PlugInv /\ CursorInv /\ RequestInv /\ WalkedInv
  /\ DataInv /\ DiesOfLateAnswer

=============================================================================
