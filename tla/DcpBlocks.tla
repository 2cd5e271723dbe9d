------------------------------ MODULE DcpBlocks ------------------------------
(***************************************************************************)
(* A DCP identify answer as packet_handler_dcp reads it (packetCapture.c):  *)
(* it looks for the header behind the VLAN tags and walks the blocks by     *)
(* their lengths.  A block of odd length is followed by a byte of padding   *)
(* that its length does not count.  The walk is bounded by the length of    *)
(* the data that the packet claims, not by what was captured of it.         *)
(*                                                                         *)
(* A packet has the sequence of the EtherTypes in it (types), one for each  *)
(* tag and the last for what it carries, its DCP service, its blocks as a   *)
(* function from the offsets at which they stand, the length of their data  *)
(* (dataLength), and how many of its bytes were captured (caplen).          *)
(***************************************************************************)
EXTENDS Integers, Sequences, SequencesExt, FiniteSets

CONSTANTS
  Unset,  \* a field of the data sheet that no block has set
  Torn    \* what is read where no block starts, behind a block that is too
          \* short for its value, or behind what was captured

ASSUME TornAssumption == Torn \notin {"none", "walking", "listed", "left"}

\* The values of any length, copied into memory of their own, and the blocks that
\* set a field of the data sheet; all others are skipped.
Names  == {"deviceType", "nameOfStation"}
Fields == Names \cup {"deviceIp", "deviceId", "deviceRoleDetail"}

\* Mutant of RoundedUp: the padding is not skipped.
NotRounded(length) == length

\* With the padding, in the sixteen bits that the code keeps a length in.
RoundedUp(length) == (length + (length % 2)) % 65536

PROFINET == 34962
Tags     == {33024, 34984}

\* Mutant of PayloadOffset: the first tag is skipped and no other.
PayloadBehindOne(packet) ==
  IF packet.types[1] \in Tags THEN [type |-> packet.types[2], offset |-> 18]
  ELSE [type |-> packet.types[1], offset |-> 14]

\* getEtherTypePayloadOffset: tags are skipped as far as the packet goes.
PayloadOffset(packet) ==
  LET passed == {n \in 0..(Len(packet.types) - 1) :
                   \A i \in 1..n : packet.types[i] \in Tags
                                    /\ packet.caplen >= 14 + 4 * i}
  IN  [type |-> packet.types[Max(passed) + 1], offset |-> 14 + 4 * Max(passed)]

\* getPndcpOffset: where a whole DCP header stands, or none does.
PndcpOffset(packet) ==
  LET payload == PayloadOffset(packet) IN
  IF packet.caplen < 14 \/ payload.type # PROFINET
     \/ packet.caplen < payload.offset + 12
  THEN -1 ELSE payload.offset

\* How much is read for a value, behind the header and the BlockInfo.
ValueSize(block) ==
  CASE block.kind \in Names            -> RoundedUp(block.length) - 2
    [] block.kind = "deviceIp"         -> 12
    [] block.kind = "deviceId"         -> 4
    [] block.kind = "deviceRoleDetail" -> 1

ValueAt(packet, offset) ==
  LET block == packet.blocks[offset]
      end   == offset + 6 + ValueSize(block)
  IN  IF /\ end <= packet.caplen \/ ValueSize(block) = 0
         /\ end <= offset + 4 + block.length \/ block.kind \in Names
      THEN block.value ELSE Torn

\* Whether the header of a block is read there.
HeaderAt(packet, offset) ==
  offset \in DOMAIN packet.blocks /\ offset + 4 <= packet.caplen

\* A name without BlockInfo: the memory for it is one byte less than none.
Nameless(block) == block.kind \in Names /\ RoundedUp(block.length) = 0

\* One round of the loop: the option sets its field or none, and the walk goes
\* on behind the four bytes of header and the block.  The handler leaves when
\* it gets no memory.
NextBlock(packet, walk) ==
  LET offset == PndcpOffset(packet) + 12 + walk.count
      block  == packet.blocks[offset]
  IN  CASE ~HeaderAt(packet, offset) -> [walk EXCEPT !.result = Torn]
        [] HeaderAt(packet, offset) /\ Nameless(block) ->
             [walk EXCEPT !.result = "left"]
        [] HeaderAt(packet, offset) /\ ~Nameless(block) ->
             [walk EXCEPT !.count = @ + 4 + RoundedUp(block.length),
                          !.sheet = [f \in Fields |-> IF f = block.kind
                                                      THEN ValueAt(packet, offset)
                                                      ELSE walk.sheet[f]]]

StartOfBlocks ==
  [count |-> 0, sheet |-> [f \in Fields |-> Unset], result |-> "walking"]

\* The loop goes on as long as there is data left.
NextRound(walk, packet) ==
  IF walk.result # "walking" THEN walk
  ELSE IF walk.count < packet.dataLength THEN NextBlock(packet, walk)
  ELSE [walk EXCEPT !.result = "listed"]

\* The loop of packet_handler_dcp, up to where the device is listed or the handler
\* has left, or to where the code goes on with what is not the packet's (Torn).
\* Each round is at a block of its own, or is the last one.
WalkBlocks(packet) ==
  FoldLeft(NextRound, StartOfBlocks,
           [round \in 1..(Cardinality(DOMAIN packet.blocks) + 1) |-> packet])

\* Only what answers an identify request is looked at: service 5, success.
ReadAnswer(packet) ==
  IF PndcpOffset(packet) = -1 \/ packet.service # <<5, 1>>
  THEN [StartOfBlocks EXCEPT !.result = "none"] ELSE WalkBlocks(packet)

=============================================================================
