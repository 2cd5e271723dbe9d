------------------------------- MODULE Records -------------------------------
(***************************************************************************)
(* What is read out of the records that devices answer to implicit reads    *)
(* (packetCapture.c): the interface among the blocks of PDRealData, and the *)
(* fields of one port's PDRealData.  Offsets count from the record's first  *)
(* byte.                                                                   *)
(***************************************************************************)
EXTENDS Integers, Sequences, SequencesExt, FiniteSets

CONSTANT Stray  \* what is read where the record has nothing of the kind

ASSUME StrayAssumption == Stray \notin {"walking", "found", "none"}

-----------------------------------------------------------------------------
(* A PDRealData record: its length, and the function from the offsets where *)
(* a header stands to the header, of an interface, a multiple block, or     *)
(* other.                                                                   *)

\* Where the walk is: the block bh, the multiple block mBH it was reached from
\* with its length, and startmBH.
StartOfWalk(record) ==
  [bh |-> 16, mbh |-> 0, length |-> record.headers[0].length, start |-> 20,
   result |-> "walking"]

\* Mutant of NextMultiple: the distance is counted in bytes.
NextMultipleInBytes(walk) == walk.mbh + 4 + walk.length

\* The pointer is moved by as many multiple block headers of 16 bytes.
NextMultiple(walk) == walk.mbh + 16 * walk.length

\* The first loop's next round, which leaves bh where it is.
EnterMultiple(walk, record) ==
  LET next == NextMultiple(walk) IN
  IF next \notin DOMAIN record.headers THEN [walk EXCEPT !.result = Stray]
  ELSE [walk EXCEPT !.mbh = next, !.length = record.headers[next].length,
                    !.start = walk.bh + 4]

\* One round of the inner loop, which looks at a block before the end.
NextHeader(walk, record) ==
  IF walk.result # "walking" THEN walk
  ELSE IF walk.bh \notin DOMAIN record.headers THEN [walk EXCEPT !.result = Stray]
  ELSE IF record.headers[walk.bh].kind = "interface"
  THEN [walk EXCEPT !.result = "found"]
  ELSE LET behind == [walk EXCEPT !.bh = walk.bh + 4 + record.headers[walk.bh].length] IN
       IF behind.bh - walk.start < walk.length THEN behind
       ELSE IF behind.bh < record.length THEN EnterMultiple(behind, record)
       ELSE [behind EXCEPT !.result = "none"]

\* getPDRealData: "found" with the interface at bh, "none", or Stray.  Every round
\* looks at the same record.
FindInterface(record) ==
  FoldLeft(NextHeader, StartOfWalk(record),
           [round \in 1..(2 * Cardinality(DOMAIN record.headers) + 1) |-> record])

\* The name follows its length, the rest at the next fourth byte.
InterfaceFields(bh, nameLength) ==
  LET position == bh + 7 + nameLength
                    + (IF (nameLength + 23) % 4 = 0 THEN 0
                       ELSE 4 - ((nameLength + 23) % 4))
  IN  [nameOfStation |-> bh + 7, deviceMACaddress |-> position,
       subnetmask |-> position + 12, defaultGateway |-> position + 16]

-----------------------------------------------------------------------------
(* A port's record is the sequence of its bytes.                            *)

ByteAt(record, offset) ==
  IF offset < Len(record) THEN record[offset + 1] ELSE Stray

BytesFrom(record, offset, n) == [i \in 1..n |-> ByteAt(record, offset + i - 1)]

\* Mutant of BehindChassis: the padding is that of the ID alone.
BehindChassisUnaligned(length) == 34 + length + 4 + ((4 - (length % 4)) % 4)

\* Behind the chassis ID, its padding and the line delay.
BehindChassis(length) == 34 + length + 4 + ((4 - ((length + 62) % 4)) % 4)

\* getSubmodulPDRealData, which takes each port ID for eight bytes; without a
\* peer the MAU type is stored as it comes.
PortData(record) ==
  LET own == BytesFrom(record, 13, ByteAt(record, 12))
      chassisLength == ByteAt(record, 33)
      mac == BehindChassis(chassisLength)
  IN  IF ByteAt(record, 21) = 0
      THEN [ownPortID |-> own, peerPortID |-> <<>>, peerChassisID |-> <<>>,
            peerMacAddress |-> <<>>,
            MAUType   |-> Reverse(BytesFrom(record, 24, 2)),
            portState |-> BytesFrom(record, 36, 2)]
      ELSE [ownPortID |-> own,
            peerPortID     |-> BytesFrom(record, 25, ByteAt(record, 24)),
            peerChassisID  |-> BytesFrom(record, 34, chassisLength),
            peerMacAddress |-> BytesFrom(record, mac, 6),
            MAUType        |-> BytesFrom(record, mac + 8, 2),
            portState      |-> BytesFrom(record, mac + 20, 2)]

=============================================================================
