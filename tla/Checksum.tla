------------------------------ MODULE Checksum ------------------------------
(***************************************************************************)
(* The IP and UDP checksums of the requests (packetHandler.c).  A packet is *)
(* a sequence of bytes.  The UDP checksum is computed over a pseudo header  *)
(* of the program's own, which begins with the protocol and without the     *)
(* zero byte before it: each byte stands in the other half of its word than *)
(* in the real pseudo header.  It is stored low byte first.                 *)
(***************************************************************************)
EXTENDS Integers, Sequences, SequencesExt

\* BytesTo16.
Word(high, low) == high * 256 + low

Bytes(word) == <<word \div 256, word % 256>>

\* The largest unsigned short.
MaxWord == 65535

\* Mutant of AddWord: the carry is lost.
AddWordModulo(sum, word) == (sum + word) % (MaxWord + 1)

\* An unsigned short addition and its end-around carry.
AddWord(sum, word) ==
  LET difference == MaxWord - sum
      added == (sum + word) % (MaxWord + 1)
  IN  IF word > difference THEN (added + 1) % (MaxWord + 1) ELSE added

\* The words of bytes, whose number is even.
Words(bytes) ==
  [n \in 1..(Len(bytes) \div 2) |-> Word(bytes[2 * n - 1], bytes[2 * n])]

\* The loop over the words.
Sum(bytes) == FoldLeft(AddWord, 0, Words(bytes))

\* htons on a little-endian machine.
Swapped(word) == Word(word % 256, word \div 256)

\* calculateIPChecksum of a header whose checksum field is zero.
IPChecksum(header) == Swapped(MaxWord - Sum(header))

Padded(bytes) == IF Len(bytes) % 2 = 1 THEN Append(bytes, 0) ELSE bytes

\* Mutant of PseudoHeader: the protocol is preceded by a zero byte.
PseudoHeaderZero(protocol, addresses, ports, data) ==
  LET length == Bytes(Len(data) + 8) IN
  Padded(<<0, protocol>> \o addresses \o length \o length \o ports \o data)

\* The length stands there twice: of the pseudo header and of UDP itself.
PseudoHeader(protocol, addresses, ports, data) ==
  LET length == Bytes(Len(data) + 8) IN
  Padded(<<protocol>> \o addresses \o length \o length \o ports \o data)

\* calculateUDPChecksum.
UDPChecksum(protocol, addresses, ports, data) ==
  MaxWord - Sum(PseudoHeader(protocol, addresses, ports, data))

\* packet[n] = checksum & 0xFF; packet[n + 1] = checksum >> 8.
Stored(checksum) == <<checksum % 256, checksum \div 256>>

=============================================================================
