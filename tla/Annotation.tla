----------------------------- MODULE Annotation -----------------------------
(***************************************************************************)
(* The 64 bytes by which an endpoint mapper describes a device, and the     *)
(* strings that are cut out of them (packetCapture.c).  A string is a       *)
(* sequence of characters without its end.                                 *)
(***************************************************************************)
EXTENDS Integers, Sequences, SequencesExt

CONSTANT Wild  \* what is read behind the end of an array or a string

Blank == " "

Cell(annotation, i) == IF i < 64 THEN annotation[i + 1] ELSE Wild

\* Mutant of EndOfItem: two blanks end a part.
EndAfterTwoBlanks(annotation, i, lastItem) ==
  IF lastItem THEN i = 63 ELSE \A k \in 0..1 : Cell(annotation, i + k) = Blank

\* A part ends before three blanks, and the last one before the last byte.
EndOfItem(annotation, i, lastItem) ==
  IF lastItem THEN i = 63 ELSE \A k \in 0..2 : Cell(annotation, i + k) = Blank

\* Leading blanks are skipped; after 32 characters the string is left without
\* an end.
CutDataFromString(annotation, offset, lastItem) ==
  LET start == Min({i \in offset..(offset + 64) : Cell(annotation, i) # Blank})
      ends  == {i \in start..(start + 31) : EndOfItem(annotation, i, lastItem)}
      end   == IF ends = {} THEN start + 32 ELSE Min(ends)
      text  == [j \in 1..(end - start) |-> Cell(annotation, start + j - 1)]
  IN  IF ends = {} THEN [text |-> Append(text, Wild), offset |-> end]
      ELSE [text |-> text, offset |-> IF lastItem THEN offset ELSE end]

\* Where the 'V' is that the loops look for without looking for the end.
PlacesOfV(versions) == {i \in DOMAIN versions : versions[i] = "V"}

\* The characters before the 'V', as far as the first blank.
CutHardwareRevision(versions) ==
  IF PlacesOfV(versions) = {} THEN <<Wild>>
  ELSE LET size == Min(PlacesOfV(versions)) - 1 IN
       SubSeq(versions, 1,
              Min({i - 1 : i \in {j \in 1..size : versions[j] = Blank}} \cup {size}))

\* Blanks become dots, but for those before the first number, and of equal dots
\* or blanks in a row one is left.
RemoveDuplicate(str) ==
  LET number == Min({i \in DOMAIN str : i > 1 /\ str[i] # Blank} \cup {Len(str) + 1})
      dotted == [i \in DOMAIN str |->
                   IF i >= number /\ str[i] = Blank THEN "." ELSE str[i]]
      kept   == SelectSeq([i \in DOMAIN str |-> i],
                  LAMBDA i : ~ /\ i < Len(str) /\ dotted[i] = dotted[i + 1]
                               /\ dotted[i] \in {".", Blank})
  IN  [n \in DOMAIN kept |-> dotted[kept[n]]]

CutSoftVersion(versions) ==
  IF PlacesOfV(versions) = {} THEN <<Wild>>
  ELSE RemoveDuplicate(SubSeq(versions, Min(PlacesOfV(versions)), Len(versions)))

\* Without the blanks at both ends, of all 64 bytes.
ExtractAnnotationString(annotation) ==
  LET inked == {i \in DOMAIN annotation : annotation[i] # Blank} IN
  SubSeq(annotation, Min(inked), Max(inked))

\* The three parts are cut one behind the other.
Description(annotation) ==
  LET type     == CutDataFromString(annotation, 0, FALSE)
      order    == CutDataFromString(annotation, type.offset, FALSE)
      versions == CutDataFromString(annotation, order.offset, TRUE).text
  IN  [deviceType      |-> type.text,
       orderId         |-> order.text,
       hardwareRevison |-> CutHardwareRevision(versions),
       version         |-> CutSoftVersion(versions),
       annotation      |-> ExtractAnnotationString(annotation)]

=============================================================================
