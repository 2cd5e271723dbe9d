------------------------------- MODULE Cleanup -------------------------------
(***************************************************************************)
(* What is freed when the scan is over (linkedList.c), in order.  A list is *)
(* the sequence of its devices, a device has the sequence of its slots with *)
(* the number of subslots of each, and its name and hardware revision are   *)
(* on the heap, "" in the program, or Null.                                 *)
(***************************************************************************)
EXTENDS Integers, Sequences, SequencesExt

CONSTANT Null

\* NULL is no string.
ASSUME NullAssumption == Null \notin {"heap", "literal"}

\* The positions of a list of n, from its end to the second: "start at the end
\* and delete every item".
FromTheEnd(n) == [i \in 1..(n - 1) |-> n + 1 - i]

\* Mutant of FreedItems: the loop ends one item early.
AllButTwo(n) == SelectSeq(FromTheEnd(n), LAMBDA i : i > 2)

\* The items of a list of n that empty_SubSlotList and empty_SlotList free: a
\* single one, or all but the first.
FreedItems(n) == IF n = 1 THEN <<1>> ELSE FromTheEnd(n)

\* empty_SubSlotList of slot s of device d; the peers' strings stay.
EmptySubSlotList(d, s, count) ==
  [i \in DOMAIN FreedItems(count) |-> <<"subslot", d, s, FreedItems(count)[i]>>]

\* empty_SlotList; a single slot goes without its subslots.
EmptySlotList(d, slots) ==
  FlattenSeq([i \in DOMAIN FreedItems(Len(slots)) |->
    LET s == FreedItems(Len(slots))[i] IN
    (IF Len(slots) > 1 THEN EmptySubSlotList(d, s, slots[s]) ELSE <<>>)
      \o << <<"slot", d, s>> >>])

\* free(string), when it is not NULL.
FreeString(what, d, string) ==
  IF string = Null THEN <<>> ELSE << <<what, d, string>> >>

(***************************************************************************)
(* empty_list.  Its loop frees all nodes but the last; then the first is    *)
(* asked whether it is the only one, which reads freed memory unless it is. *)
(* What stands there is the old pointer, or NULL.                           *)
(***************************************************************************)
EmptyList(list, oldPointer) ==
  LET loop == FlattenSeq([d \in 1..(Len(list) - 1) |->
                EmptySlotList(d, list[d].slots) \o << <<"node", d>> >>])
      last == FreeString("name", 1, list[1].name)
                \o FreeString("hardware", 1, list[1].hardware)
                \o EmptySlotList(Len(list), Last(list).slots)
                \o << <<"node", 1>> >>
  IN  IF list = <<>> THEN <<>>
      ELSE IF Len(list) = 1 \/ ~oldPointer THEN loop \o last
      ELSE loop

=============================================================================
