----------------------------- MODULE Inventory -----------------------------
(***************************************************************************)
(* What the list of found devices promises, whatever threads, packets and   *)
(* list nodes stand behind it: a device enters it once and stays, only      *)
(* after it has answered, and what the list says of it is something that    *)
(* device has said.                                                         *)
(***************************************************************************)
CONSTANT Devices

VARIABLES
  said,      \* said[d]: the kinds of answers d may have sent
  inventory  \* what is known of the devices in the list

vars == <<said, inventory>>

Kinds == {"identify", "unknown", "full"}

Init ==
  /\ said = [d \in Devices |-> {}]
  /\ inventory = [d \in {} |-> "identify"]

\* Devices answer, perhaps in ways they have answered before.
Say ==
  /\ said' \in [Devices -> SUBSET Kinds]
  /\ \A d \in Devices : said[d] \subseteq said'[d]
  /\ UNCHANGED inventory

\* A device is entered with what it has said.
Discover(d, k) ==
  /\ d \notin DOMAIN inventory /\ k \in said[d]
  /\ inventory' = [e \in DOMAIN inventory \cup {d} |->
                     IF e = d THEN k ELSE inventory[e]]
  /\ UNCHANGED said

\* What is known of a device is replaced by another thing it has said.
Describe(d, k) ==
  /\ d \in DOMAIN inventory /\ k \in said[d] \ {"identify"}
  /\ inventory' = [inventory EXCEPT ![d] = k]
  /\ UNCHANGED said

Next ==
  Say \/ \E d \in Devices, k \in Kinds : Discover(d, k) \/ Describe(d, k)

Spec == Init /\ [][Next]_vars
=============================================================================
