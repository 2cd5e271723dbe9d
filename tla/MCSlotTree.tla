----------------------------- MODULE MCSlotTree -----------------------------
(* Instances of SlotTree for TLC. *)
EXTENDS SlotTree

\* A device with three ports in two slots that may answer for its slots twice,
\* and one whose first slot has no submodule.
TwoDevices ==
  << << [number |-> 0, subs |-> <<1>>], [number |-> 1, subs |-> <<1, 2>>] >>,
     << [number |-> 0, subs |-> <<>>], [number |-> 1, subs |-> <<1>>] >> >>
TwiceOnce == <<2, 1>>
=============================================================================
