---------------------------- MODULE MCAlgorithms ----------------------------
(* Inputs of Algorithms for TLC. *)
EXTENDS Algorithms

Cable(a, p, b, q) == {<<a, p>>, <<b, q>>}

\* Lines of listed and other devices, two devices with two cables, a ring, a
\* switch with more peers than the arrays hold, and one with a listed peer.
SmallNetworks ==
  { [listed |-> {"a", "b", "c"},
     cables |-> {Cable("a", 1, "b", 1), Cable("b", 2, "c", 1)}],
    [listed |-> {"a", "b"},
     cables |-> {Cable("x", 1, "b", 2), Cable("b", 1, "a", 2), Cable("a", 1, "y", 1)}],
    [listed |-> {"a", "b"},
     cables |-> {Cable("a", 1, "b", 2), Cable("a", 2, "b", 1)}],
    [listed |-> {"a", "b", "c"},
     cables |-> {Cable("a", 1, "b", 1), Cable("b", 2, "c", 1), Cable("c", 2, "a", 2)}],
    [listed |-> {"s"},
     cables |-> {Cable("s", n, ToString(n), 1) : n \in 1..9}],
    [listed |-> {"s", "a"},
     cables |-> {Cable("s", n, ToString(n), 1) : n \in 1..3} \cup {Cable("a", 1, "s", 4)}] }
=============================================================================
