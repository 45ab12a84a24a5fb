--------------------------- MODULE MCNetworkSetup ----------------------------
(***************************************************************************)
(* Model checking of NetworkSetup: two programs, three containers, two of  *)
(* which have ids that begin with the same eight characters, and three     *)
(* addresses, so that one can be leaked while two go round.                *)
(***************************************************************************)
EXTENDS NetworkSetup, TLC
CONSTANTS p1, p2, c1, c2, c3, a1, a2, a3
TwoProcs == {p1, p2}
ThreeContainers == {c1, c2, c3}
ThreeAddresses == {a1, a2, a3}
TwoNames == {"veth1", "veth2"}
Truncated == [c \in ThreeContainers |-> IF c = c3 THEN "veth2" ELSE "veth1"]
Interchangeable ==
  Permutations(TwoProcs) \cup Permutations({c1, c2})
    \cup Permutations(ThreeAddresses)

\* No claim about addresses is made once a call was muddled or ipam.json was lost,
\* which both stay so.
StillClear == muddled = {} /\ ~lost
==============================================================================
