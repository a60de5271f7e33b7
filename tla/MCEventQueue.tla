--------------------------- MODULE MCEventQueue ----------------------------
(* Small instances of EventQueue: handles are numbers, the rest model      *)
(* values given in the configurations.                                     *)
EXTENDS EventQueue, TLC

OneHandle == {1}
TwoHandles == {1, 2}
ThreeHandles == {1, 2, 3}
Interchangeable == Permutations(Objects) \cup Permutations(Changers)
=============================================================================
