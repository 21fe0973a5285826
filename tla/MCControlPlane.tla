--------------------------- MODULE MCControlPlane ---------------------------
(* Small instances of the control plane.  The first player has two devices and
   so two sessions; the second player has one. *)
EXTENDS ControlPlane, TLC

CONSTANTS
    p1, p2,       \* players
    n1, n2,       \* nodes
    a1, a2, b1,   \* sessions: two of p1, one of p2
    w1, w2,       \* HTTP workers
    mt            \* the maintenance thread

OnePlayer == {p1}
TwoPlayers == {p1, p2}
OneNode == {n1}
TwoNodes == {n1, n2}
OneWorker == {w1}
TwoWorkers == {w1, w2}

OneDeviceEach == {a1, b1}
ThreeDevices == {a1, a2, b1}
OneDevice == {a1}

MCOwner == [s \in Sessions |-> IF s = b1 THEN p2 ELSE p1]

WorkerSymmetry == Permutations(Workers)
=============================================================================
