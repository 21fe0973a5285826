---------------------------- MODULE MCPttClient ----------------------------
(* The client with one control thread and one or two input threads. *)
EXTENDS PttClient, TLC

CONSTANTS i1, i2, c1

OneInput == {i1}
TwoInputs == {i1, i2}
OneControl == {c1}

InputSymmetry == Permutations(InputThreads)
=============================================================================
