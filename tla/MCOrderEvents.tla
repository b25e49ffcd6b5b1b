---------------------------- MODULE MCOrderEvents ----------------------------
(* Model values for OrderEvents.                                            *)
EXTENDS OrderDelivery, TLC

CONSTANTS r1, r2, i1, i2

TwoCalls == {r1, r2}
OneProcess == {i1}
TwoProcesses == {i1, i2}

\* Calls are interchangeable, and so are processes.
CallSymmetry == Permutations(Requests) \union Permutations(Instances)
=============================================================================
