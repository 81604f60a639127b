---------------------------- MODULE MCMultiProc ----------------------------
(* Small instances of MultiProc. *)
EXTENDS MultiProc, TLC

CONSTANTS p1, p2, p3, n1, n2

Two == {p1, p2}
Three == {p1, p2, p3}
Nicks == {n1, n2}
ProcSymm == Permutations(Procs)
Symm == ProcSymm \cup Permutations(Names)

TalkOps == OpNames \ {"line"}
PipeOps == {"line", "exit"}
YellOps == {"yell"}
AllOps == OpNames

NoFaults == {}
Restarting == {"kill"}
AllFaults == FaultNames
=============================================================================
