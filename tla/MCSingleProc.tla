--------------------------- MODULE MCSingleProc ---------------------------
(* Small instances of SingleProc: the commands that are typed. *)
EXTENDS SingleProc, TLC

CONSTANTS n1, n2, f1, f2, f3, q1, q2, q3

Cmd(o)        == [NoCmd EXCEPT !.op = o]
NameTo(n)     == [Cmd("name") EXCEPT !.name = n]
UserPipe(r, w) == [Cmd("line") EXCEPT !.recv = r, !.send = w]
ToNext(r, b)  == [Cmd("line") EXCEPT !.recv = r, !.next = TRUE, !.big = b]

One == {q1}
Two == {q1, q2}
Three == {q1, q2, q3}
Nicks == {n1}
TwoFds == {f1, f2}
ThreeFds == {f1, f2, f3}

\* "cat <n" and "ls >n", and exit
UserPipeCmds == {Cmd("exit")} \cup {UserPipe(r, 0) : r \in 1..3}
                              \cup {UserPipe(0, w) : w \in 1..3}

\* Three users send and receive, take a name, look who is there and leave.
RoomCmds == UserPipeCmds \cup {NameTo(n1), Cmd("who")}

\* Two users with built-ins, "ls |1", "cat", "ls >n", "cat <n" and "cat <n >m".
ServeCmds == {Cmd("exit"), Cmd("say"), Cmd("env"), ToNext(0, FALSE)}
               \cup {UserPipe(r, w) : r \in 0..2, w \in 0..2}

\* "ls |1", "cat large_file.txt |1", "cat" and exit
NextCmds == {Cmd("exit"), Cmd("line"), ToNext(0, FALSE), ToNext(0, TRUE)}

\* Clients type one after the other.
InTurn == Cardinality({f \in Fds : sock[f] = "typed"}) <= 1

Symmetry == Permutations(Fds)
===========================================================================
