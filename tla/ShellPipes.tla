----------------------------- MODULE ShellPipes -----------------------------
(***************************************************************************)
(* How npshell runs a line: project1/311551059/npshell.cpp.                *)
(*                                                                         *)
(* The shell forks the commands of a line one by one, joins them by pipes  *)
(* it opens just in time, and waits for each command after it has forked   *)
(* the next one.  A numbered pipe |n connects the last command of a line   *)
(* to the first one of the n-th next line; its descriptors stay open in    *)
(* the shell until then.  The commands run concurrently with the shell;    *)
(* a pipe holds Cap units of data, and a unit is known by the line whose   *)
(* command produced it.                                                    *)
(*                                                                         *)
(* One line here is one call of HandleOneLineCmd.  (What is typed may hold *)
(* several: "a |2 b |1"; Parser counts each as a line.)                    *)
(***************************************************************************)
EXTENDS Integers, Sequences, FiniteSets

CONSTANTS Lines,     \* the lines typed, see LineType
          MaxLines,  \* bound: lines typed
          MaxStages, \* bound: commands on a line
          MaxFd,     \* bound: the shell's descriptors are 3..MaxFd
          MaxPipes,  \* bound: pipes that exist at the same time
          Inherited, \* the descriptors it was started with, besides 0, 1 and 2
          Cap        \* units a pipe holds

\* "source": ls, or cat of a file, which is one unit; "large" writes more than a
\* pipe holds; "source0" first writes one unit on stderr (removetag0); "filter":
\* cat, number; "noop" reads and writes nothing, and stands for an unknown
\* command as well.
Kinds == {"source", "large", "source0", "filter", "noop"}

\* n is the number of |n or !n (err), 0 when the line has none; file is > file.
LineType == [cmds : Seq(Kinds), n : Nat, err : BOOLEAN, file : BOOLEAN]

ASSUME LinesAssumption ==
  \A l \in Lines : /\ l \in LineType
                   /\ Len(l.cmds) \in 1..MaxStages
                   /\ l.file => l.n = 0
                   /\ l.err => l.n # 0
ASSUME BoundsAssumption == /\ MaxLines \in Nat /\ MaxStages \in Nat \ {0} /\ MaxFd \in Nat
                           /\ MaxPipes \in Nat /\ Inherited \subseteq 3..MaxFd
                           /\ Cap \in Nat \ {0}

Fds   == 3..MaxFd
Pipes == 1..MaxPipes
LineNos == 1..MaxLines
Stages == 1..MaxStages

VARIABLES
  pc,       \* the shell: "prompt", "stage", "clean", "wait", "waitlast", "exited"
  eof,      \* its input has ended
  line_no,  \* OuterPipes.curr_line_no
  cmdline,  \* the line being run
  i,        \* its command being started, from 1
  before, after, \* the OrdinaryPipe's descriptor pairs; <<0, 1>> is none
  wfd,      \* writing_file_fd, 0 when there is none
  outer,    \* OuterPipes.all_outer_pipes
  fds,      \* what each of the shell's descriptors refers to
  kid,      \* kid[l][s]: the process of command s of line l
  buf       \* the contents of each pipe

shVars == <<pc, eof, line_no, cmdline, i, before, after, wfd, outer>>
vars == <<shVars, fds, kid, buf>>

End(p, e) == [pipe |-> p, end |-> e]
R(p) == End(p, "r")
W(p) == End(p, "w")
Tty  == End(0, "tty")
File == End(0, "file")
Shut == End(0, "shut")

NoLine == [cmds |-> <<>>, n |-> 0, err |-> FALSE, file |-> FALSE]
NoKid  == [st |-> "none", kind |-> "noop", in |-> Shut, out |-> Shut, err |-> Shut,
           left |-> 0, errs |-> 0, broken |-> FALSE]

Running(l, s) == kid[l][s].st = "run"

\* Somebody has the end x open, the shell or a command.
Held(x) == \/ \E f \in Fds : fds[f] = x
           \/ \E l \in LineNos, s \in Stages :
                Running(l, s) /\ x \in {kid[l][s].in, kid[l][s].out, kid[l][s].err}

\* The kernel gives out the lowest free descriptor.
Lowest(f) == CHOOSE n \in Fds : f[n] = Shut /\ \A m \in 3..(n - 1) : f[m] # Shut
FreeFds == {f \in Fds : fds[f] = Shut}
FreePipes == {p \in Pipes : ~Held(R(p)) /\ ~Held(W(p))}
FreePipe == CHOOSE p \in FreePipes : TRUE

\* pipe(): the two descriptors and the table with them.
PipeFds == LET r == Lowest(fds) IN <<r, Lowest([fds EXCEPT ![r] = Tty])>>
\* Bound: there are always two free descriptors and a pipe for it.
CanOpen == Cardinality(FreeFds) >= 2 /\ FreePipes # {}
WithPipe == [fds EXCEPT ![PipeFds[1]] = R(FreePipe), ![PipeFds[2]] = W(FreePipe)]

Close(S) == [f \in Fds |-> IF f \in S THEN Shut ELSE fds[f]]

Init == /\ pc = "prompt" /\ eof = FALSE /\ line_no = 0
        /\ cmdline = NoLine /\ i = 1
        /\ before = <<0, 1>> /\ after = <<0, 1>> /\ wfd = 0 /\ outer = <<>>
        /\ fds = [f \in Fds |-> IF f \in Inherited THEN Tty ELSE Shut]
        /\ kid = [l \in LineNos |-> [s \in Stages |-> NoKid]]
        /\ buf = [p \in Pipes |-> <<>>]
-----------------------------------------------------------------------------
(* The shell.                                                              *)

Outer == {outer[k] : k \in DOMAIN outer}
SameDest(d) == {o \in Outer : o.dest = d}
First(S) == outer[CHOOSE k \in DOMAIN outer :
                    outer[k] \in S /\ \A j \in 1..(k - 1) : outer[j] \notin S]

\* (Mutant: the pipe is not opened; its descriptors keep their initial value.)
NeverOpened(no, d) ==
  /\ outer' = Append(outer, [from |-> no, dest |-> d, rd |-> -1, wr |-> -1])
  /\ UNCHANGED <<fds, buf>>

\* (Mutant: every |n gets a pipe of its own.)
NewPipeAlways(no, d) ==
  /\ fds' = WithPipe /\ buf' = [buf EXCEPT ![FreePipe] = <<>>]
  /\ outer' = Append(outer, [from |-> no, dest |-> d,
                             rd |-> PipeFds[1], wr |-> PipeFds[2]])

\* Line no gets an entry for its destination d; lines with one destination
\* share a pipe.
create_outer_pipe(no, d) ==
  IF SameDest(d) # {}
    THEN /\ \E o \in SameDest(d) : outer' = Append(outer, [o EXCEPT !.from = no])
         /\ UNCHANGED <<fds, buf>>
    ELSE /\ CanOpen
         /\ fds' = WithPipe /\ buf' = [buf EXCEPT ![FreePipe] = <<>>]
         /\ outer' = Append(outer, [from |-> no, dest |-> d,
                                    rd |-> PipeFds[1], wr |-> PipeFds[2]])

\* A line is read and numbered.  Commands do not read the terminal: a line
\* that starts with a filter has an earlier line's output.
Parser(l) ==
  /\ pc = "prompt" /\ ~eof /\ line_no < MaxLines
  /\ l.cmds[1] = "filter" => SameDest(line_no + 1) # {}
  /\ line_no' = line_no + 1 /\ cmdline' = l /\ i' = 1
  /\ before' = <<0, 1>> /\ after' = <<0, 1>> /\ pc' = "stage"
  /\ IF l.n # 0 THEN create_outer_pipe(line_no + 1, line_no + 1 + l.n)
                ELSE UNCHANGED <<outer, fds, buf>>
  /\ UNCHANGED <<eof, wfd, kid>>

\* setenv and printenv count as a line.  A pipe that ends there is not closed.
BuiltIn == /\ pc = "prompt" /\ ~eof /\ line_no < MaxLines
           /\ line_no' = line_no + 1
           /\ UNCHANGED <<pc, eof, cmdline, i, before, after, wfd, outer, fds, kid, buf>>

Exit == /\ pc = "prompt" /\ ~eof
        /\ pc' = "exited" /\ fds' = [f \in Fds |-> Shut]
        /\ UNCHANGED <<eof, line_no, cmdline, i, before, after, wfd, outer, kid, buf>>

\* The end of input: getline leaves the string empty and main tries again,
\* for ever.
InputEnds == /\ pc = "prompt" /\ ~eof /\ eof' = TRUE
             /\ UNCHANGED <<pc, line_no, cmdline, i, before, after, wfd, outer, fds,
                            kid, buf>>

Last == i = Len(cmdline.cmds)

\* What the shell's descriptor d refers to, for the child.
Refers(d) == IF d \in Fds THEN fds[d] ELSE Tty

\* Descriptor 0 or the previous command's pipe; for a first command the pipe
\* whose destination is this line.
InFd == IF i = 1 /\ SameDest(line_no) # {}
          THEN First(SameDest(line_no)).rd
          ELSE before[1]

\* The last command writes to its |n, to the file, or to the terminal.
LastOut == LET own == {o \in Outer : o.from = line_no}
           IN IF own # {} THEN Refers(First(own).wr)
              ELSE IF cmdline.file THEN File ELSE Tty

Amount(kind) == CASE kind \in {"source", "source0"} -> 1 [] kind = "large" -> Cap + 1
                     [] OTHER -> 0

Child(in, out) ==
  [st |-> "run", kind |-> cmdline.cmds[i], in |-> in, out |-> out,
   err |-> IF Last /\ cmdline.err THEN out ELSE Tty,
   left |-> Amount(cmdline.cmds[i]),
   errs |-> IF cmdline.cmds[i] = "source0" THEN 1 ELSE 0,
   broken |-> FALSE]

\* A command that is not the last gets a new pipe to the next one.  The child
\* keeps its three standard descriptors and closes every pipe's; that, and
\* exec, are part of the fork here.
ForkProcess ==
  /\ pc = "stage"
  /\ IF Last
       THEN /\ kid' = [kid EXCEPT ![line_no][i] = Child(Refers(InFd), LastOut)]
            /\ IF cmdline.file
                 THEN /\ FreeFds # {}
                      /\ wfd' = Lowest(fds) /\ fds' = [fds EXCEPT ![wfd'] = File]
                 ELSE UNCHANGED <<wfd, fds>>
            /\ UNCHANGED <<after, buf>>
       ELSE /\ CanOpen
            /\ kid' = [kid EXCEPT ![line_no][i] = Child(Refers(InFd), W(FreePipe))]
            /\ fds' = WithPipe /\ buf' = [buf EXCEPT ![FreePipe] = <<>>]
            /\ after' = PipeFds /\ UNCHANGED wfd
  /\ pc' = "clean"
  /\ UNCHANGED <<eof, line_no, cmdline, i, before, outer>>

\* (Mutant: the write end stays open.)
ReadEnd(o) == {o.rd}
\* (Mutant: the line's own |n is closed too early.)
Outgoing(o) == o.from = line_no

\* The entry's descriptors, and whether this line is its destination.
OuterFds(o) == {o.rd, o.wr}
IsUsed(o) == o.dest = line_no

BeforeFds == {before[1], before[2]} \ {0, 1}

\* clean_before, update and close_used_pipes, after every fork.
CleanUp ==
  /\ pc = "clean"
  /\ fds' = Close(BeforeFds \cup UNION {OuterFds(o) : o \in {u \in Outer : IsUsed(u)}})
  /\ before' = after /\ pc' = "wait"
  /\ UNCHANGED <<eof, line_no, cmdline, i, after, wfd, outer, kid, buf>>

\* waitpid(kid[l][s]).
Reap(l, s) == /\ kid[l][s].st = "zombie"
              /\ kid' = [kid EXCEPT ![l][s].st = "reaped"]

\* (Mutant: the last command is waited for whatever its output.)
WaitAlways == TRUE

WaitsForLast == cmdline.n = 0

\* The shell waits for the previous command, then starts the next one; after
\* the last one it waits for that one, too, unless it writes to a |n.
WaitPrevious ==
  /\ pc = "wait"
  /\ IF i = 1 THEN UNCHANGED kid ELSE Reap(line_no, i - 1)
  /\ IF Last THEN /\ fds' = Close({wfd}) /\ wfd' = 0 /\ UNCHANGED i
                  /\ pc' = IF WaitsForLast THEN "waitlast" ELSE "prompt"
             ELSE i' = i + 1 /\ pc' = "stage" /\ UNCHANGED <<fds, wfd>>
  /\ UNCHANGED <<eof, line_no, cmdline, before, after, outer, buf>>

WaitLast == /\ pc = "waitlast" /\ Reap(line_no, i) /\ pc' = "prompt"
            /\ UNCHANGED <<eof, line_no, cmdline, i, before, after, wfd, outer, fds, buf>>

Shell == ForkProcess \/ CleanUp \/ WaitPrevious \/ WaitLast
-----------------------------------------------------------------------------
(* The commands.                                                           *)

Ends(l, s, dead) == kid' = [kid EXCEPT ![l][s] = [@ EXCEPT !.st = "zombie",
                                                           !.broken = dead]]

\* A write to x can only fail: nobody reads the pipe (SIGPIPE), or x is shut.
Broken(x) == x = Shut \/ (x.end = "w" /\ ~Held(R(x.pipe)))

\* A unit of line l is written to x; a full pipe blocks.
Put(b, x, l) == IF x.end = "w" THEN [b EXCEPT ![x.pipe] = Append(@, l)] ELSE b

HasRoom(x) == x.end = "w" => Len(buf[x.pipe]) < Cap

WriteError(l, s) ==
  LET k == kid[l][s]
  IN /\ Running(l, s) /\ k.errs > 0 /\ ~Broken(k.err) /\ HasRoom(k.err)
     /\ kid' = [kid EXCEPT ![l][s].errs = 0] /\ buf' = Put(buf, k.err, l)
     /\ UNCHANGED <<shVars, fds>>

Produce(l, s) ==
  LET k == kid[l][s]
  IN /\ Running(l, s) /\ k.errs = 0 /\ k.left > 0 /\ ~Broken(k.out) /\ HasRoom(k.out)
     /\ kid' = [kid EXCEPT ![l][s].left = @ - 1] /\ buf' = Put(buf, k.out, l)
     /\ UNCHANGED <<shVars, fds>>

\* A filter passes on one unit of its input.
Copy(l, s) ==
  LET k == kid[l][s]
      p == k.in.pipe
  IN /\ Running(l, s) /\ k.kind = "filter" /\ k.in.end = "r" /\ buf[p] # <<>>
     /\ ~Broken(k.out) /\ HasRoom(k.out)
     /\ buf' = Put([buf EXCEPT ![p] = Tail(@)], k.out, Head(buf[p]))
     /\ UNCHANGED <<shVars, fds, kid>>

\* SIGPIPE, or an output that is not open, ends a command that has to write.
DieWriting(l, s) ==
  LET k == kid[l][s]
  IN /\ Running(l, s)
     /\ \/ k.errs > 0 /\ Broken(k.err)
        \/ k.left > 0 /\ k.errs = 0 /\ Broken(k.out)
        \/ k.kind = "filter" /\ k.in.end = "r" /\ buf[k.in.pipe] # <<>> /\ Broken(k.out)
     /\ Ends(l, s, TRUE)
     /\ UNCHANGED <<shVars, fds, buf>>

\* A source ends when it has written all, a filter at the end of its input:
\* the pipe is empty and nobody can write to it, or the input is not open.
Finish(l, s) ==
  LET k == kid[l][s]
  IN /\ Running(l, s) /\ k.left = 0 /\ k.errs = 0
     /\ k.kind = "filter" =>
          \/ k.in.end = "r" /\ buf[k.in.pipe] = <<>> /\ ~Held(W(k.in.pipe))
          \/ k.in = Shut
     /\ Ends(l, s, FALSE)
     /\ UNCHANGED <<shVars, fds, buf>>

Command(l, s) == WriteError(l, s) \/ Produce(l, s) \/ Copy(l, s) \/ DieWriting(l, s)
                   \/ Finish(l, s)
-----------------------------------------------------------------------------
Next == \/ \E l \in Lines : Parser(l)
        \/ BuiltIn \/ Exit \/ InputEnds \/ Shell
        \/ \E l \in LineNos, s \in Stages : Command(l, s)

\* Processes that can run do, and nobody has to type.  For a line there are
\* finitely many steps, so it is enough that some process runs.
Runs == Shell \/ \E l \in LineNos, s \in Stages : Command(l, s)

Spec == Init /\ [][Next]_vars /\ WF_vars(Runs)
-----------------------------------------------------------------------------
(* Properties.                                                             *)

EndType == [pipe : 0..MaxPipes, end : {"r", "w", "tty", "file", "shut"}]
KidType == [st : {"none", "run", "zombie", "reaped"}, kind : Kinds, in : EndType,
            out : EndType, err : EndType, left : 0..(Cap + 1), errs : 0..1,
            broken : BOOLEAN]

\* Every variable has its type, and no pipe holds more than its capacity.
TypeOK ==
  /\ pc \in {"prompt", "stage", "clean", "wait", "waitlast", "exited"}
  /\ eof \in BOOLEAN /\ line_no \in 0..MaxLines /\ cmdline \in Lines \cup {NoLine}
  /\ i \in Stages /\ wfd \in {0} \cup Fds
  /\ {before, after} \subseteq ({0} \cup Fds) \X ({1} \cup Fds)
  /\ Outer \subseteq [from : LineNos, dest : Nat, rd : Fds, wr : Fds]
  /\ fds \in [Fds -> EndType]
  /\ kid \in [LineNos -> [Stages -> KidType]]
  /\ \A p \in Pipes : buf[p] \in Seq(LineNos) /\ Len(buf[p]) <= Cap

Started(l, s) == kid[l][s].st # "none"
LastStage(l) == CHOOSE s \in Stages : Started(l, s) /\ (s < MaxStages => ~Started(l, s + 1))

\* The command <<m, t>> reads what <<l, s>> writes: it is the next on the line,
\* or the first one of the line that the |n of line l names.
Feeds(l, s, m, t) ==
  \/ m = l /\ t = s + 1
  \/ /\ \E o \in Outer : o.from = l /\ o.dest = m
     /\ t = 1 /\ Started(l, s) /\ s = LastStage(l)

\* Lines of three commands do not receive a numbered pipe: from the second command
\* on, close_used_pipes closes descriptors that may have been given out again.
NotStale == Len(cmdline.cmds) < 3 \/ SameDest(line_no) = {}

\* Every two commands that belong together are joined by one pipe, however many
\* lines send their output to one destination and whatever the descriptors that
\* were closed and reused in between.
Connected ==
  \A l, m \in LineNos, s, t \in Stages :
    Feeds(l, s, m, t) /\ Started(l, s) /\ Started(m, t)
      => kid[l][s].out.end = "w" /\ kid[m][t].in = R(kid[l][s].out.pipe)

\* A command loses output only if the one that should read it does not read
\* (it is not a filter), or lost its own output, or the shell has gone.
OutputArrives ==
  \A l \in LineNos, s \in Stages :
    kid[l][s].broken =>
      \/ pc = "exited"
      \/ \E m \in LineNos, t \in Stages :
           /\ Feeds(l, s, m, t) /\ Started(m, t)
           /\ kid[m][t].kind # "filter" \/ kid[m][t].broken

\* Line m was setenv or printenv: it has started no command.
WasBuiltIn(m) == m \in 1..line_no /\ ~Started(m, 1)

\* At the prompt the shell has open exactly the pipes of the lines to come, and of
\* those that were built-ins when their turn came: these are never closed.
NoLeak == pc = "prompt" =>
            {f \in Fds : fds[f] # Shut}
              = Inherited \cup UNION {{o.rd, o.wr} : o \in {u \in Outer : u.dest > line_no
                                                                    \/ WasBuiltIn(u.dest)}}

\* Every line ends and the prompt comes back.
LinesEnd == pc \notin {"prompt", "exited"} ~> pc = "prompt"
=============================================================================
