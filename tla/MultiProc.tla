----------------------------- MODULE MultiProc -----------------------------
(***************************************************************************)
(* The multi-process chat shell, project2/311551059/np_multi_proc_sem.cpp. *)
(*                                                                         *)
(* A parent accepts connections and forks one process per client.  The     *)
(* processes share the client table, the user-pipe table and one message   *)
(* buffer, guarded by two semaphores: `sem' for the buffer, `sem_clients'  *)
(* (here semc) for the two tables.  SIGUSR1 tells a process to print the   *)
(* buffer, SIGUSR2 to open the FIFO of a new user pipe for reading.        *)
(*                                                                         *)
(* One action stands for the code between two points where a process can   *)
(* block or where another process can see a difference.  A critical        *)
(* section that only reads and does not block (who, the choice of an id,   *)
(* `<n', the kill loop of a login) is one action that needs the semaphore  *)
(* free and leaves it free.                                                *)
(***************************************************************************)
EXTENDS Integers, FiniteSets

CONSTANTS Procs,     \* the processes the parent can fork, one per connection
          N,         \* usable ids are 1..N (30 in the code)
          MaxArg,    \* the largest user number typed after tell, < and >
          Names,     \* the names typed after name
          Ops,       \* the commands the clients type
          Serial,    \* TRUE: one command or connection at a time
          Faults,    \* what goes wrong, see FaultNames
          NoProc,    \* pid 0, descriptor -1, an empty buffer
          NoName,    \* the empty name of a free slot
          Anon       \* "(no name)"

OpNames == {"who", "name", "tell", "yell", "exit", "line"}

\* "close": a client closes its connection without exit; "kill": the server and
\* its children are killed and started again; "interrupt": so by Ctrl-C (SIGINT).
FaultNames == {"close", "kill", "interrupt"}

ASSUME NAssumption == N \in Nat \ {0}
ASSUME ArgAssumption == MaxArg \in Nat /\ MaxArg >= N
ASSUME OpsAssumption == Ops \subseteq OpNames /\ Serial \in BOOLEAN
ASSUME FaultsAssumption == Faults \subseteq FaultNames
ASSUME NoProcAssumption == NoProc \notin Procs
ASSUME NamesAssumption == NoName \notin Names /\ Anon \notin Names /\ NoName # Anon

Slots == 1..N

VARIABLES
  ppc,       \* the parent: "accept", "pick", "reg", or "overrun" past the table
  kid, nid,  \* the parent's childpid and the id it chose
  pc,        \* per process, where it is
  hid,       \* per process, the id it was forked with (npshell's argument)
  my_id,     \* per process, the global my_id: 0 until npshell starts
  cmd,       \* per process, the line being executed
  line,      \* per process, the flags Parser sets for HandleOneLineCmd
  cpid,      \* clients[i].pid
  cname,     \* clients[i].name
  receive,   \* all_user_pipes[i].receive[j]
  rfd,       \* all_user_pipes[i].receiver_open_fd[j]: whose pipe it reads
  fifo,      \* user_pipe/i_to_j: "none", "made", or "read" (a reader has it)
  buffer,    \* whose message shm_buffer holds
  sem, semc, \* the two semaphores' values
  usr1,      \* per process, SIGUSR1 pending
  usr2,      \* per process, SIGUSR2 pending
  hnd, hfd,  \* per process, the SIGUSR2 handler's i (0: not running) and fd
  closed,    \* per process, its client has closed the connection
  lost       \* the semaphores that a process has died with

mainVars == <<ppc, kid, nid>>
parVars  == <<mainVars, closed, lost>>
procVars == <<hid, my_id, cmd, line>>
tblVars  == <<cpid, cname>>
pipeVars == <<receive, rfd, fifo>>
semVars  == <<sem, semc, buffer>>
hndVars  == <<hnd, hfd>>
sigVars  == <<usr1, usr2>>
vars == <<parVars, pc, procVars, tblVars, pipeVars, semVars, sigVars, hndVars>>

Cmd(o, n, r, s) == [op |-> o, name |-> n, recv |-> r, send |-> s]
NoCmd  == Cmd("line", NoName, 0, 0)
NoLine == [from |-> 0, fd |-> NoProc, to |-> 0, wr |-> FALSE]

\* The lines a client can type.  recv is the n of <n and send the n of >n or of
\* tell, 0 when there is none; a pipe to oneself is excluded, as the assignment
\* says.
Commands(p) ==
  {c \in      {Cmd(o, NoName, 0, 0) : o \in {"who", "yell", "exit"}}
         \cup {Cmd("name", n, 0, 0) : n \in Names}
         \cup {Cmd("tell", NoName, 0, i) : i \in 1..MaxArg}
         \cup {Cmd("line", NoName, r, s) : r \in 0..MaxArg \ {my_id[p]},
                                          s \in 0..MaxArg \ {my_id[p]}} :
     c.op \in Ops}

Alive(p) == pc[p] \notin {"unborn", "gone"}

\* p's main program runs: it is alive and not inside the SIGUSR2 handler.
At(p, l) == pc[p] = l /\ hnd[p] = 0
Goto(p, l) == pc' = [pc EXCEPT ![p] = l]

\* kill(q, SIGUSR1) for every q of T by p.  A signal a process sends itself is
\* handled before kill returns, so p has none pending afterwards.
Signal1(T, p) ==
  usr1' = [q \in Procs |-> IF q = p THEN usr1[q] /\ p \notin T
                                    ELSE usr1[q] \/ (q \in T /\ Alive(q))]

\* The command is over: back to the prompt.
Return(p) == Goto(p, "prompt") /\ cmd' = [cmd EXCEPT ![p] = NoCmd]

\* p dies where it is, and its pending signals with it.
Die(p) == /\ Goto(p, "gone")
          /\ usr1' = [usr1 EXCEPT ![p] = FALSE]
          /\ usr2' = [usr2 EXCEPT ![p] = FALSE]

\* A handler ran: an interrupted open starts again from the file's name.
Restart(p) == pc' = [pc EXCEPT ![p] = IF @ = "orphaned" THEN "open" ELSE @]

Registered == {cpid[i] : i \in Slots} \ {NoProc}

\* Nothing is happening: every command typed so far has run to its end.
Quiet == /\ ppc = "accept"
         /\ \A p \in Procs : /\ pc[p] \in {"unborn", "prompt", "gone"}
                             /\ hnd[p] = 0 /\ ~usr1[p] /\ ~usr2[p]

All(v) == [p \in Procs |-> v]
Pairs(v) == [i \in Slots |-> [j \in Slots |-> v]]

Init ==
  /\ ppc = "accept" /\ kid = NoProc /\ nid = 1
  /\ pc = All("unborn") /\ hid = All(0) /\ my_id = All(0)
  /\ cmd = All(NoCmd) /\ line = All(NoLine)
  /\ cpid = [i \in Slots |-> NoProc] /\ cname = [i \in Slots |-> NoName]
  /\ receive = Pairs(FALSE) /\ rfd = Pairs(NoProc) /\ fifo = Pairs("none")
  /\ buffer = NoProc /\ sem = 1 /\ semc = 1
  /\ usr1 = All(FALSE) /\ usr2 = All(FALSE) /\ hnd = All(0) /\ hfd = All(NoProc)
  /\ closed = All(FALSE) /\ lost = {}

HoldsSem(p) ==
  pc[p] \in {"login_kill", "login_sleep", "sleep", "bc_kill", "bc_sleep"}
HoldsClients(p) ==
  pc[p] \in {"buf", "sleep", "post", "mkfifo", "open", "orphaned"}

-----------------------------------------------------------------------------
(* The parent: accept, choose the smallest free id, fork, register.        *)

\* A client connects.  The number of clients online stays at most N.
Accept(p) ==
  /\ ppc = "accept" /\ pc[p] = "unborn" /\ (Serial => Quiet)
  /\ Cardinality({q \in Procs : Alive(q)}) < N
  /\ ppc' = "pick" /\ kid' = p
  /\ UNCHANGED <<nid, closed, lost, pc, procVars, tblVars, pipeVars, semVars, sigVars, hndVars>>

\* (Mutant: the id is the number of users plus one.)
NextId(i) == i = Cardinality(Registered) + 1

\* The loop over the table stops at the first slot with pid 0.
FirstFree(i) == cpid[i] = NoProc /\ \A j \in 1..(i - 1) : cpid[j] # NoProc

\* The scan for a free id, then fork.  With no slot free the scan ends at 31,
\* outside the arrays; what the program does from there on is not modelled.
PickAndFork ==
  /\ ppc = "pick" /\ semc = 1
  /\ IF \A i \in Slots : cpid[i] # NoProc
       THEN ppc' = "overrun" /\ UNCHANGED <<nid, pc, hid>>
       ELSE /\ \E i \in Slots :
                 /\ FirstFree(i)
                 /\ nid' = i /\ hid' = [hid EXCEPT ![kid] = i]
            /\ ppc' = "reg" /\ Goto(kid, "login")
  /\ UNCHANGED <<kid, closed, lost, my_id, cmd, line, tblVars, pipeVars, semVars, sigVars, hndVars>>

\* The parent enters the child into the table, whatever the child did since.
Register ==
  /\ ppc = "reg" /\ semc = 1
  /\ cpid' = [cpid EXCEPT ![nid] = kid]
  /\ cname' = [cname EXCEPT ![nid] = Anon]
  /\ ppc' = "accept" /\ kid' = NoProc /\ nid' = 1
  /\ UNCHANGED <<closed, lost, pc, procVars, pipeVars, semVars, sigVars, hndVars>>

\* SIGCHLD: the parent reaps a dead child; its pid can be used again.  (Bound:
\* the operating system does not hand out a pid the table still holds.)
Reap(p) ==
  /\ pc[p] = "gone" /\ p \notin Registered /\ kid # p
  /\ Goto(p, "unborn")
  /\ hid' = [hid EXCEPT ![p] = 0] /\ my_id' = [my_id EXCEPT ![p] = 0]
  /\ cmd' = [cmd EXCEPT ![p] = NoCmd] /\ line' = [line EXCEPT ![p] = NoLine]
  /\ closed' = [closed EXCEPT ![p] = FALSE]
  /\ UNCHANGED <<mainVars, lost, tblVars, pipeVars, semVars, sigVars, hndVars>>

-----------------------------------------------------------------------------
(* The login broadcast of a new process: sem first, then sem_clients.      *)

\* (Mutant: the message is copied before sem_wait.)
LoginBufferEarly(p) ==
  /\ At(p, "login") /\ buffer' = p
  /\ \/ sem = 1 /\ sem' = 0 /\ Goto(p, "login_kill")
     \/ sem = 0 /\ UNCHANGED <<sem, pc>>
  /\ UNCHANGED <<parVars, procVars, tblVars, pipeVars, semc, sigVars, hndVars>>

LoginBuffer(p) ==
  /\ At(p, "login") /\ sem = 1
  /\ sem' = 0 /\ buffer' = p /\ Goto(p, "login_kill")
  /\ UNCHANGED <<parVars, procVars, tblVars, pipeVars, semc, sigVars, hndVars>>

LoginKill(p) ==
  /\ At(p, "login_kill") /\ semc = 1
  /\ Signal1(Registered, p) /\ Goto(p, "login_sleep")
  /\ UNCHANGED <<parVars, procVars, tblVars, pipeVars, semVars, usr2, hndVars>>

\* (Mutant: my_id is not stored.)
LoginDoneNoId(p) ==
  /\ At(p, "login_sleep") /\ sem' = sem + 1 /\ Goto(p, "prompt")
  /\ UNCHANGED <<parVars, procVars, tblVars, pipeVars, semc, buffer, sigVars, hndVars>>

\* usleep(1000) is over, after any amount of work by the others.  npshell
\* then stores my_id and prints the prompt.
LoginDone(p) ==
  /\ At(p, "login_sleep")
  /\ sem' = sem + 1 /\ my_id' = [my_id EXCEPT ![p] = hid[p]]
  /\ Goto(p, "prompt")
  /\ UNCHANGED <<parVars, hid, cmd, line, tblVars, pipeVars, semc, buffer,
                 sigVars, hndVars>>

-----------------------------------------------------------------------------
(* npshell: one line is read and executed.                                 *)

ReadLine(p, c) ==
  /\ At(p, "prompt") /\ (Serial => Quiet)
  /\ cmd' = [cmd EXCEPT ![p] = c] /\ Goto(p, "cmd")
  /\ UNCHANGED <<parVars, hid, my_id, line, tblVars, pipeVars, semVars,
                 sigVars, hndVars>>

\* The command of p is op and p passes sem_wait(sem_clients).
Enter(p, op) == At(p, "cmd") /\ cmd[p].op = op /\ semc = 1

Who(p) ==
  /\ Enter(p, "who") /\ Return(p)
  /\ UNCHANGED <<parVars, hid, my_id, line, tblVars, pipeVars, semVars, sigVars,
                 hndVars>>

\* (Mutant: the loop starts at 2.)
NameTakenFrom2(n) == \E i \in 2..N : cname[i] = n

NameTaken(n) == \E i \in Slots : cname[i] = n

\* A name somebody has is refused; otherwise the table is updated and p goes on
\* to broadcast while it holds sem_clients.
Name(p) ==
  /\ Enter(p, "name")
  /\ IF NameTaken(cmd[p].name)
       THEN Return(p) /\ UNCHANGED <<cname, semc>>
       ELSE /\ cname' = [cname EXCEPT ![my_id[p]] = cmd[p].name]
            /\ semc' = 0 /\ Goto(p, "buf") /\ UNCHANGED cmd
  /\ UNCHANGED <<parVars, hid, my_id, line, cpid, pipeVars, sem, buffer, sigVars,
                 hndVars>>

\* user_id has no process.  There is no check that the number typed is at most
\* 30: past the array any value can be read.
NoUser(n)  == n \in Slots => cpid[n] = NoProc
HasUser(n) == n \in Slots => cpid[n] # NoProc

\* (Mutant: the error path posts sem_clients once more.)
TellPostsTwice(p) ==
  /\ Enter(p, "tell") /\ NoUser(cmd[p].send) /\ Return(p) /\ semc' = semc + 1
  /\ UNCHANGED <<parVars, hid, my_id, line, tblVars, pipeVars, sem, buffer, sigVars,
                 hndVars>>

\* Past the array, besides, the read may fault: p dies holding sem_clients.
Tell(p) ==
  /\ Enter(p, "tell")
  /\ \/ /\ NoUser(cmd[p].send) /\ Return(p) /\ UNCHANGED <<lost, semc, sigVars>>
     \/ /\ HasUser(cmd[p].send)
        /\ semc' = 0 /\ Goto(p, "buf") /\ UNCHANGED <<lost, cmd, sigVars>>
     \/ /\ cmd[p].send \notin Slots
        /\ semc' = 0 /\ Die(p) /\ lost' = lost \cup {"semc"} /\ UNCHANGED cmd
  /\ UNCHANGED <<mainVars, closed, hid, my_id, line, tblVars, pipeVars, sem, buffer, hndVars>>

Yell(p) ==
  /\ Enter(p, "yell") /\ semc' = 0 /\ Goto(p, "buf")
  /\ UNCHANGED <<parVars, procVars, tblVars, pipeVars, sem, buffer, sigVars, hndVars>>

\* (Mutant: the pid stays in the table.)
FreeNameOnly(p) == UNCHANGED cpid /\ cname' = [cname EXCEPT ![my_id[p]] = NoName]

FreeSlot(p) == /\ cpid' = [cpid EXCEPT ![my_id[p]] = NoProc]
               /\ cname' = [cname EXCEPT ![my_id[p]] = NoName]

\* (Mutant: only the pipes p sends through are removed.)
SentBy(p, i, j) == i = my_id[p]

Involves(p, i, j) == i = my_id[p] \/ j = my_id[p]

\* exit frees the slot and every user pipe from or to it, under sem_clients.
Exit(p) ==
  LET Clear(f, x) == [i \in Slots |-> [j \in Slots |->
                                         IF Involves(p, i, j) THEN x ELSE f[i][j]]]
  IN /\ Enter(p, "exit")
     /\ FreeSlot(p)
     /\ receive' = Clear(receive, FALSE)
     /\ rfd' = Clear(rfd, NoProc)
     /\ fifo' = Clear(fifo, "none")
     /\ semc' = 0 /\ Goto(p, "buf")
     /\ UNCHANGED <<parVars, procVars, sem, buffer, sigVars, hndVars>>

\* (Mutant: sem is not waited for.)
TakeBufferNoWait(p) ==
  /\ At(p, "buf") /\ sem' = 0 /\ buffer' = p /\ Goto(p, "sleep")
  /\ UNCHANGED <<parVars, procVars, tblVars, pipeVars, semc, sigVars, hndVars>>

\* The process told, or everybody in the table.
Told(p) == CASE cmd[p].op # "tell" -> Registered
             [] cmd[p].send \in Slots -> {cpid[cmd[p].send]}
             [] OTHER -> {}

\* name, tell, yell and exit: with sem_clients held, wait for sem, fill the
\* buffer and signal.
TakeBuffer(p) ==
  /\ At(p, "buf") /\ sem = 1
  /\ sem' = 0 /\ buffer' = p /\ Goto(p, "sleep")
  /\ Signal1(Told(p), p)
  /\ UNCHANGED <<parVars, procVars, tblVars, pipeVars, semc, usr2, hndVars>>

PostBuffer(p) ==
  /\ At(p, "sleep") /\ sem' = sem + 1 /\ Goto(p, "post")
  /\ UNCHANGED <<parVars, procVars, tblVars, pipeVars, semc, buffer, sigVars, hndVars>>

\* The command ends; after exit the process is gone, with its signals.
PostClients(p) ==
  /\ At(p, "post") /\ semc' = semc + 1
  /\ IF cmd[p].op = "exit"
       THEN Die(p) /\ UNCHANGED cmd
       ELSE Return(p) /\ UNCHANGED sigVars
  /\ UNCHANGED <<parVars, hid, my_id, line, tblVars, pipeVars, sem, buffer, hndVars>>

-----------------------------------------------------------------------------
(* Parser and HandleOneLineCmd: a line with <n and >n, in either order.    *)

RecvParsed(p) == cmd' = [cmd EXCEPT ![p].recv = 0]
SendParsed(p) == cmd' = [cmd EXCEPT ![p].send = 0]

\* <n: both checks and the reading of the descriptor are one critical section.
\* Past the table what is read may be 0, or fault, or let the line go on with a
\* pipe that is not in the tables: that line is sure to broadcast.  (Here it does
\* when <n is the last to be parsed; nothing read here depends on the order.)
ParseRecv(p) ==
  LET n == cmd[p].recv
  IN /\ Enter(p, "line") /\ n # 0
     /\ \/ /\ NoUser(n) \/ (n \in Slots /\ ~receive[n][my_id[p]])
           /\ RecvParsed(p) /\ UNCHANGED <<lost, pc, line, semc, sigVars>>
        \/ /\ n \in Slots /\ cpid[n] # NoProc /\ receive[n][my_id[p]]
           /\ line' = [line EXCEPT ![p] =
                         [@ EXCEPT !.from = n, !.fd = rfd[n][my_id[p]]]]
           /\ RecvParsed(p) /\ UNCHANGED <<lost, pc, semc, sigVars>>
        \/ /\ n \notin Slots /\ cmd[p].send = 0
           /\ Goto(p, "bc") /\ RecvParsed(p) /\ UNCHANGED <<lost, line, semc, sigVars>>
        \/ /\ n \notin Slots
           /\ Die(p) /\ semc' = 0 /\ lost' = lost \cup {"semc"} /\ UNCHANGED <<cmd, line>>
     /\ UNCHANGED <<mainVars, closed, hid, my_id, tblVars, pipeVars, sem, buffer, hndVars>>

\* (Mutant: the receiver is not signalled.)
SignalNobody(q) == UNCHANGED usr2

\* kill(q, SIGUSR2)
Signal2(q) == usr2' = [x \in Procs |-> usr2[x] \/ (x = q /\ Alive(x))]

\* >n: the pipe is marked and the receiver signalled, then FIFO and open.  Past
\* the table, a pid read there belongs to no shell: p opens a FIFO that nobody
\* reads.
ParseSend(p) ==
  LET n == cmd[p].send
  IN /\ Enter(p, "line") /\ n # 0
     /\ \/ /\ NoUser(n) \/ (n \in Slots /\ receive[my_id[p]][n])
           /\ SendParsed(p) /\ UNCHANGED <<lost, pc, receive, sigVars, semc>>
        \/ /\ n \in Slots /\ cpid[n] # NoProc /\ ~receive[my_id[p]][n]
           /\ receive' = [receive EXCEPT ![my_id[p]][n] = TRUE]
           /\ Signal2(cpid[n])
           /\ semc' = 0 /\ Goto(p, "mkfifo") /\ UNCHANGED <<lost, cmd, usr1>>
        \/ /\ n \notin Slots
           /\ semc' = 0 /\ Goto(p, "open") /\ UNCHANGED <<lost, cmd, receive, sigVars>>
        \/ /\ n \notin Slots
           /\ Die(p) /\ semc' = 0 /\ lost' = lost \cup {"semc"} /\ UNCHANGED <<cmd, receive>>
     /\ UNCHANGED <<mainVars, closed, hid, my_id, line, tblVars, rfd, fifo, sem, buffer,
                    hndVars>>

Made(f, i, j) == [f EXCEPT ![i][j] = IF @ = "none" THEN "made" ELSE @]

MkFifo(p) ==
  /\ At(p, "mkfifo")
  /\ fifo' = Made(fifo, my_id[p], cmd[p].send)
  /\ Goto(p, "open")
  /\ UNCHANGED <<parVars, procVars, tblVars, receive, rfd, semVars, sigVars, hndVars>>

\* open(O_WRONLY) returns when the FIFO has a reader, and fails when the FIFO
\* was removed before the call.  Then the semaphore is posted.
OpenWrite(p) ==
  LET j == cmd[p].send
      file == fifo[my_id[p]][j]
  IN /\ At(p, "open") /\ j \in Slots /\ file # "made"
     /\ line' = [line EXCEPT ![p] = [@ EXCEPT !.to = j, !.wr = (file = "read")]]
     /\ SendParsed(p) /\ semc' = semc + 1 /\ Goto(p, "cmd")
     /\ UNCHANGED <<parVars, hid, my_id, tblVars, pipeVars, sem, buffer, sigVars,
                    hndVars>>

\* The line is parsed: broadcast what was piped and received, if anything was.
EndParse(p) ==
  /\ At(p, "cmd") /\ cmd[p].op = "line" /\ cmd[p].recv = 0 /\ cmd[p].send = 0
  /\ Goto(p, IF line[p].from # 0 \/ line[p].to # 0 THEN "bc" ELSE "run")
  /\ UNCHANGED <<parVars, procVars, tblVars, pipeVars, semVars, sigVars, hndVars>>

PipeBuffer(p) ==
  /\ At(p, "bc") /\ sem = 1
  /\ sem' = 0 /\ buffer' = p /\ Goto(p, "bc_kill")
  /\ UNCHANGED <<parVars, procVars, tblVars, pipeVars, semc, sigVars, hndVars>>

PipeKill(p) ==
  /\ At(p, "bc_kill") /\ semc = 1
  /\ Signal1(Registered, p) /\ Goto(p, "bc_sleep")
  /\ UNCHANGED <<parVars, procVars, tblVars, pipeVars, semVars, usr2, hndVars>>

PipePost(p) ==
  /\ At(p, "bc_sleep") /\ sem' = sem + 1 /\ Goto(p, "run")
  /\ UNCHANGED <<parVars, procVars, tblVars, pipeVars, semc, buffer, sigVars, hndVars>>

\* The commands are forked and run to their end; the first one's read end is
\* taken out of the table (remove_userpipe, no semaphore held), in three steps.
Run(p) ==
  /\ At(p, "run")
  /\ Goto(p, IF line[p].from = 0 THEN "reset" ELSE "rm_receive")
  /\ UNCHANGED <<parVars, procVars, tblVars, pipeVars, semVars, sigVars, hndVars>>

RemoveReceive(p) ==
  /\ At(p, "rm_receive")
  /\ receive' = [receive EXCEPT ![line[p].from][my_id[p]] = FALSE]
  /\ Goto(p, "rm_fd")
  /\ UNCHANGED <<parVars, procVars, tblVars, rfd, fifo, semVars, sigVars, hndVars>>

\* (Mutant: the descriptor stays in the table.)
RemoveNoFd(p) ==
  /\ At(p, "rm_fd") /\ Goto(p, "unlink")
  /\ UNCHANGED <<parVars, procVars, tblVars, pipeVars, semVars, sigVars, hndVars>>

RemoveFd(p) ==
  /\ At(p, "rm_fd")
  /\ rfd' = [rfd EXCEPT ![line[p].from][my_id[p]] = NoProc]
  /\ Goto(p, "unlink")
  /\ UNCHANGED <<parVars, procVars, tblVars, receive, fifo, semVars, sigVars, hndVars>>

\* A writer blocked in open on the file that disappears waits for ever; one
\* that has not called open yet finds no file.
Unlink(p) ==
  LET i == line[p].from
      Waits(q) == /\ pc[q] = "open" /\ my_id[q] = i /\ cmd[q].send = my_id[p]
                  /\ fifo[i][my_id[p]] = "made"
  IN /\ At(p, "unlink")
     /\ fifo' = [fifo EXCEPT ![i][my_id[p]] = "none"]
     /\ \E stuck \in SUBSET {q \in Procs : Waits(q)} :
          pc' = [q \in Procs |-> IF q = p THEN "reset"
                                 ELSE IF q \in stuck THEN "orphaned" ELSE pc[q]]
     /\ UNCHANGED <<parVars, procVars, tblVars, receive, rfd, semVars, sigVars,
                    hndVars>>

\* The last command has ended: write_fd and read_fd are closed, the flags reset.
ResetFlag(p) ==
  /\ At(p, "reset")
  /\ line' = [line EXCEPT ![p] = NoLine] /\ Return(p)
  /\ UNCHANGED <<parVars, hid, my_id, tblVars, pipeVars, semVars, sigVars, hndVars>>

-----------------------------------------------------------------------------
(* SIGHANDLE.  Handlers interrupt the main program wherever it is.         *)

\* SIGUSR1: print the buffer.
PrintBuffer(p) ==
  /\ Alive(p) /\ usr1[p]
  /\ usr1' = [usr1 EXCEPT ![p] = FALSE] /\ Restart(p)
  /\ UNCHANGED <<parVars, procVars, tblVars, pipeVars, semVars, usr2, hndVars>>

\* The senders from k on whose pipe to p is marked and has no descriptor yet.
Pending(p, k, fds) == {i \in k..N : /\ my_id[p] # 0 /\ receive[i][my_id[p]]
                                   /\ fds[i][my_id[p]] = NoProc}

\* The handler's loop goes on at k: it makes and opens the FIFO of the first
\* such sender, or it returns.
Scan(p, k, fds) ==
  \/ /\ Pending(p, k, fds) = {}
     /\ hnd' = [hnd EXCEPT ![p] = 0] /\ UNCHANGED fifo
  \/ \E i \in Pending(p, k, fds) :
       /\ \A x \in Pending(p, k, fds) : i <= x
       /\ hnd' = [hnd EXCEPT ![p] = i] /\ fifo' = Made(fifo, i, my_id[p])

\* SIGUSR2 arrives; it is blocked while its handler runs.
OpenPipes(p) ==
  /\ Alive(p) /\ usr2[p] /\ hnd[p] = 0
  /\ usr2' = [usr2 EXCEPT ![p] = FALSE] /\ Restart(p)
  /\ Scan(p, 1, rfd)
  /\ UNCHANGED <<parVars, procVars, tblVars, receive, rfd, semVars, usr1, hfd>>

\* open(O_RDONLY) returns when a process has the FIFO open, or is opening it,
\* for writing.
OpenRead(p) ==
  LET i == hnd[p]
      Writer(q) == /\ my_id[q] = i
                   /\ \/ pc[q] = "open" /\ cmd[q].send = my_id[p]
                      \/ line[q].wr /\ line[q].to = my_id[p]
  IN /\ Alive(p) /\ i # 0 /\ hfd[p] = NoProc
     /\ \E q \in Procs : Writer(q) /\ hfd' = [hfd EXCEPT ![p] = q]
     /\ fifo' = [fifo EXCEPT ![i][my_id[p]] = "read"]
     /\ UNCHANGED <<parVars, pc, procVars, tblVars, receive, rfd, semVars, sigVars, hnd>>

\* The descriptor is stored in the shared table, with no semaphore, and the
\* loop goes on.
StoreFd(p) ==
  LET i == hnd[p]
  IN /\ Alive(p) /\ i # 0 /\ hfd[p] # NoProc
     /\ rfd' = [rfd EXCEPT ![i][my_id[p]] = hfd[p]]
     /\ hfd' = [hfd EXCEPT ![p] = NoProc]
     /\ Scan(p, i + 1, rfd')
     /\ UNCHANGED <<parVars, pc, procVars, tblVars, receive, semVars, sigVars>>

-----------------------------------------------------------------------------
(* Faults.                                                                 *)

\* getline fails from now on, and the shell prompts for ever.  What was typed
\* before is still read.
Close(p) == /\ "close" \in Faults /\ Alive(p) /\ ~closed[p]
            /\ closed' = [closed EXCEPT ![p] = TRUE]
            /\ UNCHANGED <<mainVars, lost, pc, procVars, tblVars, pipeVars, semVars,
                           sigVars, hndVars>>

\* The command prints while it holds sem_clients: who, or an error message.
Complains(p) ==
  LET c == cmd[p]
  IN CASE c.op = "who"  -> TRUE
       [] c.op = "name" -> NameTaken(c.name)
       [] c.op = "tell" -> NoUser(c.send)
       [] c.op = "line" ->
            \/ c.recv # 0 /\ (c.recv \in Slots => ~receive[c.recv][my_id[p]] \/ NoUser(c.recv))
            \/ c.send # 0 /\ (c.send \in Slots => receive[my_id[p]][c.send] \/ NoUser(c.send))
       [] OTHER -> FALSE

Held(p) == {x \in {"sem", "semc"} : IF x = "sem" THEN HoldsSem(p) ELSE HoldsClients(p)}

\* A write to a closed connection: SIGPIPE ends the process with what it holds.
\* It writes its prompt, the message of a SIGUSR1 wherever that comes, its own
\* one included, and what its command prints.
Hangup(p) ==
  /\ Alive(p) /\ closed[p]
  /\ \/ /\ At(p, "prompt") \/ usr1[p] \/ (pc[p] = "sleep" /\ p \in Told(p))
        /\ lost' = lost \cup Held(p) /\ UNCHANGED semc
     \/ /\ \/ At(p, "cmd") /\ Complains(p)
           \/ pc[p] \in {"login_kill", "bc_kill"} /\ p \in Registered
        /\ semc = 1 /\ semc' = 0
        /\ lost' = lost \cup Held(p) \cup {"semc"}
  /\ Die(p)
  /\ hnd' = [hnd EXCEPT ![p] = 0] /\ hfd' = [hfd EXCEPT ![p] = NoProc]
  /\ UNCHANGED <<mainVars, closed, procVars, tblVars, pipeVars, sem, buffer>>

\* The server and its children are gone, and main runs again: it clears what is
\* shared.  The FIFOs stay in the directory user_pipe, with nobody at them.
Restarts ==
  /\ ppc' = "accept" /\ kid' = NoProc /\ nid' = 1
  /\ pc' = All("unborn") /\ hid' = All(0) /\ my_id' = All(0)
  /\ cmd' = All(NoCmd) /\ line' = All(NoLine)
  /\ cpid' = [i \in Slots |-> NoProc] /\ cname' = [i \in Slots |-> NoName]
  /\ receive' = Pairs(FALSE) /\ rfd' = Pairs(NoProc)
  /\ fifo' = [i \in Slots |-> [j \in Slots |-> IF fifo[i][j] = "none" THEN "none" ELSE "made"]]
  /\ buffer' = NoProc
  /\ usr1' = All(FALSE) /\ usr2' = All(FALSE) /\ hnd' = All(0) /\ hfd' = All(NoProc)
  /\ closed' = All(FALSE)

\* Somebody is about to be inside sem_clients; that is one action here.
Passes == ppc \in {"pick", "reg"} \/ \E p \in Procs : pc[p] \in {"cmd", "login_kill", "bc_kill"}

\* The server is killed with its children and started again.  sem_open finds the
\* semaphores, and leaves them as they are.
Kill == /\ "kill" \in Faults /\ Restarts
        /\ UNCHANGED sem
        /\ UNCHANGED semc \/ (Passes /\ semc' = 0)
        /\ lost' = {x \in {"sem", "semc"} : IF x = "sem" THEN sem' = 0 ELSE semc' = 0}

\* (Mutant: the handler of SIGINT does not unlink them.)
Kept == UNCHANGED <<sem, semc>>

\* sem_unlink: the next sem_open makes new ones.
Unlinked == sem' = 1 /\ semc' = 1

Interrupt == /\ "interrupt" \in Faults /\ Restarts /\ Unlinked /\ lost' = {}

-----------------------------------------------------------------------------
Shell(p) ==
  \/ LoginBuffer(p) \/ LoginKill(p) \/ LoginDone(p)
  \/ Who(p) \/ Name(p) \/ Tell(p) \/ Yell(p) \/ Exit(p)
  \/ TakeBuffer(p) \/ PostBuffer(p) \/ PostClients(p)
  \/ ParseRecv(p) \/ ParseSend(p) \/ MkFifo(p) \/ OpenWrite(p) \/ EndParse(p)
  \/ PipeBuffer(p) \/ PipeKill(p) \/ PipePost(p) \/ Run(p)
  \/ RemoveReceive(p) \/ RemoveFd(p) \/ Unlink(p) \/ ResetFlag(p)

Handler(p) == PrintBuffer(p) \/ OpenPipes(p) \/ OpenRead(p) \/ StoreFd(p)

Next == \/ PickAndFork \/ Register \/ Kill \/ Interrupt
        \/ \E p \in Procs : \/ Accept(p) \/ Reap(p) \/ Shell(p) \/ Handler(p)
                            \/ Close(p) \/ Hangup(p)
                            \/ \E c \in Commands(p) : ReadLine(p, c)

Spec == Init /\ [][Next]_vars

\* The scheduler runs every process and delivers every signal; clients need
\* not connect or type.  A semaphore need not be fair.
FairSpec == /\ Spec
            /\ WF_vars(PickAndFork) /\ WF_vars(Register)
            /\ \A p \in Procs : WF_vars(Shell(p)) /\ WF_vars(Handler(p))
-----------------------------------------------------------------------------
(* Properties.                                                             *)

Labels == {"unborn", "login", "login_kill", "login_sleep", "prompt", "cmd", "buf",
           "sleep", "post", "mkfifo", "open", "orphaned", "bc", "bc_kill",
           "bc_sleep", "run", "rm_receive", "rm_fd", "unlink", "reset", "gone"}

CmdType  == [op : OpNames, name : Names \cup {NoName}, recv : 0..MaxArg,
             send : 0..MaxArg]
LineType == [from : 0..N, fd : Procs \cup {NoProc}, to : 0..MaxArg, wr : BOOLEAN]

ParentTypes == /\ ppc \in {"accept", "pick", "reg", "overrun"}
               /\ kid \in Procs \cup {NoProc}
               /\ ppc \in {"pick", "reg"} => kid \in Procs
               /\ nid \in Slots
               /\ closed \in [Procs -> BOOLEAN] /\ lost \subseteq {"sem", "semc"}
ShellTypes ==
  /\ pc \in [Procs -> Labels]
  /\ hid \in [Procs -> 0..N] /\ my_id \in [Procs -> 0..N]
  /\ cmd \in [Procs -> CmdType] /\ line \in [Procs -> LineType]
TableTypes == /\ cpid \in [Slots -> Procs \cup {NoProc}]
              /\ cname \in [Slots -> Names \cup {NoName, Anon}]
              /\ buffer \in Procs \cup {NoProc}
              /\ sem \in 0..1 /\ semc \in 0..1
PipeTypes == /\ receive \in [Slots -> [Slots -> BOOLEAN]]
             /\ rfd \in [Slots -> [Slots -> Procs \cup {NoProc}]]
             /\ fifo \in [Slots -> [Slots -> {"none", "made", "read"}]]
SignalTypes == /\ usr1 \in [Procs -> BOOLEAN] /\ usr2 \in [Procs -> BOOLEAN]
               /\ hnd \in [Procs -> 0..N] /\ hfd \in [Procs -> Procs \cup {NoProc}]

\* Every variable has its type; in particular the semaphores are binary.
TypeOK == ParentTypes /\ ShellTypes /\ TableTypes /\ PipeTypes /\ SignalTypes

\* At most one process is between sem_wait and sem_post of each semaphore, and
\* the semaphore is 0 then, however the two critical sections are nested.
Mutex == \A p, q \in Procs :
           /\ HoldsSem(p) => sem = 0 /\ (HoldsSem(q) => p = q)
           /\ HoldsClients(p) => semc = 0 /\ (HoldsClients(q) => p = q)

\* A semaphore is taken only while somebody is in its critical section, or since
\* somebody has died there: no path forgets to post, and Ctrl-C frees everything.
Accounted == /\ sem = 0 => "sem" \in lost \/ \E p \in Procs : HoldsSem(p)
             /\ semc = 0 => "semc" \in lost \/ \E p \in Procs : HoldsClients(p)

\* From filling the buffer to the sem_post after usleep nobody else writes it.
BufferIntact == \A p \in Procs : HoldsSem(p) => buffer = p

\* No two users have the same nickname, except "(no name)": the check and the
\* update of name are one critical section.
UniqueNames == \A i, j \in Slots :
                 i # j /\ cname[i] = cname[j] => cname[i] \in {NoName, Anon}

\* p uses the slot it was given: it has not executed exit's clean-up.
Online(p) == /\ Alive(p)
             /\ ~(cmd[p].op = "exit" /\ pc[p] \in {"buf", "sleep", "post"})

\* Two processes never use one id: the parent registers a child before it
\* looks for the next free id, and only the child itself frees its slot.
OneUserPerId == \A p, q \in Procs :
                  Online(p) /\ Online(q) /\ hid[p] = hid[q] => p = q

\* A user pipe that is marked in the table has its sender and its receiver there
\* (the sender may be about to be entered, and either may be dead): exit removes
\* the pipes from and to its user, and a later user of the id inherits none.
PipesHaveEnds ==
  \A i, j \in Slots :
    receive[i][j] => /\ cpid[j] # NoProc
                     /\ \E p \in Procs : /\ my_id[p] = i
                                         /\ cpid[i] = p \/ (ppc = "reg" /\ kid = p)

\* With at most N clients online, the scan for an id finds one.
NoOverrun == ppc # "overrun"

\* When nothing is happening, the table lists exactly the processes at their
\* prompt, each under its own id.
TableIsExact ==
  Quiet => \A i \in Slots, p \in Procs :
             cpid[i] = p <=> pc[p] = "prompt" /\ my_id[p] = i

\* When nothing is happening, a marked pipe can be read: its receiver has the
\* read end open, of the FIFO the present user of the sender's id opened; and
\* no unmarked pipe is left open.
PipesReady ==
  Quiet => \A i, j \in Slots :
             IF receive[i][j]
               THEN rfd[i][j] = cpid[i] /\ cpid[i] # NoProc /\ fifo[i][j] = "read"
               ELSE rfd[i][j] = NoProc /\ fifo[i][j] = "none"

\* The user pipes with data to be received.
Marked == {d \in Slots \X Slots : receive[d[1]][d[2]]}

\* When the clients take turns, the processes together are a chat room: ids, names
\* and pipes change only as it promises.
Room == INSTANCE ChatRoom WITH users <- cname, pipes <- Marked
RoomSpec == Room!Spec

\* A process takes the buffer only when everybody has printed the message it
\* holds: "to make sure that SIGUSR1 complete cout in other process".
MessageSurvives == [][sem = 1 /\ sem' = 0 => \A p \in Procs : ~usr1[p]]_vars

\* A pipe that passes the checks of <n has a descriptor to read from.
ReaderHasDescriptor ==
  \A p \in Procs, i \in Slots :
    Enter(p, "line") /\ cmd[p].recv = i /\ cpid[i] # NoProc /\ receive[i][my_id[p]]
      => rfd[i][my_id[p]] # NoProc

\* A nickname stays until its user changes it or leaves; in particular the
\* parent's registration does not undo it.
NameKept == [][\A i \in Slots : cname[i] \in Names => cname'[i] # Anon]_vars

\* Every command and every login ends: the client gets its prompt, or is gone.
CommandsEnd == \A p \in Procs :
                 pc[p] \notin {"unborn", "prompt", "gone"}
                   ~> pc[p] \in {"unborn", "prompt", "gone"}
=============================================================================
