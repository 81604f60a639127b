----------------------------- MODULE SingleProc -----------------------------
(***************************************************************************)
(* The single-process chat shell, project2/311551059/np_single_proc.cpp.   *)
(*                                                                         *)
(* One process serves all clients from a select loop, and waits for the    *)
(* commands it forks: while a command runs nobody else is served.  There   *)
(* are two tables of clients (`clients' with their shells, `clients_copy'  *)
(* for the shells to use), an array of sockets whose index is the id, and  *)
(* the user pipes.                                                         *)
(*                                                                         *)
(* A line is one process here; how the commands of a line are joined, and  *)
(* |n for n > 1, are ShellPipes.  A client types, or closes, when it has   *)
(* its prompt.  Messages are not modelled, but for what a message to a     *)
(* closed connection does.                                                 *)
(***************************************************************************)
EXTENDS Integers, Sequences, FiniteSets

CONSTANTS N,        \* max_clients
          Fds,      \* bound: descriptors the kernel gives to client sockets
          NoFd,
          Procs,    \* bound: processes of lines running at the same time
          NoProc,
          MaxPipes, \* bound: pipes that exist at the same time
          MaxLost,  \* bound: entries left behind by clients that closed without exit
          Names, NoName, Anon,
          Cmds      \* the commands typed, see CmdType

ASSUME NAssumption == N \in Nat \ {0} /\ MaxPipes \in Nat /\ MaxLost \in Nat
ASSUME NamesAssumption == NoName \notin Names /\ Anon \notin Names /\ NoName # Anon
ASSUME FdsAssumption == IsFiniteSet(Fds) /\ Cardinality(Fds) >= N /\ NoFd \notin Fds
ASSUME ProcsAssumption == NoProc \notin Procs

\* "say" is tell or yell, "env" setenv or printenv.  A line may read the user
\* pipe of recv (<n) and write to the one of send (>n, written before <n) or to the
\* next line (|1); big says that its output does not fit into a pipe.
CmdType == [op : {"who", "name", "say", "env", "exit", "line"},
            name : Names \cup {NoName}, recv : Nat, send : Nat,
            next : BOOLEAN, big : BOOLEAN]

ASSUME CmdsAssumption ==
  \A c \in Cmds : c \in CmdType /\ (c.next => c.send = 0) /\ (c.op = "name" => c.name \in Names)

Slots == 1..N
Pipes == 1..MaxPipes
NoPipe == 0
Socket == -1   \* the process reads the client's socket

VARIABLES
  client_socket, \* the descriptor in each slot, NoFd if it is free
  clients,       \* the vector of clients; shell.next is the pipe of the last |1
  clients_copy,
  upipes,        \* all_user_pipes
  leaked,        \* pipes that stay open in the server for ever: of shells that are
                 \* gone, and those that end at a built-in
  turn,          \* the line being run: for whom, which, how far through `clients',
                 \* and the pipe made for it (curr_receiver_id)
  busy,          \* the process waited for, if any
  proc,          \* the processes of lines
  sock           \* per descriptor: "free", "prompt", "typed" or, closed by the
                 \* client and not yet noticed, "gone"

tables == <<client_socket, clients, clients_copy>>
pipeVars == <<upipes, leaked>>
vars == <<tables, pipeVars, turn, busy, proc, sock>>

NoCmd  == [op |-> "say", name |-> NoName, recv |-> 0, send |-> 0, next |-> FALSE,
           big |-> FALSE]
Off    == [st |-> "off", in |-> NoPipe, out |-> NoPipe, big |-> FALSE, holds |-> {}]
NoTurn == [fd |-> NoFd, cmd |-> NoCmd, k |-> 1, parsed |-> FALSE, out |-> NoPipe]

Elems(s) == {s[k] : k \in DOMAIN s}
\* (Mutant: the last entry is taken away.)
FirstFrom2(s, f) == Len(s)

\* The loops that look for an entry stop at the first one with the descriptor.
FirstWith(s, f) == CHOOSE k \in DOMAIN s : s[k].fd = f /\ \A j \in 1..(k - 1) : s[j].fd # f
\* (Mutant: nothing is erased.)
All(s, k) == s

Without(s, k) == [j \in 1..(Len(s) - 1) |-> IF j < k THEN s[j] ELSE s[j + 1]]
InCopy(n) == \E c \in Elems(clients_copy) : c.id = n

Idle == turn = NoTurn

Init == /\ client_socket = [j \in Slots |-> NoFd]
        /\ clients = <<>> /\ clients_copy = <<>>
        /\ upipes = {} /\ leaked = {}
        /\ turn = NoTurn /\ busy = NoProc /\ proc = [p \in Procs |-> Off]
        /\ sock = [f \in Fds |-> "free"]

\* The pipes the server has open: of pending |1s, user pipes, and the leaked.
Nexts == {c.next : c \in Elems(clients)} \ {NoPipe}
Open == Nexts \cup {u.pipe : u \in upipes} \cup leaked
Holders(x) == {p \in Procs : proc[p].st = "run" /\ x \in proc[p].holds}
Readers(x) == {p \in Procs : proc[p].st = "run" /\ proc[p].in = x}
Writers(x) == {p \in Procs : proc[p].st = "run" /\ proc[p].out = x}
Unused(x) == x \notin Open /\ Holders(x) \cup Readers(x) \cup Writers(x) = {}

-----------------------------------------------------------------------------
(* The clients.                                                            *)

\* The server looks at what was typed when it reads it, so it is chosen there.
Type(f) == /\ sock[f] = "prompt"
           /\ sock' = [sock EXCEPT ![f] = "typed"]
           /\ UNCHANGED <<tables, pipeVars, turn, busy, proc>>

\* How many entries clients that closed without exit have left behind.
Lost == Len(clients) - Cardinality({j \in Slots : client_socket[j] # NoFd})

\* The client closes its connection without exit; bound: MaxLost entries are left
\* behind at a time.
Close(f) == /\ Lost + Cardinality({g \in Fds : sock[g] = "gone"}) < MaxLost
            /\ sock[f] = "prompt"
            /\ sock' = [sock EXCEPT ![f] = "gone"]
            /\ UNCHANGED <<tables, pipeVars, turn, busy, proc>>

-----------------------------------------------------------------------------
(* The select loop.                                                        *)

\* (Mutant: any free slot will do.)
AnyFree(j) == client_socket[j] = NoFd

\* The first slot with no socket.
FirstFree(j) == client_socket[j] = NoFd /\ \A k \in 1..(j - 1) : client_socket[k] # NoFd

\* A connection: the id is the slot.  At most N users are online.
Accept(f) ==
  /\ Idle /\ sock[f] = "free"
  /\ \E j \in Slots :
       /\ FirstFree(j)
       /\ client_socket' = [client_socket EXCEPT ![j] = f]
       /\ clients' = Append(clients, [fd |-> f, id |-> j, name |-> Anon, next |-> NoPipe])
       /\ clients_copy' = Append(clients_copy, [fd |-> f, id |-> j, name |-> Anon])
  /\ sock' = [sock EXCEPT ![f] = "prompt"]
  /\ UNCHANGED <<pipeVars, turn, busy, proc>>

InSlot(f) == \E j \in Slots : client_socket[j] = f
FreeSlot(f) == client_socket' = [j \in Slots |-> IF client_socket[j] = f THEN NoFd
                                                                 ELSE client_socket[j]]

\* Bound: a line is typed only when there is a process for it, and a pipe if it
\* makes one, for each entry that it will run in.
HasRoom(f, c) ==
  LET runs == Cardinality({k \in DOMAIN clients : clients[k].fd = f})
  IN /\ runs <= Cardinality({p \in Procs : proc[p].st = "off"})
     /\ c.send # 0 \/ c.next => runs <= Cardinality({x \in Pipes : Unused(x)})

\* The server has read c from f.  Nobody uses a pipe to himself.
Received(f, c) ==
  /\ \A j \in Slots : client_socket[j] = f => c.recv # j /\ c.send # j
  /\ c.op = "line" => HasRoom(f, c)

Prompt(f) == sock' = [sock EXCEPT ![f] = "prompt"]

\* (Mutant: only the pipes the user sends through are removed.)
SentBy(u, id) == u.s = id

Involves(u, id) == u.s = id \/ u.r = id

\* exit: the user pipes of the client and both entries are removed.  The pipe
\* of its shell's |1 stays open.
Exit(f, c) ==
  /\ Received(f, c) /\ c.op = "exit"
  /\ LET k  == FirstWith(clients, f)
         k2 == FirstWith(clients_copy, f)
     IN /\ upipes' = {u \in upipes : ~Involves(u, clients_copy[k2].id)}
        /\ leaked' = leaked \cup ({clients[k].next} \ {NoPipe})
        /\ clients' = Without(clients, k) /\ clients_copy' = Without(clients_copy, k2)
  /\ FreeSlot(f)
  /\ sock' = [sock EXCEPT ![f] = "free"]
  /\ UNCHANGED <<turn, busy, proc>>

\* read returns 0: the socket is closed and the slot free.  The entries stay in
\* both tables, with the descriptor, and so do the user pipes.
Disconnect(f) ==
  /\ sock[f] = "gone"
  /\ FreeSlot(f)
  /\ sock' = [sock EXCEPT ![f] = "free"]
  /\ UNCHANGED <<clients, clients_copy, pipeVars, turn, busy, proc>>

\* who sorts the vector by id.
Who(f, c) ==
  /\ Received(f, c) /\ c.op = "who" /\ Prompt(f)
  /\ \E order \in [DOMAIN clients -> DOMAIN clients] :
       /\ \A j, k \in DOMAIN clients : j # k => order[j] # order[k]
       /\ clients' = [k \in DOMAIN clients |-> clients[order[k]]]
       /\ \A j, k \in DOMAIN clients : j < k => clients'[j].id <= clients'[k].id
  /\ UNCHANGED <<client_socket, clients_copy, pipeVars, turn, busy, proc>>

\* (Mutant: the copy is not updated.)
NameOnce(f, c) ==
  /\ Received(f, c) /\ c.op = "name" /\ Prompt(f)
  /\ IF \E e \in Elems(clients) : e.name = c.name
       THEN UNCHANGED clients
       ELSE clients' = [k \in DOMAIN clients |->
                          IF clients[k].fd = f THEN [clients[k] EXCEPT !.name = c.name]
                                               ELSE clients[k]]
  /\ UNCHANGED <<client_socket, clients_copy, pipeVars, turn, busy, proc>>

Named(s, f, n) == [k \in DOMAIN s |-> IF s[k].fd = f THEN [s[k] EXCEPT !.name = n]
                                                     ELSE s[k]]

Name(f, c) ==
  /\ Received(f, c) /\ c.op = "name" /\ Prompt(f)
  /\ IF \E e \in Elems(clients) : e.name = c.name
       THEN UNCHANGED <<clients, clients_copy>>
       ELSE clients' = Named(clients, f, c.name) /\ clients_copy' = Named(clients_copy, f, c.name)
  /\ UNCHANGED <<client_socket, pipeVars, turn, busy, proc>>

\* tell and yell only write messages.
Say(f, c) == /\ Received(f, c) /\ c.op = "say" /\ Prompt(f)
             /\ UNCHANGED <<tables, pipeVars, turn, busy, proc>>

\* Anything else goes to the shell of every entry with this descriptor.
StartShell(f, c) == /\ Received(f, c) /\ c.op \in {"line", "env"}
                    /\ turn' = [NoTurn EXCEPT !.fd = f, !.cmd = c]
                    /\ UNCHANGED <<tables, pipeVars, busy, proc, sock>>
-----------------------------------------------------------------------------
(* The shell: Parser and HandleOneLineCmd.                                 *)

\* x is the pipe that is made next.
FirstPipe(x) == x \in Pipes /\ Unused(x) /\ \A y \in 1..(x - 1) : ~Unused(y)

Pipe(i, j) == {u \in upipes : u.s = i /\ u.r = j}

\* The entry whose shell runs next, if there is one.
Entry(k) == /\ k \in DOMAIN clients /\ k >= turn.k /\ clients[k].fd = turn.fd
            /\ \A j \in turn.k..(k - 1) : clients[j].fd # turn.fd

\* The loop over the clients is over; the prompt.
EndShell ==
  /\ ~Idle /\ busy = NoProc
  /\ \A k \in DOMAIN clients : ~Entry(k)
  /\ Prompt(turn.fd) /\ turn' = NoTurn
  /\ UNCHANGED <<tables, pipeVars, busy, proc>>

\* setenv and printenv count as a line: the pipe of a |1 before is not closed, and no
\* later line looks for it.
BuiltIn(k) == /\ busy = NoProc /\ Entry(k) /\ turn.cmd.op = "env"
              /\ leaked' = leaked \cup ({clients[k].next} \ {NoPipe})
              /\ clients' = [clients EXCEPT ![k].next = NoPipe]
              /\ turn' = [turn EXCEPT !.k = k + 1]
              /\ UNCHANGED <<client_socket, clients_copy, upipes, busy, proc, sock>>

\* >j by i succeeds: there is such a user and no such pipe.
CanSend(i, j) == InCopy(j) /\ Pipe(i, j) = {}

\* <j by i is accepted: there is such a user, and a pipe from it to somebody.
Accepts(i, j) == InCopy(j) /\ \E u \in upipes : u.s = j

\* Where the process reads: the user pipe of <n, nothing (/dev/null) when <n
\* failed, else the pipe of the line before, if it ended in |1.  With neither, the
\* command of a line without <n reads nothing; with <n it reads the socket.
Input(c, me) ==
  LET mine == Pipe(c.recv, me.id)
  IN CASE c.recv = 0 -> me.next
       [] c.recv # 0 /\ ~Accepts(me.id, c.recv) -> NoPipe
       [] c.recv # 0 /\ mine # {} -> (CHOOSE u \in mine : TRUE).pipe
       [] OTHER -> IF me.next # NoPipe THEN me.next ELSE Socket

\* >n: a pipe is made, unless there is an error.
ParseSend(k, x) ==
  LET j  == turn.cmd.send
      me == clients[k].id
  IN /\ busy = NoProc /\ Entry(k) /\ j # 0 /\ ~turn.parsed
     /\ IF CanSend(me, j)
          THEN FirstPipe(x) /\ upipes' = upipes \cup {[s |-> me, r |-> j, pipe |-> x]}
          ELSE x = NoPipe /\ UNCHANGED upipes
     /\ turn' = [turn EXCEPT !.parsed = TRUE, !.out = x]
     /\ UNCHANGED <<tables, leaked, busy, proc, sock>>

\* (Mutant: the pipe received stays in the list.)
KeepUsed(i, j) == {}

\* close_used_pipes(i, j)
Used(i, j) == Pipe(i, j)

\* (Mutant: the child keeps the user pipes, too.)
InheritedAll(k) == ({clients[j].next : j \in DOMAIN clients \ {k}} \ {NoPipe})
                     \cup leaked \cup {u.pipe : u \in upipes}

\* The child closes all user pipes and the pipes of its own shell; those of the
\* other shells stay open in it (unless an old number of its own was reused).  It
\* closes its own leaked ones, too: no difference, as the server keeps those.
Inherited(k) == ({clients[j].next : j \in DOMAIN clients \ {k}} \ {NoPipe}) \cup leaked

\* The line of entry k runs; a pipe is made for |1.  After the fork the server
\* closes the pipe of the line before and the user pipe received; it waits
\* unless the output goes to |1.
Line(k, p, x) ==
  LET c  == turn.cmd
      me == clients[k]
  IN /\ busy = NoProc /\ Entry(k) /\ c.op = "line" /\ (c.send = 0 \/ turn.parsed)
     /\ proc[p].st = "off" /\ (IF c.next THEN FirstPipe(x) ELSE x = NoPipe)
     /\ proc' = [proc EXCEPT ![p] =
                   [st |-> "run", in |-> Input(c, me), big |-> c.big,
                    out |-> IF c.next THEN x ELSE turn.out,
                    holds |-> Inherited(k)]]
     /\ clients' = [clients EXCEPT ![k].next = x]
     /\ upipes' = upipes \ IF c.recv # 0 THEN Used(c.recv, me.id) ELSE {}
     /\ busy' = IF c.next THEN NoProc ELSE p
     /\ turn' = [NoTurn EXCEPT !.fd = turn.fd, !.cmd = turn.cmd, !.k = k + 1]
     /\ UNCHANGED <<client_socket, clients_copy, leaked, sock>>

\* waitpid.
Wait == /\ busy # NoProc /\ proc[busy].st = "ended"
        /\ busy' = NoProc /\ proc' = [proc EXCEPT ![busy] = Off]
        /\ UNCHANGED <<tables, pipeVars, turn, sock>>

\* A message to everybody while somebody has closed: SIGPIPE ends the server, and
\* with it every connection.
SigPipe ==
  /\ busy = NoProc /\ \E f \in Fds : sock[f] = "gone"
  /\ Idle => \/ \E j \in Slots : client_socket[j] = NoFd
             \/ \E f \in Fds : sock[f] = "typed"
  /\ client_socket' = [j \in Slots |-> NoFd] /\ clients' = <<>> /\ clients_copy' = <<>>
  /\ upipes' = {} /\ leaked' = {} /\ turn' = NoTurn
  /\ sock' = [f \in Fds |-> "gone"]
  /\ proc' = [p \in Procs |-> Off] /\ UNCHANGED busy

\* The socket of f is readable, and nothing else is going on.
Serve(f) == /\ Idle /\ InSlot(f)
            /\ \/ Disconnect(f)
               \/ /\ sock[f] = "typed"
                  /\ \E c \in Cmds : \/ Exit(f, c) \/ Who(f, c) \/ Name(f, c)
                                     \/ Say(f, c) \/ StartShell(f, c)

Shell == \/ EndShell \/ Wait
         \/ \E k \in DOMAIN clients :
              \/ BuiltIn(k)
              \/ \E x \in 0..MaxPipes : ParseSend(k, x) \/ \E p \in Procs : Line(k, p, x)
-----------------------------------------------------------------------------
(* The processes.                                                          *)

\* The output of p has somewhere to go by itself: it fits into the pipe, or
\* nobody has the read end (SIGPIPE).
Writes(p) == \/ proc[p].out = NoPipe \/ ~proc[p].big
             \/ /\ proc[p].out \notin Open
                /\ Readers(proc[p].out) \cup Holders(proc[p].out) = {}

\* The processes that wait for a reader, or for one that waits itself.
Blocked == UNION {S \in SUBSET Procs :
                    \A p \in S : ~Writes(p) /\ Readers(proc[p].out) \subseteq S}

\* The input of p is at its end: nobody, the server included, has the write end.
AtEnd(x) == x \notin Open /\ Writers(x) \cup Holders(x) = {}

\* A process ends when it has read all its input and written all its output.
\* One that is not waited for leaves its place (it stays a zombie).
Finish(p) ==
  /\ proc[p].st = "run" /\ p \notin Blocked
  /\ proc[p].in = NoPipe \/ (proc[p].in \in Pipes /\ AtEnd(proc[p].in))
  /\ proc' = [proc EXCEPT ![p] = IF p = busy THEN [Off EXCEPT !.st = "ended"] ELSE Off]
  /\ UNCHANGED <<tables, pipeVars, turn, busy, sock>>
-----------------------------------------------------------------------------
Next == \/ \E f \in Fds : Accept(f) \/ Type(f) \/ Close(f) \/ Serve(f)
        \/ Shell \/ SigPipe \/ \E p \in Procs : Finish(p)

\* The server and the processes run; clients need not type.  A command has finitely
\* many steps, so it is enough that somebody runs.  One round of the
\* loop serves every socket that select reports, so nobody is passed over.
Spec == /\ Init /\ [][Next]_vars
        /\ WF_vars(Shell \/ \E p \in Procs : Finish(p))
        /\ \A f \in Fds : SF_vars(Serve(f))
-----------------------------------------------------------------------------
(* Properties.                                                             *)

EntryType == [fd : Fds, id : Slots, name : Names \cup {Anon}, next : 0..MaxPipes]
CopyType  == [fd : Fds, id : Slots, name : Names \cup {Anon}]
ProcType  == [st : {"off", "run", "ended"}, in : {Socket} \cup (0..MaxPipes),
              out : 0..MaxPipes, big : BOOLEAN, holds : SUBSET Pipes]

\* The tables, the user pipes, the line that runs, and the processes have types.
TableTypes ==
  /\ client_socket \in [Slots -> Fds \cup {NoFd}] /\ sock \in [Fds -> {"free", "prompt", "typed", "gone"}]
  /\ clients \in Seq(EntryType) /\ clients_copy \in Seq(CopyType) /\ Len(clients_copy) = Len(clients)
PipeTypes == upipes \subseteq [s : Slots, r : Slots, pipe : Pipes] /\ leaked \subseteq Pipes
TurnTypes ==
  turn \in [fd : Fds \cup {NoFd}, cmd : Cmds \cup {NoCmd}, k : Nat, parsed : BOOLEAN, out : 0..MaxPipes]
ProcTypes == busy \in Procs \cup {NoProc} /\ proc \in [Procs -> ProcType]

\* Every variable has its type, and the tables have at most an entry for every id and
\* for every client that closed without exit.
TypeOK == TableTypes /\ PipeTypes /\ TurnTypes /\ ProcTypes /\ Len(clients) <= N + MaxLost

Plain(c) == [fd |-> c.fd, id |-> c.id, name |-> c.name]

\* The two tables of clients and the array of sockets, changed one by one by
\* every handler, list the same users: each id once, with the same descriptor
\* and the same name.
TablesAgree ==
  /\ Len(clients) = Len(clients_copy)
  /\ {Plain(c) : c \in Elems(clients)} = Elems(clients_copy)
  /\ \A j, k \in DOMAIN clients : clients[j].id = clients[k].id => j = k
  /\ \A j \in Slots, f \in Fds :
       client_socket[j] = f <=> \E c \in Elems(clients) : c.id = j /\ c.fd = f

\* The nickname under which an id is listed, and who has piped to whom.
NameOf(i) == IF \E c \in Elems(clients) : c.id = i
               THEN (CHOOSE c \in Elems(clients) : c.id = i).name ELSE NoName
Nicknames == [i \in Slots |-> NameOf(i)]
Pairs == {<<u.s, u.r>> : u \in upipes}

\* The server is a chat room: ids, names and pipes change only as it promises.
Room == INSTANCE ChatRoom WITH users <- Nicknames, pipes <- Pairs
RoomSpec == Room!Spec

\* Between commands the server has both ends of a pending user pipe for itself:
\* its data is complete, and nobody else's process will keep the receiver from
\* seeing the end of it.
PipesAlone == Idle => \A u \in upipes :
                        Readers(u.pipe) \cup Writers(u.pipe) \cup Holders(u.pipe) = {}

\* Whoever sends or receives through a pending user pipe is online: exit removes
\* the pipes with the client, so that the next one with the id inherits none.
PipesOfOnline == \A u \in upipes : client_socket[u.s] # NoFd /\ client_socket[u.r] # NoFd

\* A line whose <n is accepted reads the pipe from n, not the client's socket.
\* (It does not hold: see the README.)
ReadsPipe == \A p \in Procs : proc[p].in # Socket

\* Entries with the id or the descriptor of nobody online.
Left == {e \in Elems(clients) : client_socket[e.id] # e.fd}

\* Whoever is online is in both tables, under its own id and descriptor, whatever
\* entries others have left behind with the same descriptor or id: an exit takes
\* away an entry that nobody online needs.
OnlineListed ==
  \A j \in Slots : client_socket[j] # NoFd =>
    \A T \in {Elems(clients), Elems(clients_copy)} :
      \E e \in T : e.id = j /\ e.fd = client_socket[j]

\* Every command typed is answered: whatever a client runs, the others are
\* served when it is over, and it ends.  Unless somebody has closed without exit:
\* with the descriptor of one and the id of another client, or of nobody, the shell
\* left behind runs the line, too, and may wait for itself.
CommandsAnswered == \A f \in Fds : sock[f] = "typed" ~> sock[f] # "typed" \/ Left # {}
=============================================================================
