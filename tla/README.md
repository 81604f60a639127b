# TLA+ models of the NYCU Network Programming 2022 programs

This directory keeps specifications of the servers and shells under
`src/projectN/311551059/`: two multi-user chat shells, the pipeline shell they
are built on, the server that runs one per connection, an HTTP/CGI front end in
two forms, its console, and a SOCKS4 proxy. They are checked with
TLC on small instances; the invariants and action properties that the runs check,
and the refinements of the abstract chat room, are also proved with TLAPS, for
every size (see Proofs).

`PROJECT.json` lists the runs, the mapping from definitions to source lines,
the mutants that show each property can fail, the findings and the hazards.

## Inventory

| component | source | state | operations | hard part | modelled |
|---|---|---|---|---|---|
| multi-process chat shell | `project2/.../np_multi_proc_sem.cpp` | shared client table, user-pipe table, message buffer, two semaphores, FIFOs; per process a command, flags and pending signals | accept/fork/register, `who name tell yell exit`, lines with `<n` `>n`, SIGUSR1/SIGUSR2 handlers, SIGINT | processes, nested semaphores, handlers that interrupt critical sections, blocking FIFO opens; connections that close, a killed server and its restart | `MultiProc` |
| pipeline shell | `project1/.../npshell.cpp` | descriptor table, ordinary pipe pair, list of numbered pipes, children | run a line, `|`, `|n`, `!n`, `> file`, `setenv printenv exit` | which descriptor is open where, order of fork, close and wait; full pipes | `ShellPipes` |
| single-process chat shell | `project2/.../np_single_proc.cpp` | sockets by slot, two client vectors, user pipes, one shell per client | select loop, the same commands, waiting for children | one waiting process for everybody, tables kept in step, descriptors inherited by children, what a closed connection leaves behind | `SingleProc` |
| what both chat shells promise | the same two files | users and pipes | login, rename, leave, send, receive | | `ChatRoom` |
| connection-per-process shell | `project2/.../np_simple.cpp` | the server's copy of a connection; per connection an npshell | accept, fork, close; the shell | a connection ends when nobody holds it; clients that just go | `NpSimple` |
| spin-lock chat shell | `project2/.../np_multi_proc.cpp` | as the multi-process shell | | | no (not built) |
| SOCKS4 proxy, firewall | `project4/.../socks_server.cpp`, `firewall.cpp` | per session two sockets, two buffers, an acceptor for BIND | request, rules, CONNECT, BIND, relay in both directions | half-closed connections, two relay chains, children that inherit the loop | `SocksServer` |
| console | `project3/.../console.cpp`, `project4/.../console.cpp` | per session a socket and a script file | connect, SOCKS request and reply, read to a prompt, write a line | prompts and replies split or joined by TCP; an answer that fills the buffer | `Console`, `Web`, `CgiServer` |
| HTTP server | `project3/.../http_server.cpp` | per session a socket, environment variables | request, fork and exec | environment shared by sessions, inherited connections | `HttpServer`, `Web` |
| single-process CGI server | `project3/.../cgi_server.cpp`, `cgi_server_windows.cpp` | per browser a session and a page, per console its sessions | request, panel, console on a second event loop | an event loop inside a handler, raw pointers, unfinished writes | `CgiServer` |
| commands, panels | `project1/commands`, `project3/extra_files` | none | text filters, forms | | no |

How they interact: a browser asks the HTTP server for `console.cgi`, which it
forks; the console connects (in project 4 through the SOCKS proxy) to a chat or
simple shell and feeds it a script, one line at each prompt. The shells run the
test commands. Within a component the interactions are shared memory,
semaphores, signals and FIFOs (`MultiProc`), pipes and inherited descriptors
(`ShellPipes`, `NpSimple`, `SingleProc`), and completion handlers on one event
loop (the network programs).

What makes each correct, in a sentence:

* multi-process chat shell: critical sections exclude each other, ids and names
  are unique, a message is not overwritten while it is handed over, a pipe in the
  table has its two users and can be read, every command returns, and a semaphore
  is lost only with a process that dies inside it.
* pipeline shell: each command is connected to what the line says, all output
  arrives, no descriptor is left open but those of pipes still to be read, every
  line ends; behind a socket, the connection ends when the client goes or exits.
* single-process chat shell: its tables agree, it implements the chat room, and
  nobody's command keeps the others from being served; whoever is online stays
  listed, whatever others have left behind.
* console and HTTP server: a program gets its own browser's request, feeds each
  file line by line to the end, shows everything, and the page ends; inside the
  CGI server no session writes to a socket that is gone, and whoever asks is
  answered after the consoles before it.
* proxy: each direction delivers what was sent, in order and completely, until
  both ends have closed, and only what the rules permit is connected.

The hazards (where testing hardly reaches) are listed line by line under
`hazards` in `PROJECT.json`, each with the properties that notice when it goes
wrong, or with a note that says why none does.

## Modules

### ChatRoom: the abstract specification

`users` gives each id its nickname and `pipes` is the set of pairs (sender,
receiver) with data to be received. `Login` takes the smallest free id, `Leave`
removes the pipes from and to the user. `UniqueNames` and `PipesHaveUsers` are
its promises. `SingleProc` refines it (`single_room`), and so does `MultiProc`
when the clients take turns (`multi_serial`), with

* `SingleProc`: `users[i]` is the name in the entry with id `i` of the vector
  `clients`; `pipes` are the pairs in `all_user_pipes`;
* `MultiProc`: `users` is `clients[i].name`; `pipes` are the pairs whose
  `receive` flag is set.

### MultiProc: np_multi_proc_sem.cpp

One variable per shared object (`cpid`, `cname`, `receive`, `rfd`, `fifo`,
`buffer`, `sem`, `semc`) and per process its place in the code (`pc`), its
command and the flags of `Parser` (`line`). An action is the code between two
points where a process can block or where another one can see a difference;
critical sections that neither block nor write are one action. SIGUSR1 and
SIGUSR2 are pending bits; `PrintBuffer`, `OpenPipes`, `OpenRead` and `StoreFd`
are the handler, which may run at any point of the main program. `open` on a
FIFO blocks until the other side is there; `Unlink` may orphan a writer that is
already blocked. A user number past the table (514, 555, 747) is an index without
a check: what is read there may be 0, may fault with `sem_clients` held, or may be
anything else, and the command goes on. `<n` then receives through a pipe that the
tables do not have and broadcasts it; `>n` waits in `open` for a reader that never
comes, with `sem_clients` held. What the code writes past the tables on that way, and
the process that the pid read there may belong to, are left out.

`Faults` says what may go wrong. `close`: a client closes its connection without
`exit` (`closed`); the process goes on with empty lines (629) until a write to
the connection kills it (`Hangup`), wherever it is, with what it holds (`lost`),
and its slot and pipes stay. That it writes at once takes standard output to be
line-buffered, as it is on a terminal. `kill`: the server and its children are
killed and it is started again (`Kill`); `sem_open` with `O_CREAT` (828) finds
the old values. `interrupt`: Ctrl-C, whose handler unlinks the semaphores
(`Interrupt`). The shared memory is cleared by `main` each time; the FIFOs of
`user_pipe` are found again.

`Serial = TRUE` is the assignment's rule that "different
clients don't execute commands at the same time".

### ShellPipes: npshell.cpp

`fds` is the shell's descriptor table (the kernel gives out the lowest free
number), `outer` the list of numbered pipes with the numbers stored in it, and
`kid` the processes, each with what its standard descriptors refer to. Pipes
hold `Cap` units; a unit is known by the line that produced it. The commands run
concurrently with the shell: sources, filters, and commands that do nothing.
`Inherited` are the descriptors the shell is started with. Descriptors and pipes
do not run out (`CanOpen`): a bound, for `pipe` is not checked in the code; no run
reaches it. `BuiltIn` (setenv, printenv) takes a line number and nothing else, also
when a numbered pipe ends at its line (447-466): that pipe is never read and never
closed.

### NpSimple: np_simple.cpp

The server's loop (`server`, and `sock`, its copy of the connection), one
connection, and the shell of `ShellPipes`, which `np_simple.cpp` has a copy of,
behind it. The connection is descriptors 0, 1 and 2 of the shell and of every
command, and number 4, which nobody closes. `Fork` may fail (there is no check),
the client may go at any time; then a write to it kills the shell or the
command (`HangUp`, `DieAtTty`), and `getline` finds the end of the input. `InUse`
is what the client sees: somebody still has the connection open.

### SingleProc: np_single_proc.cpp

`client_socket`, `clients` and `clients_copy` are the three tables, `upipes`
`all_user_pipes`. `turn` is the call of `HandleCommand` in progress: it goes
through all entries with the descriptor, as the loop at 957 does. A line is one
process (how its commands are joined is `ShellPipes`), which holds the pipes its
child does not close. Pipes of a shell erased by `exit` stay open in the server
(`leaked`), and so does a `|1` whose next line is `setenv` or `printenv`
(`BuiltIn`, 755-782). What a client has typed is looked at when the server reads it, so
`Type` says only that something was. A client may close its connection instead
(`Close`): the branch at 1103-1109 (`Disconnect`) frees the descriptor and the
slot and leaves the entries in both vectors, and the user pipes; a later client
gets the same descriptor, and its lines run in the shell left behind, too. Until
the server has read the end, a message to everybody kills it (`SigPipe`).

### SocksServer: socks_server.cpp

The server forks a process per connection, so one session is modelled with its
two peers. `phase` says which handler of `session` is due: `do_read`
(`ToConnect`, `ToBind`, `Reject`, `Drop`), the connection (`Connected`, `Accepted`),
`send_reply_to_web` (`Reply`), then the relay. The relay is a chain of handlers
per direction, `read_from` and `write_to`: `reading[x]` is a pending
`async_read_some` on side `x`, `buf` and `left` the buffer and its part not yet
written, `shut` what `shutdown` has done. `inq` and `outq` are what TCP holds
between a peer and the proxy. `parent` is the server's copy of the client's
socket (481-488), `rules` the file `socks.conf`, read at the request (203).
`EofThrows` is `shutdown` on a socket whose peer has reset: the exception leaves
`run`. `asked` is the request, `dst` the address that was checked, and `peer` the one
at the other end of the second socket: with CONNECT that is `dst`, with BIND whoever
connects to the port. A request is one segment. The replies are written from arrays on the
stack; 8 bytes go out in the call that starts the write, so their contents are
those of the handler.

### HttpServer, Console and Web: http_server.cpp and console.cpp

`HttpServer` has one session per browser: `at` is what it waits for (the
request, the status to be written), `asked` the request that its members hold,
`environ` the only environment of the server. `Fork` is the handler at 97-145:
it sets the environment, forks, and closes the socket; `holders` records which
processes have a connection open, for a child gets every one of the server's.
`Throw` is an exception out of a handler, which ends `run`.

`Console` has the sessions of all consoles, (page, slot), with the proxy
(project 4) or without (`Proxied`). `state` is the pending
handler, `stream` what the proxy and the shell have sent, `line` the number of
lines taken from the file. `ReadReply` and `ReadShell` are the handlers at 82-95
and 97-144. `missed` records that a prompt arrived which the code does not
recognize; it is an observation for the properties and no action reads it.
`overrun` records that a read filled `data_`: the terminating zero (102) is then
the first byte of the member behind it, the `std::ifstream`; using that file
afterwards may fault (`Crashes`).

`Web` composes them: the child of a request for `console.cgi` runs `Main` with
the query it finds in its environment, and ends when `ioc.run` returns, when the
proxy's name is not resolved, or when its page is written to a closed connection.

### CgiServer: cgi_server.cpp

The same sessions of `Console`, without the proxy, inside the server. `at` is
where the session of a browser is; `"console"` is the second event loop that
`do_write` runs until all sessions of that page are over (550), and while some
session is there no handler of the first loop runs (`Loops`). A console writes
to its browser through a raw pointer (542), from buffers on the stack, and does
not wait for the write before. `room` is what TCP takes before the browser reads
(`Show`); a write that does not fit leaves its rest to the first loop, which
stands still, and the page is `torn`. `found` says what the request needs and finds: `console.cgi`
the names of its servers, the panel the directory `test_case` (240), which throws
when it is missing. A server number past the arrays (515-523) is a request that
faults (`Bad`) or one that goes on without that field. `Down` is an exception out of a handler or
a fault: it ends the server with everybody's sessions.

## Runs

Bounds are in the `.cfg` files. A run checks deadlock unless the program really
may stop in it; those that may say `CHECK_DEADLOCK FALSE` (clients that have all
left, a server blocked by one of the findings, a shell that has read its input).

| run | instance | checks |
|---|---|---|
| `multi_serial` | 3 processes, 2 ids, all commands, in turn, no faults | an id is found, the table and the pipes are exact between commands, every command ends, ChatRoom is implemented |
| `multi_talk` | 3 processes, 2 ids, all but lines, numbers past the table, concurrently, all faults | types, the message stays intact, names and ids are unique, a semaphore is lost only by a death inside it |
| `multi_pipes` | 2 processes, lines and exit, numbers past the table, concurrently, the server killed and restarted | mutual exclusion, faults included; a marked pipe has both users |
| `multi_deadlock` | two yells | violates `CommandsEnd`: `sem` and `sem_clients` are nested in both orders |
| `np_simple` | 3 lines with `|n`, `!n`, `>`, up to 3 commands, outputs larger than a pipe; exit, a client that goes, a fork that fails | types, connected as typed, output arrives while there is a client, nothing stays open but the pipes of lines to come and of lines that were built-ins, lines and the connection end |
| `shell_stale` | the lines of `t3.txt:9` | violates `Connected`: used numbers are closed again |
| `single_room` | 3 users, pipes, name, who, exit | the tables agree, pipes belong to users online, ChatRoom is implemented |
| `single_serve` | 2 users, every command, small outputs, 2 processes at a time, a client that closes | types; a pending pipe is complete and nobody else has it; who is online is listed; every command is answered as long as no stray entry is left |
| `single_inherit` | 2 users, a large `|1` | violates `CommandsAnswered`: one user's process holds another one's pipe |
| `socks_relay` | one session, CONNECT, BIND and neither, two rule files, 1 and 4 units to relay, resets | types and buffer bounds, data in order and complete, ends passed on truly, data passes only for what the file permitted and, with CONNECT, only to the address it permitted, the session ends when both sides have ended or reset |
| `web_console` | 2 browsers, 2 servers per query, files of 2 lines and of none, answers up to a full buffer, leaving at any time | types, own servers only, lines paced by prompts, all lines sent, all output shown, pages end |
| `cgi_server` | 2 browsers; consoles of two, one and unknown servers, the panel, a file, nonsense; TCP takes 4 writes; leaving and reading at any time | no session writes to a socket that is gone, all lines are sent, who asks is answered |

Why the bounds are enough: the interesting cases of the tables need an id that
is freed and reused (more processes than ids in `multi_*`, two or three slots
with logins after logouts in `single_*`), a sender, a receiver and a third user
(`single_room`), and both orders of two critical sections
(two processes). `MaxArg = 3` is one number past a table of two. A pipe overflows with one unit more than `Cap`
(`"large"` is that amount); a descriptor
number is reused after one close, and the reuse of a number in `outer` takes a
line of three commands. `single_room` restricts typing to one client at a time (`InTurn`), which loses
nothing for its properties: the server serves one client at a time, and what
another client has typed meanwhile is not looked at. One entry left behind
(`MaxLost = 1`) can have the id or the descriptor of the next client, or both,
in either order of two clients. `np_simple` does not
follow a line of three commands that receives a numbered pipe (`NotStale`):
that is the finding of `shell_stale`. Its lines of three commands are small, because
with more output than two pipes hold such a line hangs (see
below), and what a client types it has typed before it goes. `multi_talk` has all
faults: with `close` a slot is never freed, so `NoOverrun` is asked only of
`multi_serial`. `multi_pipes` kills the server and restarts it (when nobody holds a
semaphore, Ctrl-C leaves the same state), and has no `close`, with which
the instance has too many states to finish. In `socks_relay`
one side sends two buffers (`MaxLength = 2`, `MaxSent["dst"] = 4`) and more
than TCP holds (`Cap = 3`, also more than a buffer), so that a read leaves a
rest and a write is completed in parts while the other direction runs and ends;
sessions share nothing but the file, so one is
enough. Its CONNECT has a name with two addresses, of which one of the rule files permits
only one, and comes with an address that is not to be used. In `web_console` the second browser's request comes before, between and
after the handlers of the first one's; an answer with its prompt fits into the
buffer, fills it, so that it overruns, or is one unit longer, so that the prompt
is split. In `cgi_server` one console of two servers writes more than TCP takes
(`Room = 4`), so pages are torn. `HasRoom` in `SingleProc` and the pools of pipes and processes
are bounds, not behaviour; lines are not typed when the pool has none left.

### What does not hold

Three properties are violated in runs of their own (`multi_deadlock`,
`shell_stale`, `single_inherit`) and listed as findings. The following also
fail; they were seen with TLC on configurations of these modules or with the
compiled programs, and are not among the runs:

* `SingleProc!ReadsPipe` (three users): `<n` is accepted when user n has piped
  to anybody (598 compares the sender only). No pipe is found (456), the command
  reads the client's socket, and the server waits for it. The assignment
  (`NP_Project2_Spec_v2.pdf`, 4.5) wants "the pipe #<sender_id>->#<receiver_id>
  does not exist yet".

* `MultiProc!MessageSurvives` (two yells): `usleep(1000)` is not a hand-over
  (685), a late process prints the second message twice and never the first.
* `MultiProc!NameKept` (a name right after the login): the parent enters
  "(no name)" after the child has started (940-946) and undoes it.
* `MultiProc!ReaderHasDescriptor` (receive, and the sender sends again):
  `remove_userpipe` clears a pipe in three steps without the semaphore (64-71).
* `MultiProc!CommandsEnd` in turns with `MaxArg = 3`: a user number past the
  table may fault with the semaphore held (514, 555, 747), or `>n` wait with it for
  ever (570).
* `MultiProc!CommandsEnd` with two commands at a time: the SIGUSR2 of a sender that
  comes before the receiver has stored `my_id` opens nothing (566), and the sender
  waits with `sem_clients` held, which the receiver's login needs.
* `remove_userpipe` removes by number, after several waits (438): when the sender has
  left meanwhile and its id has a new user, who has piped to the same receiver, that
  pipe is removed.
* `ShellPipes!LinesEnd` with `source | filter | filter`, `Cap = 1` and
  `Amount` of 3: the shell waits for command k-1 before it forks k+1 (251).
* A command before `|n` stays a zombie (262), and at the end of its input the
  shell prompts for ever (436).
* `NoLeak` without the exception for built-ins: `ls |1` and then `setenv A B` leave
  both ends of the pipe open in the shell for good, for nobody will read the list
  `outer` for that line again (447-466, and 371-390 of `np_simple.cpp`). A writer with
  more than the pipe holds blocks until the shell exits. `np_simple` has such lines.
* A client of the single-process server that closes without `exit` leaves its
  user pipes and its table entries behind (1103-1109): with `MaxLost = 1`
  `PipesOfOnline` and `TablesAgree` are violated, and `CommandsAnswered` without
  its excuse: when client 2 has the descriptor that client 1 had, and types
  `cat >1 <1`, the shell left behind makes a pipe to itself and reads it, and the
  server waits for that `cat`. `SigPipe`: a login or logout before the
  server has noticed ends it for everybody.
* `MultiProc!NoOverrun` with `close`: processes whose clients have gone keep
  their slots (629), until the scan for an id runs past the table (898).
* `MultiProc!CommandsEnd` with `close`, in turns: a sender opens the FIFO of a
  user whose process is dead but whose slot is not free, and blocks with
  `sem_clients` held (570).
* `MultiProc!CommandsEnd` with `close` or `kill`: a process that dies inside a
  critical section leaves the semaphore at 0 for all others, and for the next
  server (828); only Ctrl-C frees it.
* `Console!AllSent` without `missed`: a prompt that comes in one segment with
  the proxy's reply is dropped (88), and one that the end of the buffer splits
  is not found (108); the session waits for ever, and with it every page whose
  connection its process has inherited.
* `Console!AllSent` without `overrun`: an answer of exactly
  `max_length` bytes overwrites a byte of the file behind the buffer (102), and
  the program faults when it takes the next line.
* `CgiServer!Answered` without its excuses: a console whose shell does not answer
  keeps every other browser waiting (550), and a page that is not read is torn.
* `Console!OneAtATime` and `PageComplete` with an answer that contains "% ": the
  next line is sent early, and the session is over before the last output.
* The HTTP server survives every request: an exception of one handler (72, 99)
  leaves `run` and ends it with everybody's sessions.
* BIND takes whoever connects to its port: the peer's address is not compared with the
  one that was asked for and checked, as `NP_Project4_Spec.pdf` (2(b)iv) wants.
  `RelayPermitted` therefore says of BIND only that its destination was permitted.
* The proxy tells the other side when a connection is reset (369), or the client
  when the connect fails (271): nothing is sent. The session is over when the
  other side ends, too, which `SessionEnds` shows.

`shell_stale`, `ReadsPipe`, `single_inherit`, the hang on
`cat large | cat | cat`, the user number past the table and the closed
connection were reproduced with the compiled programs, the overrun of the buffer
with the same members in a small program.

### Fairness

`MultiProc`: weak fairness of each process and of each handler, because the
system schedules every process and delivers every signal; a semaphore need not
be fair to a waiter, and clients need not type. `ShellPipes` and
`NpSimple`: weak fairness of the server, the shell and the commands together: for
a line there are finitely many steps, so it is enough that something that can run
does. `SingleProc`: the same for the server's work and the processes, and strong fairness of serving each socket, since one
round of the loop looks at all sockets `select` reported (1098-1151).
`SocksServer`: weak fairness of the session's handlers, of each chain, of the
parent's close, and of peers that read; none for peers that send, end, reset, or
connect to a BIND's port. `Web` and `CgiServer`: weak
fairness of all handlers, children, proxies and shells together: they have
finitely many steps, so it is enough that one that can be taken is. Proxies and
shells always answer; browsers need not ask, leave or read.

## Proofs

Each module `XProofs` proves theorems about the specification `X!Spec`, for all
values of the constants that satisfy the `ASSUME`s named in `X` (sizes are natural
numbers, reserved values are distinct from the others, the typed lines and answers
are of their types, `SingleProc!Fds` is finite). Theorems with a hypothesis of
their own say so below; a hypothesis is about constants and holds in the runs
that check the property, but `NotStale`, which is about the line that is run and is
the constraint of the run. None uses fairness.

### MultiProcProofs

For every interleaving, all faults and restarts included:

* `TypeCorrect`: all types, with the semaphores never above 1;
* `MutualExclusion`: `Mutex` for both semaphores;
* `BufferStaysIntact`, `NamesStayUnique`, `IdsNeverClash`;
* `SemaphoresAccounted`: a semaphore at 0 is held by somebody, or somebody has
  died with it since it was made;
* `PipesKeepEnds`: a marked pipe has both of its users.

`IInv` is the inductive invariant: the types, `Mutex`, and `HasId` (a process has
its id from the fork and `my_id` from its first prompt on). The types alone are
not inductive: `sem' = sem + 1` stays in `0..1` only because the process that posts
holds the semaphore, which is `Mutex`; and an array is written at `my_id[p]` only by
a process that has one, which is `HasId` (a process that is gone is exempt: a signal
may have ended it anywhere). The other theorems rest on it. `IdsNeverClash` needs
`Owned`: a process online is the one its slot names, or it is the child that the
parent is about to enter and the slot is still free; choosing and claiming an id are
two critical sections, and this says why nobody comes between. `SemaphoresAccounted`
needs, besides, that a step which takes a semaphore ends at a place that counts as
holding it (`KeepsSem`, `KeepsClients`); `PipesKeepEnds` that `my_id`, also of a dead
process, is 0 or the id it was given (`TrueIds`).

When the clients take turns and the server is not restarted (`TakeTurns`; clients may
close their connections):

* `ImplementsRoom`: the refinement of `ChatRoom`. It needs `TurnsInv`: besides
  `Owned` and `TrueIds`, that at most one process is between commands or logging in
  (`Turns`), that names and pids go together and the ids below the parent's choice are
  used (`Rows`), that no command sends to its own user (`CmdOk`), and that the pipe a
  line has passed the checks of `<n` for stays marked until that line removes it
  (`LineOk`). Without turns the registration undoes a name
  (`NameKept` below), and that is no step of the room.

When, besides, no client closes its connection and no number past the table is typed
(`NothingFails`):

* `ScanFindsSlot` (`NoOverrun`) and `TableStaysExact` (`TableIsExact`), from `Exact`:
  whoever is in the table is online under that id. If every slot were taken, the
  table would be a bijection of the ids and the live processes, and the connection
  not accepted;
* `PipesStayReady` (`PipesReady`), from `PipeInv`: at most one pipe is being opened
  (`Calm` or `Opening(p, r)`), `Stage` says how far the writer's line and the
  receiver's handler have come, and all other pipes rest. A command waits for
  nobody's handler, so the handler may still run when the line has long gone on,
  but not when the next command begins.

Both hypotheses are needed: the counterexamples are under "What does not hold".

### ChatRoomProofs and SingleProcProofs

`ChatRoomProofs` proves the promises of `ChatRoom`: `TypeCorrect`,
`NamesAreUnique`, `PipesAlwaysHaveUsers`.

`SingleProcProofs`, with clients that close their connections:

* `TypeCorrect` and `OnlineStayListed`, from `Tables`: who has a slot is in both
  vectors under its descriptor (`Listed`), a descriptor is in one slot (`Sockets`), the
  server runs lines only for who has typed (`Serving`), and the entries left behind
  are counted (`Counted`). The erasing loop of `exit` is shown to take away only
  entries that have the erased id or descriptor;
* `PipesStayAlone`: between commands nobody but the server has an end of a pending
  user pipe, from `AllPrivate`, for which the line that runs is the one exception.

When everybody leaves by `exit` (`NobodyCloses`, that is `MaxLost = 0`):
`TablesStayAgreed`, `PipesStayOfOnline`, and `ImplementsRoom`, the refinement of
`ChatRoom`. `RoomInv` adds that both vectors list the same users once each
(`Agreed`) and that no line has a pipe to its own user (`NotSelf`). With `MaxLost = 1`
they are violated (below).

### NpSimpleProofs

For any lines with any number of commands, any number of descriptors and pipes, the
client gone at any time, and `npshell` as `np_simple` has it:

* `TypeCorrect`;
* `NothingLeaks`, also when numbers are closed twice (`NotStale` is not assumed). The shell
  closes by number, so the proof is about numbers: what has to stay open through the line
  (`Live`: what is inherited, and the pipes of lines that have started no command, `Stays`,
  be they to come or built-ins that had their turn) is open, and no
  number in it is one of another pipe or one that the line closes (`Shape`, `Numbers`);
  what is open besides is determined by how far the line is (`OpenOnes`).

When no line of three commands receives a numbered pipe (`[]NotStale`; otherwise
`Connected` is violated, by `shell_stale`):

* `StaysConnected`. Commands are started in order (`Queue`), and lines with one
  destination have equal entries in `outer` (`Entries`). From a command's start to
  its successor's, the pipe between them is open in the shell, under the number the
  successor will get: in `outer` for `|n` (`Pending`), in `before` for `|` (`Between`).
  After that the two have it themselves (`Paired`). The step that needs `NotStale` is the
  second command's: what `close_used_pipes` has closed after the first one may be
  the number that `pipe` gave out since;
* `OutputIsServed`. A writer has a successor on its line or in a line to come
  (`Ahead`, `Outs`); until the successor starts, the shell has the read end; then the
  successor has it until its own end, and a filter does not end before its writer unless it
  lost its output (`ReadersLive`). So who lost its output has one of the reasons that
  `Served` allows (`Losses`).

### SocksServerProofs

For any rules, requests, buffer sizes and amounts of data, with resets:

* `TypeCorrect`: no buffer and no queue exceeds its size;
* `RelaysOnlyPermitted` (`RelayPermitted`), from `FirewallInv`, which follows the address
  from the check to the data: while the session connects, `dst` is permitted; from the
  connection on, the peer's address is (with BIND, `dst` is); and no data passes before;
* `DataInOrder` and `EndsAreTrue`, from `RelayInv`: per direction, what was sent is
  what has arrived, what is in TCP, in the buffer and still to be read, one after the
  other (`Order`); a read is pending only when the buffer is empty (`Alternate`); and
  a side is shut only after the other one has ended (`Ends`).

### ConsoleProofs, WebProofs and CgiServerProofs

`ConsoleProofs` has the lemmas about sessions that both servers need, and each of the
two shows that its steps are console steps or leave the consoles alone.

* `TypeCorrect` of both: a session never sends more lines than its file has;
* `ServersAreOwn` (`WebProofs`): although all programs get their query from the one
  environment of the server, since the fork follows in the same handler (`HttpInv`);
* `SocketOutlivesSessions` (`CgiServerProofs`): while a session of a console runs, its
  browser's session is inside the handler that started it (`Inside`);
* `PagesAreComplete` and `LinesOneAtATime` in both servers, if no answer contains
  a prompt (`Plain`), however the answers are cut into reads. `SessionInv` says what the
  session, the stream and the shell can be at together: there is at most one
  prompt in the stream, at its end, and the shell waits for a line then.
  Without `Plain` they are violated (below).

### What is not proved

Liveness (`CommandsEnd`, `LinesEnd`, `ConnectionEnds`, `CommandsAnswered`,
`Delivered`, `SessionEnds`, `AllSent`, `PageEnds`, `Answered`): fairness and ENABLED
are outside the prover.

## Not modelled

* Text: the wording of messages, parsing of a line into words, HTML.
* The environment, PATH lookup, file contents.
* `np_multi_proc.cpp`: an earlier version of the multi-process server, with spin
  locks, that the Makefile does not build. `cgi_server_windows.cpp` is
  `cgi_server.cpp` with other includes, and is not modelled twice.
* `firewall.cpp` (a test of `pass_firewall`, which `SocksServer` has), the test
  commands and the panels: they keep no state.
* `np_simple.cpp`: a client that shuts down only its sending side.
* Children that outlive a killed multi-process server; they have the old shared
  memory, the new server another one.
* In `SingleProc`: messages; lines that arrive joined or split; a 31st client;
  a descriptor of a client left behind that is used again by a pipe.
* In `MultiProc`: what is written past the tables with a number that is past them.
* In `SocksServer`: a request in more than one segment, or with data right behind
  it, and the acceptor of the child, which spins when its session is over.
* Commands before `|n` are never reaped (262 of `npshell.cpp`); that `fork` and
  `pipe` fail in the end, unchecked, is a matter of the system's limits.
* How many messages a client sees: `SingleProc` and `ChatRoom` have no messages;
  `MultiProc` has the buffer and the signals.

## Plan

Done: `MultiProc` with its faults and proofs, `ShellPipes` and `NpSimple`, `ChatRoom`
with proofs, `SingleProc` with closed connections, `SocksServer`, `HttpServer`,
`Console`, and `Web` and `CgiServer`, which compose these two.

Proved: every invariant and action property of the runs, and both refinements of
`ChatRoom`.

Next: the proxy between `Console` and the shells: `SocksServer` in the place of
`ProxyReplies`, to derive when a prompt is joined with the reply.
