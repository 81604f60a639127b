----------------------------- MODULE NpSimple -----------------------------
(***************************************************************************)
(* The server np_simple.cpp of project2/311551059: it accepts a connection *)
(* and forks a process that runs npshell, which is the shell of project 1  *)
(* (ShellPipes), with the connection as its terminal.  The processes share *)
(* nothing, so one connection is followed here.                            *)
(*                                                                         *)
(* The connection is descriptors 0, 1 and 2 of the shell and of all its    *)
(* commands, and 4 besides, which nobody closes.  The client sees its end  *)
(* when nobody has it open any more.                                       *)
(***************************************************************************)
EXTENDS ShellPipes

VARIABLES server, \* main's loop: "accept", "fork" or "close", or "next" connection
          sock,   \* the server has new_socket open
          shell,  \* the child: "none", "runs" (see pc), "failed" to be forked
          client  \* "none", "open", or "gone" without an exit

netVars == <<server, sock, shell, client>>
npVars == <<netVars, vars>>

NpInit == /\ Init /\ server = "accept" /\ sock = FALSE /\ shell = "none"
          /\ client = "none"
-----------------------------------------------------------------------------
Accept == /\ server = "accept" /\ client # "none"
          /\ server' = "fork" /\ sock' = TRUE /\ UNCHANGED <<shell, client, vars>>

\* There is no check for -1: no process is left to be forked, then.
Fork == /\ server = "fork" /\ server' = "close"
        /\ shell' \in {"runs", "failed"} /\ UNCHANGED <<sock, client, vars>>

\* (Mutant: the parent keeps the connection.)
KeepsSocket == sock

\* close(new_socket)
Closed == FALSE

CloseSocket == /\ server = "close" /\ server' = "next" /\ sock' = Closed
               /\ UNCHANGED <<shell, client, vars>>

Main == Accept \/ Fork \/ CloseSocket

\* The shell runs its line, and the commands run.
ShellRuns == shell = "runs" /\ Shell /\ UNCHANGED netVars
CommandRuns(l, s) == Command(l, s) /\ UNCHANGED netVars

\* Bound: what the client types is read before it goes.
Types == /\ shell = "runs" /\ client = "open" /\ (BuiltIn \/ Exit \/ \E l \in Lines : Parser(l))
         /\ UNCHANGED netVars

\* A prompt, or what printenv prints, is written to a client that has gone:
\* SIGPIPE ends the shell.  At the end of its input it prompts for ever.
HangUp == \/ /\ shell = "runs" /\ client = "gone" /\ InputEnds /\ UNCHANGED netVars
          \/ /\ shell = "runs" /\ client = "gone" /\ pc = "prompt"
             /\ pc' = "exited" /\ fds' = [f \in Fds |-> Shut]
             /\ UNCHANGED <<eof, line_no, cmdline, i, before, after, wfd, outer, kid, buf, netVars>>

\* So does a command that writes to it, if TCP has noticed.
DieAtTty(l, s) ==
  LET k == kid[l][s]
  IN /\ client = "gone" /\ Running(l, s)
     /\ \/ k.errs > 0 /\ k.err = Tty
        \/ k.errs = 0 /\ k.left > 0 /\ k.out = Tty
        \/ k.kind = "filter" /\ k.in.end = "r" /\ buf[k.in.pipe] # <<>> /\ k.out = Tty
     /\ Ends(l, s, TRUE)
     /\ UNCHANGED <<shVars, fds, buf, netVars>>

Connect == client = "none" /\ client' = "open" /\ UNCHANGED <<server, sock, shell, vars>>
Leave   == client = "open" /\ client' = "gone" /\ UNCHANGED <<server, sock, shell, vars>>
-----------------------------------------------------------------------------
\* The steps that the system takes by itself.
SystemRuns == \/ Main \/ ShellRuns \/ HangUp
        \/ \E l \in LineNos, s \in Stages : CommandRuns(l, s)

NpNext == \/ SystemRuns \/ Types \/ Connect \/ Leave
          \/ \E l \in LineNos, s \in Stages : DieAtTty(l, s)

\* Processes that can run do, and the client has to do nothing.  For a line there
\* are finitely many steps, so it is enough that some process runs.
NpSpec == NpInit /\ [][NpNext]_npVars /\ WF_npVars(SystemRuns)
-----------------------------------------------------------------------------
NpTypeOK == /\ TypeOK
            /\ server \in {"accept", "fork", "close", "next"} /\ sock \in BOOLEAN
            /\ shell \in {"none", "runs", "failed"} /\ client \in {"none", "open", "gone"}

\* No command loses its output while there is somebody to see it.
Served == client = "gone" \/ OutputArrives

\* Somebody has the connection open.
InUse == \/ sock \/ (shell = "runs" /\ pc # "exited")
            \/ \E l \in LineNos, s \in Stages : Running(l, s)

\* After exit, after a fork that failed, and when the client goes, the connection
\* ends: no command is left that waits for input or for a reader.
ConnectionEnds ==
  shell = "failed" \/ pc = "exited" \/ (client = "gone" /\ shell = "runs") ~> ~InUse
=============================================================================
