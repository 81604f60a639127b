------------------------------ MODULE Console ------------------------------
(***************************************************************************)
(* The remote batch console, project4/311551059/console.cpp: one process   *)
(* per page.  For every server that the query names, a session connects    *)
(* to it through the SOCKS proxy and feeds it a file, one line when it     *)
(* sees the prompt "% ".  The console of project 3 has no proxy.           *)
(*                                                                         *)
(* The proxy and the shells are external.  What a shell writes is a        *)
(* sequence of units: the characters of the prompt, and "x" for any other. *)
(* A write arrives as a whole; reads take what is there, up to a buffer.   *)
(* A line fits into the socket, so writing it is part of the read before.  *)
(***************************************************************************)
EXTENDS Integers, Sequences

CONSTANTS Pages,     \* the consoles
          Slots,     \* the servers that a query can name: h0, h1, ...
          FileLines, \* per slot, the number of lines of its file
          Outputs,   \* what a shell may answer, prompt not included
          Proxied,   \* there is a proxy (project 4)
          MaxLength  \* max_length, the size of the buffer

Sessions == Pages \X Slots
Unit     == {"%", " ", "x"}
Prompt   == <<"%", " ">>

ASSUME FilesAssumption == FileLines \in [Slots -> Nat]
ASSUME OutputsAssumption == Outputs \subseteq Seq(Unit)
ASSUME LengthAssumption == MaxLength \in Nat \ {0}
ASSUME ProxiedAssumption == Proxied \in BOOLEAN

VARIABLES console,  \* per page, its process
          state,    \* per session, what it waits for
          line,     \* per session, how many lines it has sent
          stream,   \* per session, what has been sent to it and is not read
          remote,   \* per session, what the proxy or the shell does next
          answered, \* per session, how many lines the shell has answered
          missed,   \* per session, a prompt arrived that it has not recognized
          overrun   \* per session, the byte behind its buffer was overwritten

obsVars == <<missed, overrun>>
consoleVars == <<console, state, line, stream, remote, answered, obsVars>>

All(v) == [s \in Sessions |-> v]

ConsoleInit == /\ console = [p \in Pages |-> "none"]
               /\ state = All("none") /\ line = All(0) /\ stream = All(<<>>)
               /\ remote = All("none") /\ answered = All(0) /\ missed = All(FALSE)
               /\ overrun = All(FALSE)

Min(a, b) == IF a < b THEN a ELSE b
Data(s) == SubSeq(stream[s], 1, Min(Len(stream[s]), MaxLength))
Rest(s) == SubSeq(stream[s], Len(Data(s)) + 1, Len(stream[s]))

\* (Mutant: any percent sign is taken for the prompt.)
AnyPercent(d) == \E i \in 1..Len(d) : d[i] = "%"

\* (Mutant: the prompt has to come alone.)
Alone(d) == d = Prompt

\* data.find("% ")
TimeToSend(d) == \E i \in 1..(Len(d) - 1) : SubSeq(d, i, i + 1) = Prompt

\* The buffer ends within the prompt.
Splits(s) == Len(Data(s)) > 0 /\ Data(s)[Len(Data(s))] = "%" /\ Rest(s) # <<>> /\ Rest(s)[1] = " "

\* The read fills the buffer: data_[length] is the first byte of `file' then.
Full(s) == Len(Data(s)) = MaxLength
-----------------------------------------------------------------------------
\* main: the sessions are started, unless the proxy's name is not resolved: then
\* the program ends.
Main(p, slots) ==
  /\ console' = [console EXCEPT ![p] = "runs"]
  /\ state' = [s \in Sessions |-> IF s[1] = p /\ s[2] \in slots THEN "connect" ELSE state[s]]
  /\ UNCHANGED <<line, stream, remote, answered, obsVars>>

NoneConnected(p) == /\ \E t \in Slots : state[<<p, t>>] = "connect"
                    /\ \A t \in Slots : state[<<p, t>>] \in {"none", "connect"}

\* The process ends before its sessions do, and their connections with it.
Dies(p) ==
  LET Forget(f, v) == [s \in Sessions |-> IF s[1] = p THEN v ELSE f[s]]
  IN /\ console[p] = "runs"
     /\ state' = Forget(state, "none") /\ line' = Forget(line, 0)
     /\ stream' = Forget(stream, <<>>) /\ remote' = Forget(remote, "none")
     /\ answered' = Forget(answered, 0) /\ UNCHANGED missed

Killed(p) == /\ Dies(p) /\ console' = [console EXCEPT ![p] = "killed"]
             /\ UNCHANGED overrun

\* The proxy is connected to and the request is written; without a proxy the
\* shell itself is.
Connected(s) ==
  /\ state[s] = "connect"
  /\ state' = [state EXCEPT ![s] = IF Proxied THEN "reply" ELSE "read"]
  /\ remote' = [remote EXCEPT ![s] = IF Proxied THEN "reply" ELSE "prompt"]
  /\ UNCHANGED <<console, line, stream, answered, obsVars>>

\* The connect fails, or a read does: the other side has closed.
Fails(s) == /\ \/ state[s] = "connect"
               \/ state[s] \in {"reply", "read"} /\ stream[s] = <<>> /\ remote[s] = "closed"
            /\ state' = [state EXCEPT ![s] = "over"]
            /\ UNCHANGED <<console, line, stream, remote, answered, obsVars>>

\* receive_socks4a_reply: what came with the reply is not looked at.
ReadReply(s) ==
  /\ state[s] = "reply" /\ stream[s] # <<>>
  /\ state' = [state EXCEPT ![s] = IF Head(stream[s]) = "90" THEN "read" ELSE "over"]
  /\ stream' = [stream EXCEPT ![s] = Rest(s)]
  /\ missed' = [missed EXCEPT ![s] = Len(Data(s)) > 1]
  /\ UNCHANGED <<console, line, remote, answered, overrun>>

\* (Mutant: the end of the file is not noticed.)
NoEnd(s) == TRUE

\* getline returns a line.
HasLine(s) == line[s] < FileLines[s[2]]

\* (Mutant: after the last line nothing is read.)
NotAfterExit(s) == line[s] + 1 < FileLines[s[2]]

\* The next read starts when the line is written, whatever the line is.
ReadsOn(s) == TRUE

\* do_read and do_write: output is shown; at a prompt the next line is sent, or
\* there is none and the session is over.
ReadShell(s) ==
  /\ state[s] = "read" /\ stream[s] # <<>>
  /\ stream' = [stream EXCEPT ![s] = Rest(s)]
  /\ missed' = [missed EXCEPT ![s] = @ \/ Splits(s)]
  /\ overrun' = [overrun EXCEPT ![s] = @ \/ Full(s)]
  /\ \/ ~TimeToSend(Data(s)) /\ UNCHANGED <<state, line>>
     \/ /\ TimeToSend(Data(s)) /\ HasLine(s)
        /\ line' = [line EXCEPT ![s] = @ + 1]
        /\ state' = [state EXCEPT ![s] = IF ReadsOn(s) THEN "read" ELSE "over"]
     \/ /\ TimeToSend(Data(s)) /\ ~HasLine(s)
        /\ state' = [state EXCEPT ![s] = "over"] /\ UNCHANGED line
  /\ UNCHANGED <<console, remote, answered>>

\* getline on a `file' that was overwritten may end the process, or do no harm:
\* that depends on what the byte was.
Crashes(s) == /\ state[s] = "read" /\ stream[s] # <<>> /\ TimeToSend(Data(s))
              /\ overrun[s] \/ Full(s)
              /\ Dies(s[1]) /\ console' = [console EXCEPT ![s[1]] = "crashed"]
              /\ overrun' = [overrun EXCEPT ![s] = TRUE]

Step(s) == Connected(s) \/ Fails(s) \/ ReadReply(s) \/ ReadShell(s)

\* ioc.run returns when no session is left.
Returns(p) == /\ console[p] = "runs"
              /\ \A t \in Slots : state[<<p, t>>] \in {"none", "over"}
              /\ console' = [console EXCEPT ![p] = "over"]
              /\ UNCHANGED <<state, line, stream, remote, answered, obsVars>>
-----------------------------------------------------------------------------
(* The proxy and the shell.                                                *)

Sends(s, d) == /\ stream' = [stream EXCEPT ![s] = @ \o d]
               /\ UNCHANGED <<console, state, line, obsVars>>
Then(s, r) == remote' = [remote EXCEPT ![s] = r]

ProxyReplies(s) == /\ remote[s] = "reply" /\ UNCHANGED answered
                   /\ \/ Sends(s, <<"90">>) /\ Then(s, "prompt")
                      \/ Sends(s, <<"91">>) /\ Then(s, "closed")
                      \/ Sends(s, <<>>) /\ Then(s, "closed")

ShellPrompts(s) == /\ remote[s] = "prompt" /\ Sends(s, Prompt) /\ Then(s, "line")
                   /\ UNCHANGED answered

\* The last line may be "exit".
ShellAnswers(s) ==
  /\ remote[s] = "line" /\ answered[s] < line[s]
  /\ answered' = [answered EXCEPT ![s] = @ + 1]
  /\ \/ \E d \in Outputs : Sends(s, d) /\ Then(s, "prompt")
     \/ line[s] = FileLines[s[2]] /\ Sends(s, <<>>) /\ Then(s, "closed")

\* What they do after the session has closed is not followed.
Remote(s) == /\ state[s] \in {"reply", "read"}
             /\ ProxyReplies(s) \/ ShellPrompts(s) \/ ShellAnswers(s)
-----------------------------------------------------------------------------
ConsoleTypeOK ==
  /\ console \in [Pages -> {"none", "runs", "over", "killed", "crashed"}]
  /\ state \in [Sessions -> {"none", "connect", "reply", "read", "over"}]
  /\ stream \in [Sessions -> Seq(Unit \cup {"90", "91"})]
  /\ line \in [Sessions -> Nat] /\ answered \in [Sessions -> Nat]
  /\ remote \in [Sessions -> {"none", "reply", "prompt", "line", "closed"}]
  /\ missed \in [Sessions -> BOOLEAN] /\ overrun \in [Sessions -> BOOLEAN]
  /\ \A s \in Sessions : answered[s] <= line[s] /\ line[s] <= FileLines[s[2]]

\* Nothing of what the shell has to say comes later.
Quiet(s) == /\ stream[s] = <<>> /\ answered[s] = line[s]
            /\ remote[s] \in {"line", "closed"}

\* A line is sent only when the whole answer to the one before is on the page, if
\* no answer looks like a prompt.
OneAtATime ==
  [][\A s \in Sessions : line'[s] > line[s] => answered[s] = line[s] /\ stream'[s] = <<>>]_consoleVars

\* A session that has used up its file has shown all that the shell wrote.
PageComplete ==
  \A s \in Sessions : state[s] = "over" /\ line[s] = FileLines[s[2]] /\ line[s] > 0 => Quiet(s)

\* Once the proxy has accepted, every line of the file is sent, unless a prompt is
\* not recognized, the process is killed from outside, or an answer has filled
\* the buffer of one of its sessions.
AllSent ==
  \A s \in Sessions :
    state[s] = "read" ~>
      \/ missed[s] \/ (state[s] = "over" /\ line[s] = FileLines[s[2]])
      \/ console[s[1]] = "killed" \/ \E t \in Slots : overrun[<<s[1], t>>]
=============================================================================
