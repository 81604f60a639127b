-------------------------------- MODULE Web --------------------------------
(***************************************************************************)
(* The HTTP server and the consoles it starts: console.cgi runs in a child *)
(* of http_server, reads QUERY_STRING of the environment it was started    *)
(* with, writes to the browser's connection, and ends when its sessions    *)
(* are over.  A query is the set of the servers it names.                  *)
(***************************************************************************)
EXTENDS HttpServer, Console

ASSUME PagesAssumption == Pages = Browsers
ASSUME QueriesAssumption == Queries \subseteq SUBSET Slots

vars == <<httpVars, consoleVars>>

Init == HttpInit /\ ConsoleInit

IsConsole(b) == child[b].file = "console.cgi"

\* The program is started by the server's child.
StartConsole(b) == /\ IsConsole(b) /\ console[b] = "none"
                   /\ Main(b, child[b].query) /\ UNCHANGED httpVars

\* The child ends when its program does: when the sessions are over, the proxy is
\* not found, the page is written to a connection that is closed (SIGPIPE), or a
\* session crashes.
ChildEnds(b) ==
  /\ CgiEnds(b)
  /\ IF IsConsole(b) THEN \/ Returns(b) \/ ((NoneConnected(b) \/ gone[b]) /\ Killed(b))
                          \/ \E t \in Slots : Crashes(<<b, t>>)
                     ELSE UNCHANGED consoleVars

Http(b)   == (Handle(b) \/ Fork(b)) /\ UNCHANGED consoleVars
Child(b)  == StartConsole(b) \/ ChildEnds(b)
Talk(s)   == Step(s) /\ UNCHANGED httpVars
Answer(s) == Remote(s) /\ UNCHANGED httpVars

\* The steps that the processes and the shells take by themselves.
SystemRuns == \/ \E b \in Browsers : Http(b) \/ Child(b)
              \/ \E s \in Sessions : Talk(s) \/ Answer(s)

Next == SystemRuns \/ \E b \in Browsers : (Ask(b) \/ Leave(b)) /\ UNCHANGED consoleVars

\* Event loops call handlers that are ready, and the processes and the shells run:
\* these have finitely many steps, so it is enough that one is taken.  No browser
\* has to ask.
Spec == Init /\ [][Next]_vars /\ WF_vars(SystemRuns)
-----------------------------------------------------------------------------
TypeOK == HttpTypeOK /\ ConsoleTypeOK

\* A console talks to the servers that its own browser has named, whatever
\* requests the server has handled at the same time.
OwnServers ==
  \A b \in Browsers, t \in Slots :
    state[<<b, t>>] # "none" => t \in asked[b].query

\* Who has asked sees its page end.  The connection may be inherited by the
\* program of another browser, so all of these must end, too: they do unless one
\* has missed a prompt.
PageEnds ==
  \A b \in Browsers : asked[b] # None ~>
                        holders[b] = {} \/ \E s \in Sessions : missed[s]
=============================================================================
