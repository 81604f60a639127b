----------------------------- MODULE CgiServer -----------------------------
(***************************************************************************)
(* The HTTP server that runs its CGI programs itself: cgi_server.cpp of    *)
(* project3/311551059.  There is one process with one event loop.  The     *)
(* handler that has read a request for console.cgi runs a second loop, for *)
(* the sessions of that console, until they are over: nobody else is       *)
(* served meanwhile, and nothing of the first loop is.                     *)
(*                                                                         *)
(* The sessions are those of Console, without a proxy.  They write to the  *)
(* socket of the browser through a raw pointer, from a buffer on the stack *)
(* and without waiting for the write before.  A write goes out at once if  *)
(* TCP takes all of it; if not, the rest belongs to the first loop, which  *)
(* stands still, and its buffer is dead by then: the page is torn.         *)
(* Of a page, the status and the body go out before it can be full.        *)
(***************************************************************************)
EXTENDS Console

CONSTANTS Programs, \* what is asked for: "console.cgi", "panel.cgi", others
          Requests, \* per browser, what it may ask for, see RequestType
          Room      \* how many elements TCP takes before the browser reads

Browsers == Pages

\* "/" or less: substr throws, or the first of an empty vector is read.  And a query
\* with an hN, pN or fN out of range, when the write outside its vector is a fault; when
\* it is not, the request is one without that field.
Bad == "/"

\* found: what the program needs is there, for console.cgi the addresses of all servers,
\* for panel.cgi the directory test_case.
RequestType == [file : Programs \cup {Bad}, query : SUBSET Slots, found : BOOLEAN]
None == [file |-> "none", query |-> {}, found |-> TRUE]

\* Both programs throw when it is not.
Needs == {"console.cgi", "panel.cgi"}

ASSUME NoProxyAssumption == ~Proxied
ASSUME RequestsAssumption == Requests \in [Browsers -> SUBSET RequestType]
ASSUME ProgramsAssumption == Bad \notin Programs /\ None.file \notin Programs
ASSUME RoomAssumption == Room \in Nat

VARIABLES up,    \* the server runs
          at,    \* per browser, where its session is
          asked, \* per browser, the request it has sent
          gone,  \* per browser, it has closed its connection
          room,  \* per browser, how many elements its socket takes
          torn   \* per browser, a write did not go out as a whole

webVars == <<room, torn>>
cgiVars == <<up, at, asked, gone, webVars>>
vars == <<cgiVars, consoleVars>>

Init == /\ up = TRUE
        /\ at = [b \in Browsers |-> "none"]
        /\ asked = [b \in Browsers |-> None]
        /\ gone = [b \in Browsers |-> FALSE]
        /\ room = [b \in Browsers |-> Room] /\ torn = [b \in Browsers |-> FALSE]
        /\ ConsoleInit

Go(b, from, to) == at[b] = from /\ at' = [at EXCEPT ![b] = to]
-----------------------------------------------------------------------------
(* Browsers.                                                               *)

Ask(b) == /\ at[b] = "request" /\ asked[b] = None /\ ~gone[b]
          /\ \E r \in Requests[b] : asked' = [asked EXCEPT ![b] = r]
          /\ UNCHANGED <<up, at, gone, webVars, consoleVars>>

Leave(b) == /\ at[b] # "none" /\ ~gone[b] /\ gone' = [gone EXCEPT ![b] = TRUE]
            /\ UNCHANGED <<up, at, asked, webVars, consoleVars>>

\* The browser takes what has come of its page.
Show(b) == /\ ~gone[b] /\ room[b] < Room /\ room' = [room EXCEPT ![b] = Room]
           /\ UNCHANGED <<up, at, asked, gone, torn, consoleVars>>
-----------------------------------------------------------------------------
(* The first loop.                                                         *)

\* The first loop runs handlers: it is not inside the one of a console.
Loops == up /\ \A b \in Browsers : at[b] # "console"

\* An exception in a handler, or a fault: the server ends, with all sessions.
Down == up' = FALSE /\ at' = [b \in Browsers |-> IF at[b] = "none" THEN "none" ELSE "over"]

Accept(b) == /\ Loops /\ Go(b, "none", "request")
             /\ UNCHANGED <<up, asked, gone, webVars, consoleVars>>

\* do_read fails: the session is destroyed.
Fail(b) == /\ Loops /\ gone[b] /\ Go(b, "request", "over")
           /\ UNCHANGED <<up, asked, gone, webVars, consoleVars>>

\* (Mutant: a request without a query is not complete.)
HasQuery(b) == Loops /\ at[b] = "request" /\ asked[b] # None /\ asked[b].query # {}

\* async_read_some has the request of b.
Has(b) == Loops /\ at[b] = "request" /\ asked[b] # None

Throw(b) == /\ Has(b)
            /\ asked[b].file = Bad \/ (asked[b].file \in Needs /\ ~asked[b].found)
            /\ Down /\ UNCHANGED <<asked, gone, webVars, consoleVars>>

\* panel.cgi: the status and the form; any other file: the status alone.
Respond(b) == /\ Has(b) /\ asked[b].file \notin {Bad, "console.cgi"}
              /\ asked[b].file = "panel.cgi" => asked[b].found
              /\ Go(b, "request", "status")
              /\ UNCHANGED <<up, asked, gone, webVars, consoleVars>>

\* (Mutant: do_write starts the sessions and returns.)
StartOnly(b) == /\ Has(b) /\ asked[b].file = "console.cgi" /\ asked[b].found
                /\ Go(b, "request", "status") /\ Main(b, asked[b].query)
                /\ UNCHANGED <<up, asked, gone, webVars>>

\* console.cgi: the status and the table, then a session for every server named
\* in the query, on a loop of its own.
StartConsole(b) == /\ Has(b) /\ asked[b].file = "console.cgi" /\ asked[b].found
                   /\ Go(b, "request", "console") /\ Main(b, asked[b].query)
                   /\ UNCHANGED <<up, asked, gone, webVars>>

\* The handlers of the status and of the body.  remote_endpoint throws when the
\* browser has reset the connection; else the session is destroyed, and with it
\* the socket.  What is left of a torn page is written from dead buffers, and
\* perhaps to the dead socket.
Written(b) == /\ Loops /\ at[b] = "status"
              /\ \/ Go(b, "status", "over") /\ UNCHANGED up
                 \/ (gone[b] \/ torn[b]) /\ Down
              /\ UNCHANGED <<asked, gone, webVars, consoleVars>>

Handle(b) == Accept(b) \/ Fail(b) \/ Throw(b) \/ Respond(b) \/ StartConsole(b) \/ Written(b)
-----------------------------------------------------------------------------
(* The second loop, inside do_write of b.                                  *)

\* async_write of n elements: those TCP has no room for are lost to the page.
\* Writing to a browser that has gone fails, and nobody looks.
WriteWeb(b, n) ==
  /\ room' = [room EXCEPT ![b] = IF gone[b] THEN @ ELSE IF @ < n THEN 0 ELSE @ - n]
  /\ torn' = [torn EXCEPT ![b] = @ \/ (~gone[b] /\ room[b] < n)]

\* A session's handler: output_shell for what was read, output_command for the
\* line that is sent.
Talk(s) ==
  /\ up /\ at[s[1]] = "console"
  /\ \/ (Connected(s) \/ Fails(s)) /\ UNCHANGED webVars
     \/ ReadShell(s) /\ WriteWeb(s[1], IF line'[s] > line[s] THEN 2 ELSE 1)
  /\ UNCHANGED <<up, at, asked, gone>>

Crash(s) == /\ up /\ at[s[1]] = "console" /\ Crashes(s)
            /\ Down /\ UNCHANGED <<asked, gone, webVars>>

\* ioc.run returns, and do_write with it.
EndConsole(b) == /\ up /\ Returns(b) /\ Go(b, "console", "status")
                 /\ UNCHANGED <<up, asked, gone, webVars>>

Answer(s) == up /\ Remote(s) /\ UNCHANGED cgiVars
-----------------------------------------------------------------------------
\* The steps that the loops and the shells take by themselves.
SystemRuns == \/ \E b \in Browsers : Handle(b) \/ EndConsole(b)
              \/ \E s \in Sessions : Talk(s) \/ Crash(s) \/ Answer(s)

Next == SystemRuns \/ \E b \in Browsers : Ask(b) \/ Leave(b) \/ Show(b)

\* The loops call handlers that are ready, and the shells run: these have finitely
\* many steps, so it is enough that one is taken.  No browser has to ask or to read.
Spec == Init /\ [][Next]_vars /\ WF_vars(SystemRuns)
-----------------------------------------------------------------------------
\* Every variable has its type; for proofs, no run asks it.
TypeOK ==
  /\ up \in BOOLEAN
  /\ at \in [Browsers -> {"none", "request", "console", "status", "over"}]
  /\ DOMAIN asked = Browsers /\ \A b \in Browsers : asked[b] \in Requests[b] \cup {None}
  /\ gone \in [Browsers -> BOOLEAN] /\ torn \in [Browsers -> BOOLEAN]
  /\ room \in [Browsers -> 0..Room]
  /\ ConsoleTypeOK

\* While a session of a console runs, the socket it has a raw pointer to is there:
\* the browser's session has not been destroyed.
SocketAlive ==
  \A b \in Browsers, t \in Slots :
    up /\ state[<<b, t>>] \in {"connect", "read"} => at[b] = "console"

\* What may end the server: a request it cannot parse, or for what is not found, a
\* browser that leaves, a page that is not read in time, an answer that fills a buffer.
Excused == \/ \E b \in Browsers : \/ gone[b] \/ torn[b] \/ asked[b].file = Bad
                                  \/ ~asked[b].found
           \/ \E s \in Sessions : overrun[s]

\* Whoever asks sees the page end, after all consoles that came before, and not by
\* the end of the server unless that has a reason; the consoles that came before
\* end unless one of them has missed a prompt.
Answered ==
  \A b \in Browsers :
    asked[b] # None ~> \/ at[b] = "over" /\ (up \/ Excused)
                       \/ \E s \in Sessions : missed[s]
=============================================================================
