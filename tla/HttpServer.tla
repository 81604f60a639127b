---------------------------- MODULE HttpServer ----------------------------
(***************************************************************************)
(* The HTTP server, project3/311551059/http_server.cpp: one event loop, a  *)
(* session per browser, and for every request a process that runs a CGI    *)
(* program.  A program finds its request in the environment, of which the  *)
(* server has only one, and has the browser's socket as its output; the    *)
(* browser's page is complete when no process has the socket any more.     *)
(*                                                                         *)
(* Of a request the program, the query and whether it can be parsed are    *)
(* kept.  A request is one segment (it is shorter than the buffer).        *)
(***************************************************************************)
CONSTANTS Browsers, \* the connections that browsers make
          Files,    \* the CGI programs asked for, existing or not
          Queries,  \* the values of QUERY_STRING
          Empty,    \* the empty one
          Requests, \* per browser, what it may ask for
          Server    \* the server process; others are named by their browser

Bad  == "/"  \* or less: the handler throws, or reads the first of an empty vector
None == [file |-> "none", query |-> Empty]

ASSUME RequestsAssumption == Requests \in [Browsers -> SUBSET [file : Files \cup {Bad}, query : Queries]]
ASSUME EmptyAssumption == Empty \in Queries
ASSUME ServerAssumption == Server \notin Browsers

VARIABLES up,      \* the server runs
          at,      \* per browser, what its session waits for
          asked,   \* per browser, the request it has sent
          gone,    \* per browser, it has closed its connection
          environ, \* QUERY_STRING in the environment of the server
          child,   \* per browser, its program and that one's QUERY_STRING
          holders  \* per browser, the processes that have its connection open

httpVars == <<up, at, asked, gone, environ, child, holders>>

Ended == [file |-> "ended", query |-> Empty]

HttpInit == /\ up = TRUE /\ environ = Empty
            /\ at = [b \in Browsers |-> "none"]
            /\ asked = [b \in Browsers |-> None]
            /\ gone = [b \in Browsers |-> FALSE]
            /\ child = [b \in Browsers |-> None]
            /\ holders = [b \in Browsers |-> {}]

Await(b, from, to) == up /\ at[b] = from /\ at' = [at EXCEPT ![b] = to]
-----------------------------------------------------------------------------
\* A browser connects, and do_accept starts its session.
Accept(b) == /\ Await(b, "none", "request")
             /\ holders' = [holders EXCEPT ![b] = {Server}]
             /\ UNCHANGED <<up, asked, gone, environ, child>>

Ask(b) == /\ at[b] = "request" /\ asked[b] = None /\ ~gone[b]
          /\ \E r \in Requests[b] : asked' = [asked EXCEPT ![b] = r]
          /\ UNCHANGED <<up, at, gone, environ, child, holders>>

Leave(b) == /\ at[b] # "none" /\ ~gone[b] /\ gone' = [gone EXCEPT ![b] = TRUE]
            /\ UNCHANGED <<up, at, asked, environ, child, holders>>

\* do_read: the session has the request in members of its own, and writes the status.
ReadRequest(b) == /\ Await(b, "request", "status") /\ asked[b].file \notin {None.file, Bad}
                  /\ UNCHANGED <<up, asked, gone, environ, child, holders>>

\* The read or the write fails; the session is destroyed.
Fail(b) == /\ gone[b]
           /\ Await(b, "request", "over") \/ Await(b, "status", "over")
           /\ holders' = [holders EXCEPT ![b] = @ \ {Server}]
           /\ UNCHANGED <<up, asked, gone, environ, child>>

\* An exception, by the request or by remote_endpoint when the browser has reset
\* its connection, ends the server and with it every session.
Throw(b) == /\ up
            /\ (at[b] = "request" /\ asked[b].file = Bad) \/ (at[b] = "status" /\ gone[b])
            /\ up' = FALSE
            /\ at' = [c \in Browsers |-> IF at[c] = "none" THEN "none" ELSE "over"]
            /\ holders' = [c \in Browsers |-> holders[c] \ {Server}]
            /\ UNCHANGED <<asked, gone, environ, child>>

\* (Mutant: without a query the variable is not set.)
OldQuery(b) == IF asked[b].query = Empty THEN environ ELSE asked[b].query

\* The session's QUERY_STRING, which is empty if there is no '?'.
QUERY_STRING(b) == asked[b].query

\* (Mutant: the server keeps the socket of the browser.)
KeepsSocket(b) == {Server}

\* What the server has of the connection after socket_.close().
AfterClose(b) == {}

\* The status is written: the environment is set, and the child, which has it,
\* has every connection that the server has.  The server closes its socket.
Fork(b) == /\ Await(b, "status", "over")
           /\ environ' = QUERY_STRING(b)
           /\ child' = [child EXCEPT ![b] = [file |-> asked[b].file, query |-> environ']]
           /\ holders' = [c \in Browsers |->
                IF c = b THEN (holders[b] \ {Server}) \cup {b} \cup AfterClose(b)
                ELSE IF Server \in holders[c] THEN holders[c] \cup {b} ELSE holders[c]]
           /\ UNCHANGED <<up, asked, gone>>

\* The program ends, or there was none ("execlp failed.").
CgiEnds(b) == /\ child[b] \notin {None, Ended}
              /\ child' = [child EXCEPT ![b] = Ended]
              /\ holders' = [c \in Browsers |-> holders[c] \ {b}]
              /\ UNCHANGED <<up, at, asked, gone, environ>>

Handle(b) == Accept(b) \/ ReadRequest(b) \/ Fail(b) \/ Throw(b)
-----------------------------------------------------------------------------
HttpTypeOK ==
  /\ up \in BOOLEAN /\ environ \in Queries
  /\ at \in [Browsers -> {"none", "request", "status", "over"}]
  /\ DOMAIN asked = Browsers /\ \A b \in Browsers : asked[b] \in Requests[b] \cup {None}
  /\ gone \in [Browsers -> BOOLEAN]
  /\ child \in [Browsers -> {None, Ended} \cup [file : Files, query : Queries]]
  /\ holders \in [Browsers -> SUBSET (Browsers \cup {Server})]
=============================================================================
