----------------------------- MODULE WebProofs -----------------------------
(***************************************************************************)
(* Proofs about the HTTP server and its consoles, for any number of        *)
(* browsers and servers, any requests, files, answers and buffer.          *)
(***************************************************************************)
EXTENDS Web, ConsoleProofs

\* A step of the server, of a child's end, or of a browser.
HttpStep ==
  \E b \in Browsers : Handle(b) \/ Fork(b) \/ CgiEnds(b) \/ Ask(b) \/ Leave(b)

\* A request that gets a status is one; a child has the query that its browser has
\* asked for, whatever is in the environment by now, and then the session is over.
HttpInv ==
  \A b \in Browsers :
    /\ at[b] = "status" => asked[b].file \notin {None.file, Bad}
    /\ child[b].file = "console.cgi" => at[b] = "over" /\ child[b].query = asked[b].query

\* A session of a console is to a server that the browser has named, and the
\* browser can no longer ask for others.
Owned == \A b \in Browsers, t \in Slots :
           state[<<b, t>>] # "none" => at[b] = "over" /\ t \in asked[b].query

\* Every step of the whole is one of the server or none, and one of the consoles or
\* none: a console is given a set of servers, once.
LEMMA StepsOfParts ==
  ASSUME HttpTypeOK, Next
  PROVE  /\ HttpStep \/ UNCHANGED httpVars
         /\ ConsoleStep \/ UNCHANGED consoleVars
<1>1. \A b \in Browsers : b \in Pages
  BY PagesAssumption
<1>2. ASSUME NEW b \in Browsers, StartConsole(b)
      PROVE  ConsoleStep /\ UNCHANGED httpVars
  <2>1. child[b] \in [file : Files, query : Queries]
    BY <1>2 DEF StartConsole, IsConsole, HttpTypeOK, None, Ended
  <2>2. child[b].query \in SUBSET Slots
    BY <2>1, QueriesAssumption
  <2> QED BY <1>1, <1>2, <2>2 DEF StartConsole, ConsoleStep
<1>3. ASSUME NEW b \in Browsers, ChildEnds(b)
      PROVE  HttpStep /\ (ConsoleStep \/ UNCHANGED consoleVars)
  <2>1. \A t \in Slots : <<b, t>> \in Sessions
    BY <1>1 DEF Sessions
  <2> QED BY <1>1, <1>3, <2>1 DEF ChildEnds, HttpStep, ConsoleStep
<1>4. ASSUME NEW s \in Sessions, Talk(s) \/ Answer(s)
      PROVE  ConsoleStep /\ UNCHANGED httpVars
  BY <1>4 DEF Talk, Answer, ConsoleStep
<1>5. ASSUME NEW b \in Browsers, Http(b) \/ ((Ask(b) \/ Leave(b)) /\ UNCHANGED consoleVars)
      PROVE  HttpStep /\ UNCHANGED consoleVars
  BY <1>5 DEF Http, HttpStep
<1> QED BY <1>2, <1>3, <1>4, <1>5 DEF Next, SystemRuns, Child

\* The steps of the server keep its types and HttpInv, and a session that is over,
\* with its request.
LEMMA ServerStep ==
  ASSUME HttpTypeOK, HttpInv, HttpStep
  PROVE  /\ HttpTypeOK' /\ HttpInv'
         /\ \A b \in Browsers : at[b] = "over" => at'[b] = "over" /\ asked'[b] = asked[b]
<1> DEFINE Goal == /\ HttpTypeOK' /\ HttpInv'
                   /\ \A b \in Browsers : at[b] = "over" => at'[b] = "over" /\ asked'[b] = asked[b]
<1>1. ASSUME NEW b \in Browsers, Accept(b) \/ ReadRequest(b) \/ Fail(b) \/ Throw(b) \/ Leave(b)
      PROVE  Goal
  <2>1. UNCHANGED <<asked, environ, child>>
    BY <1>1 DEF Accept, ReadRequest, Fail, Throw, Leave
  <2>2. /\ up' \in BOOLEAN /\ gone' \in [Browsers -> BOOLEAN]
        /\ at' \in [Browsers -> {"none", "request", "status", "over"}]
    BY <1>1 DEF Accept, ReadRequest, Fail, Throw, Leave, Await, HttpTypeOK
  <2>3. holders' \in [Browsers -> SUBSET (Browsers \cup {Server})]
    BY <1>1 DEF Accept, ReadRequest, Fail, Throw, Leave, HttpTypeOK
  <2>4. \A c \in Browsers : /\ at[c] = "over" => at'[c] = "over"
                            /\ at'[c] = "status" => at[c] = "status" \/ asked[c].file \notin {None.file, Bad}
    BY <1>1 DEF Accept, ReadRequest, Fail, Throw, Leave, Await, HttpTypeOK
  <2> QED BY <2>1, <2>2, <2>3, <2>4 DEF HttpTypeOK, HttpInv
<1>2. ASSUME NEW b \in Browsers, Ask(b)
      PROVE  Goal
  <2>1. PICK r \in Requests[b] : asked' = [asked EXCEPT ![b] = r]
    BY <1>2 DEF Ask
  <2>2. at[b] = "request" /\ UNCHANGED <<up, at, gone, environ, child, holders>>
    BY <1>2 DEF Ask
  <2>3. DOMAIN asked' = Browsers /\ \A c \in Browsers : asked'[c] \in Requests[c] \cup {None}
    BY <2>1 DEF HttpTypeOK
  <2>4. \A c \in Browsers : c # b => asked'[c] = asked[c]
    BY <2>1 DEF HttpTypeOK
  <2> QED BY <2>2, <2>3, <2>4 DEF HttpTypeOK, HttpInv
<1>3. ASSUME NEW b \in Browsers, Fork(b)
      PROVE  Goal
  <2>1. /\ at[b] = "status" /\ at' = [at EXCEPT ![b] = "over"] /\ UNCHANGED <<up, asked, gone>>
        /\ environ' = asked[b].query
        /\ child' = [child EXCEPT ![b] = [file |-> asked[b].file, query |-> asked[b].query]]
    BY <1>3 DEF Fork, Await, QUERY_STRING
  <2>2. asked[b] \in [file : Files, query : Queries]
    <3>1. asked[b].file \notin {None.file, Bad} /\ asked[b] \in Requests[b] \cup {None}
      BY <2>1 DEF HttpInv, HttpTypeOK
    <3>2. asked[b] \in [file : Files \cup {Bad}, query : Queries]
      BY <3>1, RequestsAssumption
    <3> QED BY <3>1, <3>2
  <2>3. holders' \in [Browsers -> SUBSET (Browsers \cup {Server})]
    BY <1>3 DEF Fork, AfterClose, HttpTypeOK
  <2>4. HttpTypeOK'
    BY <2>1, <2>2, <2>3 DEF HttpTypeOK
  <2>5. \A c \in Browsers : /\ at'[c] = IF c = b THEN "over" ELSE at[c]
                            /\ child'[c] = IF c = b THEN [file |-> asked[b].file, query |-> asked[b].query] ELSE child[c]
    BY <2>1 DEF HttpTypeOK
  <2> QED BY <2>1, <2>4, <2>5 DEF HttpInv
<1>4. ASSUME NEW b \in Browsers, CgiEnds(b)
      PROVE  Goal
  <2>1. child' = [child EXCEPT ![b] = Ended] /\ UNCHANGED <<up, at, asked, gone, environ>>
    BY <1>4 DEF CgiEnds
  <2>2. holders' \in [Browsers -> SUBSET (Browsers \cup {Server})]
    BY <1>4 DEF CgiEnds, HttpTypeOK
  <2>3. \A c \in Browsers : child'[c] = IF c = b THEN Ended ELSE child[c]
    BY <2>1 DEF HttpTypeOK
  <2> QED BY <2>1, <2>2, <2>3 DEF HttpTypeOK, HttpInv, Ended
<1> QED BY <1>1, <1>2, <1>3, <1>4 DEF HttpStep, Handle

\* A session starts when its console does, and only then.
LEMMA SessionsStart ==
  ASSUME HttpTypeOK, ConsoleTypeOK, Next, NEW s \in Sessions, state[s] = "none", state'[s] # "none"
  PROVE  s[1] \in Browsers /\ StartConsole(s[1]) /\ s[2] \in child[s[1]].query
<1>1. ASSUME NEW p \in Pages, Dies(p)
      PROVE  FALSE
  BY <1>1 DEF Dies
<1>2. \A t \in Sessions : t[1] \in Pages
  BY DEF Sessions
<1>3. ASSUME NEW t \in Sessions, Step(t) \/ Remote(t) \/ Crashes(t)
      PROVE  FALSE
  <2>1. ~Crashes(t)
    BY <1>1, <1>2 DEF Crashes
  <2>2. ~Remote(t)
    BY DEF Remote, ProxyReplies, ShellPrompts, ShellAnswers, Sends
  <2>3. ~Step(t)
    <3>1. ASSUME Step(t)
          PROVE  state[t] # "none" /\ \A u \in Sessions : u # t => state'[u] = state[u]
      BY <3>1 DEF Step, Connected, Fails, ReadReply, ReadShell, ConsoleTypeOK
    <3> QED BY <3>1
  <2> QED BY <1>3, <2>1, <2>2, <2>3
<1>4. ASSUME NEW b \in Browsers, ChildEnds(b)
      PROVE  FALSE
  <2>1. b \in Pages /\ \A t \in Slots : <<b, t>> \in Sessions
    BY PagesAssumption DEF Sessions
  <2> QED BY <1>1, <1>3, <1>4, <2>1 DEF ChildEnds, Returns, Killed, consoleVars
<1>5. ~UNCHANGED consoleVars
  BY DEF consoleVars
<1>6. PICK b \in Browsers : StartConsole(b)
  BY <1>3, <1>4, <1>5 DEF Next, SystemRuns, Http, Child, Talk, Answer
<1>7. s[1] = b /\ s[2] \in child[b].query
  BY <1>6 DEF StartConsole, Main
<1> QED BY <1>6, <1>7
-----------------------------------------------------------------------------
Invariant == HttpTypeOK /\ ConsoleTypeOK /\ HttpInv /\ Owned

LEMMA InvariantHolds == Spec => []Invariant
<1>1. Init => Invariant
  <2> SUFFICES ASSUME Init PROVE Invariant
    OBVIOUS
  <2>1. HttpTypeOK /\ HttpInv
    BY EmptyAssumption DEF Init, HttpInit, HttpTypeOK, HttpInv, None
  <2>2. ConsoleTypeOK
    BY ConsoleInitTypes DEF Init
  <2>3. Owned
    BY PagesAssumption DEF Init, ConsoleInit, All, Owned, Sessions
  <2> QED BY <2>1, <2>2, <2>3 DEF Invariant
<1>2. Invariant /\ [Next]_vars => Invariant'
  <2> SUFFICES ASSUME Invariant, [Next]_vars PROVE Invariant'
    OBVIOUS
  <2>1. CASE Next
    <3>1. HttpTypeOK /\ ConsoleTypeOK /\ HttpInv /\ Owned
      BY DEF Invariant
    <3>2. (HttpStep \/ UNCHANGED httpVars) /\ (ConsoleStep \/ UNCHANGED consoleVars)
      BY <2>1, <3>1, StepsOfParts
    <3>3. /\ HttpTypeOK' /\ HttpInv'
          /\ \A b \in Browsers : at[b] = "over" => at'[b] = "over" /\ asked'[b] = asked[b]
      <4>1. CASE HttpStep
        BY <3>1, <4>1, ServerStep
      <4>2. CASE UNCHANGED httpVars
        BY <3>1, <4>2 DEF HttpTypeOK, HttpInv, httpVars
      <4> QED BY <3>2, <4>1, <4>2
    <3>4. ConsoleTypeOK'
      <4>1. CASE ConsoleStep
        BY <3>1, <4>1, ConsoleTypes
      <4>2. CASE UNCHANGED consoleVars
        BY <3>1, <4>2 DEF ConsoleTypeOK, consoleVars, obsVars
      <4> QED BY <3>2, <4>1, <4>2
    <3>5. ASSUME NEW b \in Browsers, NEW t \in Slots, state'[<<b, t>>] # "none"
          PROVE  at'[b] = "over" /\ t \in asked'[b].query
      <4>1. CASE state[<<b, t>>] # "none"
        BY <3>1, <3>3, <4>1 DEF Owned
      <4>2. CASE state[<<b, t>>] = "none"
        <5>1. <<b, t>> \in Sessions /\ <<b, t>>[1] = b /\ <<b, t>>[2] = t
          BY PagesAssumption DEF Sessions
        <5>2. StartConsole(b) /\ t \in child[b].query
          BY <2>1, <3>1, <3>5, <4>2, <5>1, SessionsStart
        <5> QED BY <3>1, <3>3, <5>2 DEF HttpInv, StartConsole, IsConsole
      <4> QED BY <4>1, <4>2
    <3> QED BY <3>3, <3>4, <3>5 DEF Invariant, Owned
  <2>2. CASE UNCHANGED vars
    BY <2>2 DEF vars, httpVars, consoleVars, obsVars, Invariant, HttpTypeOK, ConsoleTypeOK, HttpInv, Owned
  <2> QED BY <2>1, <2>2
<1> QED BY <1>1, <1>2, PTL DEF Spec

\* Every variable of the server and its consoles keeps its type: a child that is
\* started has a program and a query that can be asked for, and a session never
\* sends more lines than its file has.
THEOREM TypeCorrect == Spec => []TypeOK
<1>1. Invariant => TypeOK
  BY DEF Invariant, TypeOK
<1> QED BY <1>1, InvariantHolds, PTL

\* The server has one environment for all the programs that it starts, and yet a
\* console talks to no server but those that its own browser has named.
THEOREM ServersAreOwn == Spec => []OwnServers
<1>1. Invariant => OwnServers
  BY DEF Invariant, Owned, OwnServers
<1> QED BY <1>1, InvariantHolds, PTL
-----------------------------------------------------------------------------
\* If no answer looks like a prompt, every session is in order in every state.
LEMMA DialoguesHold ==
  ASSUME Plain PROVE Spec => [](Invariant /\ \A s \in Sessions : SessionInv(s))
<1> DEFINE Ordered == \A s \in Sessions : SessionInv(s)
<1>1. Init => Ordered
  BY SessionInit DEF Init
<1>2. Invariant /\ Ordered /\ [Next]_vars => Ordered'
  <2> SUFFICES ASSUME Invariant, Ordered, [Next]_vars, NEW s \in Sessions
               PROVE  SessionInv(s)'
    OBVIOUS
  <2>1. CASE Next
    <3>1. CASE ConsoleStep
      BY <3>1, SessionStep DEF Invariant
    <3>2. CASE UNCHANGED consoleVars
      BY <3>2 DEF consoleVars, SessionInv
    <3> QED BY <2>1, <3>1, <3>2, StepsOfParts DEF Invariant
  <2>2. CASE UNCHANGED vars
    BY <2>2 DEF vars, consoleVars, SessionInv
  <2> QED BY <2>1, <2>2
<1> HIDE DEF Ordered
<1>3. Spec => []Ordered
  BY <1>1, <1>2, InvariantHolds, PTL DEF Spec
<1> QED BY <1>3, InvariantHolds, PTL DEF Ordered

\* However the answers are cut into reads: if no answer looks like a prompt, a
\* session that has used up its file has shown all that the shell wrote.
THEOREM PagesAreComplete == ASSUME Plain PROVE Spec => []PageComplete
<1>1. (\A s \in Sessions : SessionInv(s)) => PageComplete
  BY QuietAtTheEnd
<1> QED BY <1>1, DialoguesHold, PTL

\* If no answer looks like a prompt, a line is sent only when the whole answer to
\* the one before is on the page.
THEOREM LinesOneAtATime == ASSUME Plain PROVE Spec => OneAtATime
<1> DEFINE A == \A s \in Sessions : line'[s] > line[s] => answered[s] = line[s] /\ stream'[s] = <<>>
           Ordered == \A s \in Sessions : SessionInv(s)
<1>1. Invariant /\ Ordered /\ [Next]_vars => [A]_consoleVars
  <2> SUFFICES ASSUME Invariant, Ordered, [Next]_vars
               PROVE  A \/ UNCHANGED consoleVars
    OBVIOUS
  <2>1. CASE Next
    <3>1. CASE ConsoleStep
      BY <3>1, SessionStep DEF Invariant
    <3> QED BY <2>1, <3>1, StepsOfParts DEF Invariant
  <2>2. CASE UNCHANGED vars
    BY <2>2 DEF vars
  <2> QED BY <2>1, <2>2
<1> HIDE DEF A, Ordered
<1>2. Spec => [](Invariant /\ Ordered)
  BY DialoguesHold DEF Ordered
<1>3. Spec => [][A]_consoleVars
  BY <1>1, <1>2, PTL DEF Spec
<1> QED BY <1>3 DEF OneAtATime, A
=============================================================================
