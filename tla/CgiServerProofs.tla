-------------------------- MODULE CgiServerProofs --------------------------
(***************************************************************************)
(* Proofs about the server that runs its consoles itself, for any number   *)
(* of browsers and servers, any requests, files, answers, room and buffer. *)
(***************************************************************************)
EXTENDS CgiServer, ConsoleProofs

\* A console is started once, by the handler of its request; while one of its
\* sessions runs the server is inside that handler.
Inside ==
  \A b \in Browsers :
    /\ at[b] \in {"none", "request"} => console[b] = "none"
    /\ \A t \in Slots : up /\ state[<<b, t>>] \in {"connect", "reply", "read"} => at[b] = "console"

\* The types of what is not the console's.
CgiTypes ==
  /\ up \in BOOLEAN
  /\ at \in [Browsers -> {"none", "request", "console", "status", "over"}]
  /\ DOMAIN asked = Browsers /\ \A b \in Browsers : asked[b] \in Requests[b] \cup {None}
  /\ gone \in [Browsers -> BOOLEAN] /\ torn \in [Browsers -> BOOLEAN]
  /\ room \in [Browsers -> 0..Room]

\* A step that the consoles take no part in.
OwnStep(b) == \/ Ask(b) \/ Leave(b) \/ Show(b)
              \/ Accept(b) \/ Fail(b) \/ Throw(b) \/ Respond(b) \/ Written(b)

\* A console is started with servers that exist, and for the first time.
LEMMA StartIsMain ==
  ASSUME TypeOK, Inside, NEW b \in Browsers, StartConsole(b)
  PROVE  console[b] = "none" /\ \E q \in SUBSET Slots : Main(b, q)
<1>1. asked[b] \in Requests[b] /\ at[b] = "request"
  BY DEF StartConsole, Has, TypeOK
<1>2. asked[b].query \in SUBSET Slots
  BY <1>1, RequestsAssumption DEF RequestType
<1> QED BY <1>1, <1>2 DEF StartConsole, Inside

\* Every step is one of the consoles or leaves them alone.
LEMMA StepsOfConsoles ==
  ASSUME TypeOK, Inside, Next
  PROVE  ConsoleStep \/ (UNCHANGED consoleVars /\ \E b \in Browsers : OwnStep(b))
<1>1. ASSUME NEW b \in Browsers, StartConsole(b) \/ EndConsole(b)
      PROVE  ConsoleStep
  BY <1>1, StartIsMain DEF EndConsole, ConsoleStep, Browsers
<1>2. ASSUME NEW s \in Sessions, Talk(s) \/ Crash(s) \/ Answer(s)
      PROVE  ConsoleStep
  BY <1>2 DEF Talk, Crash, Answer, ConsoleStep, Step
<1>3. ASSUME NEW b \in Browsers, OwnStep(b)
      PROVE  UNCHANGED consoleVars
  BY <1>3 DEF OwnStep, Ask, Leave, Show, Accept, Fail, Throw, Respond, Written
<1> QED BY <1>1, <1>2, <1>3 DEF Next, SystemRuns, Handle, OwnStep

\* The steps keep the types of what is not the console's.
LEMMA CgiTypesKept == ASSUME TypeOK, Next PROVE CgiTypes'
<1>1. /\ up \in BOOLEAN
      /\ at \in [Browsers -> {"none", "request", "console", "status", "over"}]
      /\ DOMAIN asked = Browsers /\ \A b \in Browsers : asked[b] \in Requests[b] \cup {None}
      /\ gone \in [Browsers -> BOOLEAN] /\ torn \in [Browsers -> BOOLEAN]
      /\ room \in [Browsers -> 0..Room]
  BY DEF TypeOK
<1>2. ASSUME NEW b \in Browsers, Ask(b)
      PROVE  CgiTypes'
  <2>1. PICK r \in Requests[b] : asked' = [asked EXCEPT ![b] = r]
    BY <1>2 DEF Ask
  <2> QED BY <1>1, <1>2, <2>1 DEF Ask, CgiTypes, webVars
<1>3. ASSUME NEW b \in Browsers, Leave(b) \/ Show(b)
      PROVE  CgiTypes'
  <2>1. Room \in 0..Room
    BY RoomAssumption
  <2>2. room' \in [Browsers -> 0..Room] /\ gone' \in [Browsers -> BOOLEAN]
    BY <1>1, <1>3, <2>1 DEF Leave, Show, webVars
  <2> QED BY <1>1, <1>3, <2>2 DEF Leave, Show, CgiTypes, webVars
<1>4. ASSUME NEW b \in Browsers, Accept(b) \/ Fail(b) \/ Respond(b) \/ StartConsole(b) \/ EndConsole(b)
      PROVE  CgiTypes'
  BY <1>1, <1>4 DEF Accept, Fail, Respond, StartConsole, EndConsole, Go, CgiTypes, webVars
<1>5. ASSUME Down, UNCHANGED <<asked, gone, webVars>>
      PROVE  CgiTypes'
  BY <1>1, <1>5 DEF Down, CgiTypes, webVars
<1>6. ASSUME NEW b \in Browsers, Throw(b)
      PROVE  CgiTypes'
  BY <1>5, <1>6 DEF Throw, webVars
<1>7. ASSUME NEW b \in Browsers, Written(b)
      PROVE  CgiTypes'
  BY <1>1, <1>5, <1>7 DEF Written, Go, CgiTypes, webVars
<1>8. ASSUME NEW s \in Sessions, Crash(s)
      PROVE  CgiTypes'
  BY <1>5, <1>8 DEF Crash, webVars
<1>9. ASSUME NEW s \in Sessions, Talk(s)
      PROVE  CgiTypes'
  <2>1. ASSUME NEW b \in Browsers, NEW n \in {1, 2}, WriteWeb(b, n)
        PROVE  room' \in [Browsers -> 0..Room] /\ torn' \in [Browsers -> BOOLEAN]
    BY <1>1, <2>1, RoomAssumption DEF WriteWeb
  <2>2. UNCHANGED <<up, at, asked, gone>> /\ s[1] \in Browsers
    BY <1>9 DEF Talk, Sessions, Browsers
  <2>3. UNCHANGED webVars \/ \E n \in {1, 2} : WriteWeb(s[1], n)
    BY <1>9 DEF Talk
  <2>4. room' \in [Browsers -> 0..Room] /\ torn' \in [Browsers -> BOOLEAN]
    BY <1>1, <2>1, <2>2, <2>3 DEF webVars
  <2> QED BY <1>1, <2>2, <2>4 DEF CgiTypes
<1>10. ASSUME NEW s \in Sessions, Answer(s)
       PROVE  CgiTypes'
  BY <1>1, <1>10 DEF Answer, CgiTypes, cgiVars, webVars
<1> QED BY <1>2, <1>3, <1>4, <1>6, <1>7, <1>8, <1>9, <1>10 DEF Next, SystemRuns, Handle

\* The steps keep the sessions inside their handler.
LEMMA InsideKept == ASSUME TypeOK, Inside, Next PROVE Inside'
<1>1. /\ at \in [Browsers -> {"none", "request", "console", "status", "over"}]
      /\ console \in [Browsers -> {"none", "runs", "over", "killed", "crashed"}]
      /\ state \in [Sessions -> {"none", "connect", "reply", "read", "over"}]
  BY DEF TypeOK, ConsoleTypeOK, Browsers
<1>2. \A b \in Browsers, t \in Slots : /\ <<b, t>> \in Sessions
                                       /\ <<b, t>>[1] = b /\ <<b, t>>[2] = t
  BY DEF Sessions, Browsers
<1>3. ASSUME NEW b \in Browsers, OwnStep(b), UNCHANGED consoleVars
      PROVE  Inside'
  <2>1. console' = console /\ state' = state
    BY <1>3 DEF consoleVars
  <2>2. ASSUME NEW c \in Browsers
        PROVE  /\ at'[c] \in {"none", "request"} => at[c] \in {"none", "request"}
               /\ up' => up /\ (at[c] = "console" => at'[c] = "console")
    BY <1>1, <1>3 DEF OwnStep, Ask, Leave, Show, Accept, Fail, Throw, Respond, Written, Go, Has, Loops, Down
  <2> QED BY <2>1, <2>2 DEF Inside
<1>4. ASSUME NEW b \in Browsers, StartConsole(b)
      PROVE  Inside'
  <2>1. at[b] = "request" /\ at' = [at EXCEPT ![b] = "console"] /\ up' = up
    BY <1>4 DEF StartConsole, Go
  <2>2. /\ \A c \in Browsers : c # b => console'[c] = console[c]
        /\ \A c \in Browsers, t \in Slots : c # b => state'[<<c, t>>] = state[<<c, t>>]
    BY <1>1, <1>2, <1>4 DEF StartConsole, Main
  <2> QED BY <1>1, <2>1, <2>2 DEF Inside
<1>5. ASSUME NEW b \in Browsers, EndConsole(b)
      PROVE  Inside'
  <2>1. at' = [at EXCEPT ![b] = "status"] /\ UNCHANGED <<up, state>>
    BY <1>5 DEF EndConsole, Returns, Go
  <2>2. /\ \A t \in Slots : state[<<b, t>>] \in {"none", "over"}
        /\ \A c \in Browsers : c # b => console'[c] = console[c]
    BY <1>1, <1>5 DEF EndConsole, Returns
  <2> QED BY <1>1, <2>1, <2>2 DEF Inside
<1>6. ASSUME NEW s \in Sessions, Talk(s) \/ Answer(s)
      PROVE  Inside'
  <2>1. UNCHANGED <<up, at, console>> /\ s[1] \in Browsers
    BY <1>6 DEF Talk, Answer, cgiVars, Connected, Fails, ReadShell, Sessions, Browsers, Remote,
                ProxyReplies, ShellPrompts, ShellAnswers, Sends
  <2>2. ASSUME NEW b \in Browsers, NEW t \in Slots, up, state'[<<b, t>>] \in {"connect", "reply", "read"}
        PROVE  at[b] = "console"
    <3>1. CASE Talk(s) /\ s = <<b, t>>
      BY <1>2, <3>1 DEF Talk
    <3>2. CASE Talk(s) /\ s # <<b, t>>
      <4>1. state'[<<b, t>>] = state[<<b, t>>]
        BY <1>1, <1>2, <3>2 DEF Talk, Connected, Fails, ReadShell
      <4> QED BY <2>2, <4>1 DEF Inside
    <3>3. CASE Answer(s)
      <4>1. state' = state
        BY <3>3 DEF Answer, Remote, ProxyReplies, ShellPrompts, ShellAnswers, Sends
      <4> QED BY <2>2, <4>1 DEF Inside
    <3> QED BY <1>6, <3>1, <3>2, <3>3
  <2> QED BY <2>1, <2>2 DEF Inside
<1>7. ASSUME NEW s \in Sessions, Crash(s)
      PROVE  Inside'
  <2>1. s[1] \in Browsers /\ at[s[1]] = "console" /\ Down
    BY <1>7 DEF Crash, Sessions, Browsers
  <2>2. \A c \in Browsers : c # s[1] => console'[c] = console[c]
    BY <1>1, <1>7 DEF Crash, Crashes
  <2> QED BY <1>1, <2>1, <2>2 DEF Inside, Down
<1>8. \/ \E b \in Browsers : OwnStep(b) \/ StartConsole(b) \/ EndConsole(b)
      \/ \E s \in Sessions : Talk(s) \/ Crash(s) \/ Answer(s)
  BY DEF Next, SystemRuns, Handle, OwnStep
<1>9. ASSUME NEW b \in Browsers, OwnStep(b)
      PROVE  UNCHANGED consoleVars
  BY <1>9 DEF OwnStep, Ask, Leave, Show, Accept, Fail, Throw, Respond, Written
<1> QED BY <1>3, <1>4, <1>5, <1>6, <1>7, <1>8, <1>9
-----------------------------------------------------------------------------
LEMMA InvariantHolds == Spec => [](TypeOK /\ Inside)
<1>1. Init => TypeOK /\ Inside
  <2> SUFFICES ASSUME Init PROVE TypeOK /\ Inside
    OBVIOUS
  <2>1. ConsoleTypeOK
    BY ConsoleInitTypes DEF Init
  <2>2. 0 \in Nat /\ Room \in 0..Room
    BY RoomAssumption
  <2> QED BY <2>1, <2>2 DEF Init, TypeOK, Inside, ConsoleInit, All, Sessions, Browsers
<1>2. TypeOK /\ Inside /\ [Next]_vars => TypeOK' /\ Inside'
  <2> SUFFICES ASSUME TypeOK, Inside, [Next]_vars PROVE TypeOK' /\ Inside'
    OBVIOUS
  <2>1. CASE Next
    <3>1. CgiTypes' /\ Inside'
      BY <2>1, CgiTypesKept, InsideKept
    <3>2. ConsoleTypeOK'
      <4>1. CASE ConsoleStep
        BY <4>1, ConsoleTypes DEF TypeOK
      <4>2. CASE UNCHANGED consoleVars
        BY <4>2 DEF TypeOK, ConsoleTypeOK, consoleVars, obsVars
      <4> QED BY <2>1, <4>1, <4>2, StepsOfConsoles
    <3> QED BY <3>1, <3>2 DEF CgiTypes, TypeOK
  <2>2. CASE UNCHANGED vars
    BY <2>2 DEF vars, cgiVars, webVars, consoleVars, obsVars, TypeOK, ConsoleTypeOK, Inside
  <2> QED BY <2>1, <2>2
<1> QED BY <1>1, <1>2, PTL DEF Spec

\* Every variable of the server and of the consoles inside it keeps its type.
THEOREM TypeCorrect == Spec => []TypeOK
  BY InvariantHolds, PTL

\* The raw pointer that a console's session has to the browser's socket is never
\* used after the browser's session is destroyed.
THEOREM SocketOutlivesSessions == Spec => []SocketAlive
<1>1. Inside => SocketAlive
  BY DEF Inside, SocketAlive
<1> QED BY <1>1, InvariantHolds, PTL
-----------------------------------------------------------------------------
\* If no answer looks like a prompt, every session is in order in every state.
LEMMA DialoguesHold ==
  ASSUME Plain PROVE Spec => [](TypeOK /\ Inside /\ \A s \in Sessions : SessionInv(s))
<1> DEFINE Ordered == \A s \in Sessions : SessionInv(s)
<1>1. Init => Ordered
  BY SessionInit DEF Init
<1>2. TypeOK /\ Inside /\ Ordered /\ [Next]_vars => Ordered'
  <2> SUFFICES ASSUME TypeOK, Inside, Ordered, [Next]_vars, NEW s \in Sessions
               PROVE  SessionInv(s)'
    OBVIOUS
  <2>1. CASE ConsoleStep
    BY <2>1, SessionStep DEF TypeOK
  <2>2. CASE UNCHANGED consoleVars
    BY <2>2 DEF consoleVars, SessionInv
  <2> QED BY <2>1, <2>2, StepsOfConsoles DEF vars
<1> HIDE DEF Ordered
<1>3. Spec => []Ordered
  BY <1>1, <1>2, InvariantHolds, PTL DEF Spec
<1> QED BY <1>3, InvariantHolds, PTL DEF Ordered

\* If no answer looks like a prompt, a session inside the server that has used up
\* its file has shown all that the shell wrote.
THEOREM PagesAreComplete == ASSUME Plain PROVE Spec => []PageComplete
<1>1. (\A s \in Sessions : SessionInv(s)) => PageComplete
  BY QuietAtTheEnd
<1> QED BY <1>1, DialoguesHold, PTL

\* If no answer looks like a prompt, a session inside the server sends a line only
\* when the whole answer to the one before is on the page.
THEOREM LinesOneAtATime == ASSUME Plain PROVE Spec => OneAtATime
<1> DEFINE A == \A s \in Sessions : line'[s] > line[s] => answered[s] = line[s] /\ stream'[s] = <<>>
           Ordered == \A s \in Sessions : SessionInv(s)
<1>1. TypeOK /\ Inside /\ Ordered /\ [Next]_vars => [A]_consoleVars
  <2> SUFFICES ASSUME TypeOK, Inside, Ordered, [Next]_vars
               PROVE  A \/ UNCHANGED consoleVars
    OBVIOUS
  <2>1. CASE ConsoleStep
    BY <2>1, SessionStep DEF TypeOK
  <2> QED BY <2>1, StepsOfConsoles DEF vars
<1> HIDE DEF A, Ordered
<1>2. Spec => [](TypeOK /\ Inside /\ Ordered)
  BY DialoguesHold DEF Ordered
<1>3. Spec => [][A]_consoleVars
  BY <1>1, <1>2, PTL DEF Spec
<1> QED BY <1>3 DEF OneAtATime, A
=============================================================================
