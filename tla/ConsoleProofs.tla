--------------------------- MODULE ConsoleProofs ---------------------------
(***************************************************************************)
(* Lemmas about the sessions of a console, for the two servers that run    *)
(* consoles: any files, any size of the buffer, with a proxy or without.   *)
(***************************************************************************)
EXTENDS Console, SequenceTheorems, TLAPS

Chars == Unit \cup {"90", "91"}

\* No answer looks like a prompt.
Plain == \A d \in Outputs : ~TimeToSend(d)

\* The prompt is at place i of d; nowhere in d; at most at its end.
PromptAt(d, i) == d[i] = "%" /\ d[i + 1] = " "
Clear(d)       == \A i \in 1..(Len(d) - 1) : ~PromptAt(d, i)
AtEndOnly(d)   == \A i \in 1..(Len(d) - 2) : ~PromptAt(d, i)

\* A step of the consoles and of those they talk to.
ConsoleStep ==
  \/ \E p \in Pages : \E q \in SUBSET Slots : console[p] = "none" /\ Main(p, q)
  \/ \E p \in Pages : Killed(p) \/ Returns(p)
  \/ \E s \in Sessions : Step(s) \/ Crashes(s) \/ Remote(s)

\* The prompt has two elements.
LEMMA PromptType ==
  Prompt \in Seq(Chars) /\ Len(Prompt) = 2 /\ Prompt[1] = "%" /\ Prompt[2] = " "
<1>1. "%" \in Chars /\ " " \in Chars
  BY DEF Chars, Unit
<1> DEFINE a == "%"
           b == " "
<1> HIDE DEF a, b
<1>2. a \in Chars /\ b \in Chars
  BY <1>1 DEF a, b
<1>3. <<a, b>> \in Seq(Chars)
  BY <1>2
<1>4. Len(<<a, b>>) = 2 /\ <<a, b>>[1] = a /\ <<a, b>>[2] = b
  OBVIOUS
<1> QED BY <1>3, <1>4 DEF a, b, Prompt

\* Looking for the prompt is looking at two elements.
LEMMA PromptIsPair ==
  ASSUME NEW d \in Seq(Chars), NEW i \in 1..(Len(d) - 1)
  PROVE  SubSeq(d, i, i + 1) = Prompt <=> PromptAt(d, i)
<1>1. Len(d) \in Nat /\ \A j \in 1..Len(d) : d[j] \in Chars
  BY LenProperties, ElementOfSeq
<1>2. \A j \in i..(i + 1) : d[j] \in Chars
  BY <1>1
<1>3. i \in Int /\ i + 1 \in Int /\ i <= i + 1 /\ (i + 1) - i + 1 = 2
  BY <1>1
<1> DEFINE e == i + 1
           t == SubSeq(d, i, e)
<1> HIDE DEF e
<1>4. /\ t \in Seq(Chars) /\ Len(t) = (IF i <= e THEN e - i + 1 ELSE 0)
      /\ \A j \in 1..(e - i + 1) : t[j] = d[i + j - 1]
  BY <1>2, <1>3, SubSeqProperties DEF e
<1> HIDE DEF t
<1>5. Len(t) = 2 /\ t[1] = d[i] /\ t[2] = d[i + 1]
  BY <1>1, <1>3, <1>4 DEF e
<1>6. Prompt \in Seq(Chars) /\ Len(Prompt) = 2 /\ Prompt[1] = "%" /\ Prompt[2] = " "
  BY PromptType
<1>7. ASSUME PromptAt(d, i) PROVE t = Prompt
  <2>1. \A j \in 1..Len(t) : t[j] = Prompt[j]
    <3>1. \A j \in 1..Len(t) : j = 1 \/ j = 2
      BY <1>5
    <3>2. t[1] = Prompt[1] /\ t[2] = Prompt[2]
      BY <1>5, <1>6, <1>7 DEF PromptAt
    <3> QED BY <3>1, <3>2
  <2> QED BY <1>4, <1>5, <1>6, <2>1, SeqEqual
<1>8. ASSUME t = Prompt PROVE PromptAt(d, i)
  BY <1>5, <1>6, <1>8 DEF PromptAt
<1> QED BY <1>7, <1>8 DEF t, e

\* The prompt is seen in d where it is.
LEMMA SeenIsThere ==
  ASSUME NEW d \in Seq(Chars) PROVE TimeToSend(d) <=> ~Clear(d)
  BY PromptIsPair DEF TimeToSend, Clear

\* A read takes a first part of the stream and leaves the rest.
LEMMA Reading ==
  ASSUME ConsoleTypeOK, NEW s \in Sessions
  PROVE  /\ Data(s) \in Seq(Chars) /\ Rest(s) \in Seq(Chars)
         /\ Len(Data(s)) \in 0..Len(stream[s]) /\ Len(Rest(s)) = Len(stream[s]) - Len(Data(s))
         /\ \A i \in 1..Len(Data(s)) : Data(s)[i] = stream[s][i]
         /\ \A i \in 1..Len(Rest(s)) : Rest(s)[i] = stream[s][Len(Data(s)) + i]
<1> DEFINE d == stream[s]
           n == Min(Len(d), MaxLength)
           e == SubSeq(d, 1, n)
           k == Len(e) + 1
           l == Len(d)
           r == SubSeq(d, k, l)
<1>1. d \in Seq(Chars) /\ l \in Nat /\ MaxLength \in Nat
  BY LengthAssumption, LenProperties DEF ConsoleTypeOK, Chars
<1>2. n \in 0..l
  BY <1>1 DEF Min
<1>3. \A i \in 1..l : d[i] \in Chars
  BY <1>1, ElementOfSeq
<1> HIDE DEF n, d
<1>4. (\A i \in 1..n : d[i] \in Chars) /\ 1 \in Int /\ n \in Int
  BY <1>1, <1>2, <1>3
<1>5. /\ e \in Seq(Chars) /\ Len(e) = (IF 1 <= n THEN n - 1 + 1 ELSE 0)
      /\ \A i \in 1..(n - 1 + 1) : e[i] = d[1 + i - 1]
  BY <1>4, SubSeqProperties
<1> HIDE DEF e
<1>6. Len(e) = n /\ \A i \in 1..n : e[i] = d[i]
  BY <1>1, <1>2, <1>5
<1>7. (\A i \in k..l : d[i] \in Chars) /\ k \in Int /\ l \in Int
  BY <1>1, <1>2, <1>3, <1>6
<1> HIDE DEF k, l
<1>8. /\ r \in Seq(Chars) /\ Len(r) = (IF k <= l THEN l - k + 1 ELSE 0)
      /\ \A i \in 1..(l - k + 1) : r[i] = d[k + i - 1]
  BY <1>7, SubSeqProperties
<1> HIDE DEF r
<1>9. Len(r) = l - n /\ \A i \in 1..Len(r) : r[i] = d[n + i]
  BY <1>1, <1>2, <1>6, <1>8 DEF k
<1>10. Data(s) = e /\ Rest(s) = r
  BY DEF Data, Rest, r, e, n, d, k, l
<1> QED BY <1>2, <1>5, <1>6, <1>8, <1>9, <1>10 DEF d, l

\* If a read of part k of the stream sees the prompt, and the prompt is at most at
\* its end, it has read all.
LEMMA SeenAtEnd ==
  ASSUME ConsoleTypeOK, NEW s \in Sessions, AtEndOnly(stream[s]), TimeToSend(Data(s))
  PROVE  Rest(s) = <<>> /\ stream[s] # <<>> /\ ~Clear(stream[s])
<1>1. stream[s] \in Seq(Chars) /\ Len(stream[s]) \in Nat
  BY LenProperties DEF ConsoleTypeOK, Chars
<1>2. ~Clear(Data(s)) /\ Data(s) \in Seq(Chars) /\ Rest(s) \in Seq(Chars)
  BY SeenIsThere, Reading
<1>3. /\ Len(Data(s)) \in 0..Len(stream[s]) /\ Len(Rest(s)) = Len(stream[s]) - Len(Data(s))
      /\ \A i \in 1..Len(Data(s)) : Data(s)[i] = stream[s][i]
  BY Reading
<1>4. PICK i \in 1..(Len(Data(s)) - 1) : PromptAt(Data(s), i)
  BY <1>2 DEF Clear
<1>5. i \in 1..(Len(stream[s]) - 1) /\ PromptAt(stream[s], i)
  <2>1. i \in 1..Len(Data(s)) /\ i + 1 \in 1..Len(Data(s)) /\ i \in 1..(Len(stream[s]) - 1)
    BY <1>1, <1>3, <1>4
  <2> QED BY <1>3, <1>4, <2>1 DEF PromptAt
<1>6. i \notin 1..(Len(stream[s]) - 2)
  BY <1>5 DEF AtEndOnly
<1>7. Len(Rest(s)) = 0
  BY <1>1, <1>3, <1>4, <1>5, <1>6
<1>8. Rest(s) = <<>>
  BY <1>2, <1>7, EmptySeq
<1>9. stream[s] # <<>>
  BY <1>5
<1> QED BY <1>5, <1>8, <1>9 DEF Clear

\* What is left of the stream has the prompt no more often.
LEMMA RestClear ==
  ASSUME ConsoleTypeOK, NEW s \in Sessions
  PROVE  /\ Clear(stream[s]) => Clear(Rest(s))
         /\ AtEndOnly(stream[s]) => AtEndOnly(Rest(s))
<1> DEFINE d == stream[s]
           n == Len(Data(s))
           r == Rest(s)
           l == Len(d)
           m == Len(r)
<1>1. l \in Nat
  BY LenProperties DEF ConsoleTypeOK
<1>2. n \in 0..l /\ m = l - n /\ \A i \in 1..m : r[i] = d[n + i]
  BY Reading
<1> HIDE DEF d, n, r, m, l
<1>3. ASSUME NEW i \in 1..(m - 1), PromptAt(r, i)
      PROVE  n + i \in 1..(l - 1) /\ PromptAt(d, n + i)
  <2>1. i \in 1..m /\ i + 1 \in 1..m
    BY <1>1, <1>2
  <2>2. r[i] = d[n + i] /\ r[i + 1] = d[n + (i + 1)] /\ n + (i + 1) = (n + i) + 1
    BY <1>1, <1>2, <2>1
  <2>3. n + i \in 1..(l - 1)
    BY <1>1, <1>2
  <2> QED BY <1>3, <2>2, <2>3 DEF PromptAt
<1>4. Clear(d) => Clear(r)
  BY <1>3 DEF Clear, m, l
<1>5. ASSUME NEW i \in 1..(m - 2), PromptAt(r, i)
      PROVE  n + i \in 1..(l - 2) /\ PromptAt(d, n + i)
  <2>1. i \in 1..(m - 1) /\ n + i \in 1..(l - 2)
    BY <1>1, <1>2
  <2> QED BY <1>3, <1>5, <2>1
<1>6. AtEndOnly(d) => AtEndOnly(r)
  BY <1>5 DEF AtEndOnly, m, l
<1> QED BY <1>4, <1>6 DEF d, r

\* Where there is none, adding the prompt puts one at the end.
LEMMA PromptAdded ==
  ASSUME NEW d \in Seq(Chars), Clear(d) PROVE AtEndOnly(d \o Prompt)
<1> DEFINE l == Len(d)
           t == d \o Prompt
<1>1. "%" \in Chars /\ " " \in Chars /\ "%" # " "
  BY DEF Chars, Unit
<1>2. Prompt \in Seq(Chars) /\ Len(Prompt) = 2 /\ Prompt[1] = "%"
  BY PromptType
<1>3. l \in Nat
  BY LenProperties
<1>4. /\ Len(t) = l + Len(Prompt)
      /\ \A i \in 1..(l + Len(Prompt)) : t[i] = IF i <= l THEN d[i] ELSE Prompt[i - l]
  BY <1>2, ConcatProperties
<1> HIDE DEF l, t
<1>5. Len(t) - 2 = l /\ \A i \in 1..(l + 2) : t[i] = IF i <= l THEN d[i] ELSE Prompt[i - l]
  BY <1>2, <1>3, <1>4
<1>6. ASSUME NEW i \in 1..l, PromptAt(t, i)
      PROVE  FALSE
  <2>1. CASE i < l
    <3>1. t[i] = d[i] /\ t[i + 1] = d[i + 1] /\ i \in 1..(l - 1)
      BY <1>3, <1>5, <2>1
    <3> QED BY <1>6, <3>1 DEF PromptAt, Clear, l
  <2>2. CASE i = l
    <3>1. t[i + 1] = Prompt[(l + 1) - l] /\ (l + 1) - l = 1
      BY <1>3, <1>5, <2>2
    <3>2. t[i + 1] = "%"
      BY <1>2, <3>1
    <3> QED BY <1>1, <1>6, <3>2 DEF PromptAt
  <2> QED BY <1>3, <2>1, <2>2
<1> QED BY <1>5, <1>6 DEF AtEndOnly, t
-----------------------------------------------------------------------------
\* At the start the consoles are typed.
LEMMA ConsoleInitTypes == ConsoleInit => ConsoleTypeOK
<1> SUFFICES ASSUME ConsoleInit PROVE ConsoleTypeOK
  OBVIOUS
<1>1. \A s \in Sessions : line[s] = 0 /\ answered[s] = 0 /\ FileLines[s[2]] \in Nat
  BY FilesAssumption DEF ConsoleInit, All, Sessions
<1>2. <<>> \in Seq(Unit \cup {"90", "91"})
  OBVIOUS
<1>3. \A s \in Sessions : answered[s] <= line[s] /\ line[s] <= FileLines[s[2]]
  BY <1>1
<1> QED BY <1>2, <1>3 DEF ConsoleInit, ConsoleTypeOK, All

\* The steps of the consoles keep their types; a session never takes more lines
\* than its file has, nor a shell answers more than it was sent.
LEMMA ConsoleTypes == ASSUME ConsoleTypeOK, ConsoleStep PROVE ConsoleTypeOK'
<1>1. \A s \in Sessions : FileLines[s[2]] \in Nat /\ s[1] \in Pages
  BY FilesAssumption DEF Sessions
<1>2. ASSUME NEW p \in Pages, NEW q \in SUBSET Slots, Main(p, q)
      PROVE  ConsoleTypeOK'
  BY <1>2 DEF Main, ConsoleTypeOK, obsVars
<1>3. ASSUME NEW p \in Pages, Dies(p), console' \in [Pages -> {"none", "runs", "over", "killed", "crashed"}],
             overrun' \in [Sessions -> BOOLEAN]
      PROVE  ConsoleTypeOK'
  <2>1. <<>> \in Seq(Unit \cup {"90", "91"}) /\ 0 \in Nat
    OBVIOUS
  <2>2. /\ state' \in [Sessions -> {"none", "connect", "reply", "read", "over"}]
        /\ remote' \in [Sessions -> {"none", "reply", "prompt", "line", "closed"}]
        /\ missed' \in [Sessions -> BOOLEAN]
    BY <1>3 DEF Dies, ConsoleTypeOK
  <2>3. stream' \in [Sessions -> Seq(Unit \cup {"90", "91"})]
    BY <1>3, <2>1 DEF Dies, ConsoleTypeOK
  <2>4. line' \in [Sessions -> Nat] /\ answered' \in [Sessions -> Nat]
    BY <1>3, <2>1 DEF Dies, ConsoleTypeOK
  <2>5. ASSUME NEW s \in Sessions
        PROVE  answered'[s] <= line'[s] /\ line'[s] <= FileLines[s[2]]
    <3>1. \/ answered'[s] = 0 /\ line'[s] = 0
          \/ answered'[s] = answered[s] /\ line'[s] = line[s]
      BY <1>3 DEF Dies
    <3> QED BY <1>1, <3>1 DEF ConsoleTypeOK
  <2> QED BY <1>3, <2>2, <2>3, <2>4, <2>5 DEF ConsoleTypeOK
<1>4. ASSUME NEW p \in Pages, Killed(p)
      PROVE  ConsoleTypeOK'
  BY <1>3, <1>4 DEF Killed, ConsoleTypeOK
<1>5. ASSUME NEW p \in Pages, Returns(p)
      PROVE  ConsoleTypeOK'
  BY <1>5 DEF Returns, ConsoleTypeOK, obsVars
<1>6. ASSUME NEW s \in Sessions, Crashes(s)
      PROVE  ConsoleTypeOK'
  BY <1>1, <1>3, <1>6 DEF Crashes, ConsoleTypeOK
<1>7. ASSUME NEW s \in Sessions, Connected(s) \/ Fails(s)
      PROVE  ConsoleTypeOK'
  BY <1>7 DEF Connected, Fails, ConsoleTypeOK, obsVars
<1>8. ASSUME NEW s \in Sessions, ReadReply(s)
      PROVE  ConsoleTypeOK'
  <2>1. Rest(s) \in Seq(Unit \cup {"90", "91"}) /\ (Len(Data(s)) > 1) \in BOOLEAN
    BY Reading DEF Chars
  <2> QED BY <1>8, <2>1 DEF ReadReply, ConsoleTypeOK
<1>9. ASSUME NEW s \in Sessions, ReadShell(s)
      PROVE  ConsoleTypeOK'
  <2>1. Rest(s) \in Seq(Unit \cup {"90", "91"})
    BY Reading DEF Chars
  <2>2. stream' \in [Sessions -> Seq(Unit \cup {"90", "91"})]
    BY <1>9, <2>1 DEF ReadShell, ConsoleTypeOK
  <2>3. UNCHANGED <<console, remote, answered>>
    BY <1>9 DEF ReadShell
  <2>4. missed' \in [Sessions -> BOOLEAN] /\ overrun' \in [Sessions -> BOOLEAN]
    BY <1>9 DEF ReadShell, ConsoleTypeOK
  <2>5. state' \in [Sessions -> {"none", "connect", "reply", "read", "over"}]
    BY <1>9 DEF ReadShell, ConsoleTypeOK
  <2>6. line' = line \/ (line[s] < FileLines[s[2]] /\ line' = [line EXCEPT ![s] = line[s] + 1])
    BY <1>9 DEF ReadShell, HasLine
  <2>7. line' \in [Sessions -> Nat] /\ \A t \in Sessions : line[t] <= line'[t] /\ line'[t] <= FileLines[t[2]]
    <3>1. line \in [Sessions -> Nat] /\ \A t \in Sessions : line[t] <= FileLines[t[2]]
      BY DEF ConsoleTypeOK
    <3>2. ASSUME line[s] < FileLines[s[2]], line' = [line EXCEPT ![s] = line[s] + 1], NEW t \in Sessions
          PROVE  line'[t] \in Nat /\ line[t] <= line'[t] /\ line'[t] <= FileLines[t[2]]
      <4>1. CASE t = s
        BY <1>1, <3>1, <3>2, <4>1
      <4>2. CASE t # s
        <5>1. line'[t] = line[t] /\ line[t] \in Nat
          BY <3>1, <3>2, <4>2
        <5> QED BY <3>1, <5>1
      <4> QED BY <4>1, <4>2
    <3>3. line' \in [Sessions -> Nat]
      BY <2>6, <3>1
    <3>4. \A t \in Sessions : line[t] \in Nat /\ line[t] <= line[t] /\ line[t] <= FileLines[t[2]]
      BY <3>1
    <3> QED BY <2>6, <3>2, <3>3, <3>4
  <2>8. \A t \in Sessions : answered[t] <= line'[t]
    BY <2>7 DEF ConsoleTypeOK
  <2> QED BY <2>2, <2>3, <2>4, <2>5, <2>7, <2>8 DEF ConsoleTypeOK
<1>10. ASSUME NEW s \in Sessions, Remote(s)
       PROVE  ConsoleTypeOK'
  <2> DEFINE C == Unit \cup {"90", "91"}
  <2>1. \A d \in Seq(C) : stream[s] \o d \in Seq(C)
    BY ConcatProperties DEF ConsoleTypeOK
  <2>2. /\ <<"90">> \in Seq(C) /\ <<"91">> \in Seq(C) /\ <<>> \in Seq(C) /\ Prompt \in Seq(C)
        /\ \A d \in Outputs : d \in Seq(C)
    <3>1. "90" \in C /\ "91" \in C /\ Unit \subseteq C
      OBVIOUS
    <3>2. \A d \in Outputs : d \in Seq(C)
      BY <3>1, OutputsAssumption, SeqMonotonic
    <3>3. \A a \in C : <<a>> \in Seq(C)
      OBVIOUS
    <3> HIDE DEF C
    <3>4. <<"90">> \in Seq(C) /\ <<"91">> \in Seq(C)
      BY <3>1, <3>3
    <3>5. Prompt \in Seq(C)
      BY PromptType DEF C, Chars
    <3> QED BY <3>2, <3>4, <3>5
  <2> HIDE DEF C
  <2>3. ASSUME NEW d \in Seq(C), Sends(s, d)
        PROVE  /\ stream' \in [Sessions -> Seq(C)]
               /\ UNCHANGED <<console, state, line, missed, overrun>>
    BY <2>1, <2>3 DEF Sends, ConsoleTypeOK, C, obsVars
  <2>4. \E d \in Seq(C) : Sends(s, d)
    BY <1>10, <2>2 DEF Remote, ProxyReplies, ShellPrompts, ShellAnswers
  <2>5. stream' \in [Sessions -> Seq(C)] /\ UNCHANGED <<console, state, line, missed, overrun>>
    BY <2>3, <2>4
  <2>6. remote' \in [Sessions -> {"none", "reply", "prompt", "line", "closed"}]
    BY <1>10 DEF Remote, ProxyReplies, ShellPrompts, ShellAnswers, Then, ConsoleTypeOK
  <2>7. answered' = answered \/ (answered[s] < line[s] /\ answered' = [answered EXCEPT ![s] = answered[s] + 1])
    BY <1>10 DEF Remote, ProxyReplies, ShellPrompts, ShellAnswers
  <2>8. answered' \in [Sessions -> Nat] /\ \A t \in Sessions : answered'[t] <= line[t]
    <3>1. /\ answered \in [Sessions -> Nat] /\ line \in [Sessions -> Nat]
          /\ \A t \in Sessions : answered[t] <= line[t]
      BY DEF ConsoleTypeOK
    <3>2. ASSUME answered[s] < line[s], answered' = [answered EXCEPT ![s] = answered[s] + 1],
                 NEW t \in Sessions
          PROVE  answered'[t] <= line[t]
      <4>1. CASE t = s
        BY <3>1, <3>2, <4>1
      <4>2. CASE t # s
        <5>1. answered'[t] = answered[t]
          BY <3>1, <3>2, <4>2
        <5> QED BY <3>1, <5>1
      <4> QED BY <4>1, <4>2
    <3>3. answered' \in [Sessions -> Nat]
      BY <2>7, <3>1
    <3> QED BY <2>7, <3>1, <3>2, <3>3
  <2> QED BY <2>5, <2>6, <2>8 DEF ConsoleTypeOK, C
<1> QED BY <1>2, <1>4, <1>5, <1>6, <1>7, <1>8, <1>9, <1>10 DEF ConsoleStep, Step
-----------------------------------------------------------------------------
(* The dialogue of a session and its shell.                                *)

\* A session that is in state st, has sent l lines and has the stream d to read;
\* the other side is at r and has answered a lines.  There is at most one prompt in
\* the stream, at its end, and then the shell waits for a line; when a line is on
\* its way the stream is empty; a session ends when the shell is quiet.
Dialogue(st, l, d, r, a) ==
  /\ st \in {"none", "connect"} => d = <<>> /\ r = "none"
  /\ st \in {"none", "connect", "reply"} => l = 0
  /\ r = "reply" => d = <<>>
  /\ r # "line" => Clear(d)
  /\ AtEndOnly(d)
  /\ a # l => a + 1 = l /\ r = "line" /\ d = <<>>
  /\ st = "over" /\ l > 0 => d = <<>> /\ a = l /\ r \in {"line", "closed"}

SessionInv(s) == /\ Dialogue(state[s], line[s], stream[s], remote[s], answered[s])
                 /\ console[s[1]] = "none" => state[s] = "none"

\* A stream of at most one element has no prompt.
LEMMA ShortClear ==
  ASSUME NEW d, Len(d) \in {0, 1} PROVE Clear(d) /\ AtEndOnly(d)
<1>1. ASSUME NEW l \in {0, 1} PROVE (\A i \in 1..(l - 1) : FALSE) /\ (\A i \in 1..(l - 2) : FALSE)
  OBVIOUS
<1>2. (\A i \in 1..(Len(d) - 1) : FALSE) /\ (\A i \in 1..(Len(d) - 2) : FALSE)
  BY <1>1
<1> QED BY <1>2 DEF Clear, AtEndOnly

\* A session that has done nothing is in order.
LEMMA Silent ==
  ASSUME NEW st \in {"none", "connect"} PROVE Dialogue(st, 0, <<>>, "none", 0)
<1>1. Len(<<>>) = 0
  OBVIOUS
<1> QED BY <1>1, ShortClear DEF Dialogue

\* A step that changes nothing of session t.
LEMMA SessionKept ==
  ASSUME NEW t \in Sessions, SessionInv(t),
         state'[t] = state[t], line'[t] = line[t], stream'[t] = stream[t],
         remote'[t] = remote[t], answered'[t] = answered[t],
         console'[t[1]] = "none" => console[t[1]] = "none"
  PROVE  SessionInv(t)'
  BY DEF SessionInv

\* ReadShell, the read and what it sends.
LEMMA ReadDialogue ==
  ASSUME ConsoleTypeOK, NEW s \in Sessions, SessionInv(s), ReadShell(s)
  PROVE  /\ SessionInv(s)'
         /\ line'[s] > line[s] => answered[s] = line[s] /\ stream'[s] = <<>>
<1>1. /\ state[s] = "read" /\ stream[s] # <<>> /\ stream'[s] = Rest(s)
      /\ remote'[s] = remote[s] /\ answered'[s] = answered[s] /\ console' = console
  BY DEF ReadShell, ConsoleTypeOK
<1>2. line[s] \in Nat /\ answered[s] \in Nat
  BY DEF ConsoleTypeOK
<1>3. Dialogue("read", line[s], stream[s], remote[s], answered[s])
  BY <1>1 DEF SessionInv
<1>4. /\ answered[s] = line[s] /\ AtEndOnly(stream[s]) /\ remote[s] # "reply"
      /\ (remote[s] # "line" => Clear(stream[s]))
  BY <1>1, <1>3 DEF Dialogue
<1>5. AtEndOnly(Rest(s)) /\ (remote[s] # "line" => Clear(Rest(s)))
  BY <1>4, RestClear
<1>6. console'[s[1]] # "none"
  BY <1>1 DEF SessionInv
<1>7. CASE ~TimeToSend(Data(s))
  <2>1. state'[s] = "read" /\ line'[s] = line[s]
    BY <1>1, <1>7 DEF ReadShell
  <2>2. Dialogue("read", line[s], Rest(s), remote[s], answered[s])
    BY <1>4, <1>5 DEF Dialogue
  <2> QED BY <1>1, <1>2, <1>6, <2>1, <2>2 DEF SessionInv
<1>8. CASE TimeToSend(Data(s))
  <2>1. Rest(s) = <<>> /\ remote[s] = "line"
    BY <1>4, <1>8, SeenAtEnd
  <2>2. CASE line' = [line EXCEPT ![s] = @ + 1] /\ state' = [state EXCEPT ![s] = "read"]
    <3>1. line'[s] = line[s] + 1 /\ state'[s] = "read"
      BY <2>2 DEF ConsoleTypeOK
    <3>2. Dialogue("read", line[s] + 1, Rest(s), remote[s], answered[s])
      BY <1>2, <1>4, <1>5, <2>1 DEF Dialogue
    <3> QED BY <1>1, <1>4, <1>6, <2>1, <3>1, <3>2 DEF SessionInv
  <2>3. CASE line' = line /\ state' = [state EXCEPT ![s] = "over"]
    <3>1. line'[s] = line[s] /\ state'[s] = "over"
      BY <2>3 DEF ConsoleTypeOK
    <3>2. Dialogue("over", line[s], Rest(s), remote[s], answered[s])
      BY <1>2, <1>4, <1>5, <2>1 DEF Dialogue
    <3> QED BY <1>1, <1>2, <1>6, <3>1, <3>2 DEF SessionInv
  <2> QED BY <1>8, <2>2, <2>3 DEF ReadShell, ReadsOn
<1> QED BY <1>7, <1>8

\* What the proxy or the shell says next.
LEMMA RemoteDialogue ==
  ASSUME Plain, ConsoleTypeOK, NEW s \in Sessions, SessionInv(s), Remote(s)
  PROVE  SessionInv(s)'
<1>1. /\ state[s] \in {"reply", "read"} /\ state' = state /\ line' = line /\ console' = console
  BY DEF Remote, ProxyReplies, ShellPrompts, ShellAnswers, Sends
<1>2. line[s] \in Nat /\ answered[s] \in Nat /\ stream[s] \in Seq(Chars)
  BY DEF ConsoleTypeOK, Chars
<1>3. /\ state[s] = "reply" => line[s] = 0
      /\ remote[s] = "reply" => stream[s] = <<>>
      /\ remote[s] # "line" => Clear(stream[s])
      /\ answered[s] # line[s] => answered[s] + 1 = line[s] /\ stream[s] = <<>>
      /\ remote[s] # "line" => answered[s] = line[s]
  BY DEF SessionInv, Dialogue
<1>4. console'[s[1]] # "none"
  BY <1>1 DEF SessionInv
<1>5. ASSUME NEW d \in Seq(Chars), NEW r, Sends(s, d), Then(s, r)
      PROVE  stream'[s] = stream[s] \o d /\ remote'[s] = r
  BY <1>5 DEF Sends, Then, ConsoleTypeOK
<1>6. \A d \in Seq(Chars) : <<>> \o d = d
  BY ConcatEmptySeq
<1>7. CASE ProxyReplies(s)
  <2>1. "90" \in Chars /\ "91" \in Chars
    BY DEF Chars
  <2>2. \A c \in Chars : <<c>> \in Seq(Chars) /\ Len(<<c>>) = 1
    OBVIOUS
  <2>3. <<>> \in Seq(Chars) /\ Len(<<>>) = 0
    OBVIOUS
  <2>4. \E d \in Seq(Chars), r \in {"prompt", "closed"} : Len(d) \in {0, 1} /\ Sends(s, d) /\ Then(s, r)
    BY <1>7, <2>1, <2>2, <2>3 DEF ProxyReplies
  <2>5. PICK d \in Seq(Chars), r \in {"prompt", "closed"} : Len(d) \in {0, 1} /\ Sends(s, d) /\ Then(s, r)
    BY <2>4
  <2>6. stream[s] = <<>> /\ answered[s] = line[s] /\ answered' = answered
    BY <1>3, <1>7 DEF ProxyReplies
  <2>7. stream'[s] = d /\ remote'[s] = r
    BY <1>5, <1>6, <2>5, <2>6
  <2>8. Clear(d) /\ AtEndOnly(d)
    BY <2>5, ShortClear
  <2>9. Dialogue(state[s], line[s], d, r, answered[s])
    BY <1>1, <1>3, <2>6, <2>8 DEF Dialogue
  <2> QED BY <1>1, <1>4, <2>6, <2>7, <2>9 DEF SessionInv
<1>8. CASE ShellPrompts(s)
  <2>1. stream'[s] = stream[s] \o Prompt /\ remote'[s] = "line" /\ answered' = answered
    BY <1>5, <1>8, PromptType DEF ShellPrompts
  <2>2. Clear(stream[s]) /\ answered[s] = line[s]
    BY <1>3, <1>8 DEF ShellPrompts
  <2>3. AtEndOnly(stream[s] \o Prompt)
    BY <1>2, <2>2, PromptAdded
  <2>4. Dialogue(state[s], line[s], stream[s] \o Prompt, "line", answered[s])
    BY <1>1, <1>3, <2>2, <2>3 DEF Dialogue
  <2> QED BY <1>1, <1>4, <2>1, <2>4 DEF SessionInv
<1>9. CASE ShellAnswers(s)
  <2>1. answered'[s] = answered[s] + 1 /\ answered[s] < line[s]
    BY <1>9 DEF ShellAnswers, ConsoleTypeOK
  <2>2. answered'[s] = line[s] /\ stream[s] = <<>>
    BY <1>2, <1>3, <2>1
  <2>3. <<>> \in Seq(Chars) /\ Len(<<>>) = 0
    OBVIOUS
  <2>4. ASSUME NEW d \in Outputs
        PROVE  d \in Seq(Chars) /\ Clear(d) /\ AtEndOnly(d)
    <3>1. Outputs \subseteq Seq(Unit) /\ Unit \subseteq Chars
      BY OutputsAssumption DEF Chars
    <3>2. d \in Seq(Chars)
      BY <3>1, SeqMonotonic
    <3>3. Clear(d)
      BY <3>2, SeenIsThere DEF Plain
    <3>4. Len(d) \in Nat
      BY <3>2, LenProperties
    <3> QED BY <3>2, <3>3, <3>4 DEF Clear, AtEndOnly
  <2>5. Clear(<<>>) /\ AtEndOnly(<<>>)
    BY <2>3, ShortClear
  <2>6. \E d \in Seq(Chars), r \in {"prompt", "closed"} :
          Clear(d) /\ AtEndOnly(d) /\ Sends(s, d) /\ Then(s, r)
    BY <1>9, <2>3, <2>4, <2>5 DEF ShellAnswers
  <2>7. PICK d \in Seq(Chars), r \in {"prompt", "closed"} :
          Clear(d) /\ AtEndOnly(d) /\ Sends(s, d) /\ Then(s, r)
    BY <2>6
  <2>8. stream'[s] = d /\ remote'[s] = r
    BY <1>5, <1>6, <2>2, <2>7
  <2>9. Dialogue(state[s], line[s], d, r, line[s])
    BY <1>1, <1>3, <2>7 DEF Dialogue
  <2> QED BY <1>1, <1>4, <2>2, <2>8, <2>9 DEF SessionInv
<1> QED BY <1>7, <1>8, <1>9 DEF Remote

\* Every step of the consoles keeps the dialogue of every session, and sends a line
\* only when the whole answer to the one before has been read.
LEMMA SessionStep ==
  ASSUME Plain, ConsoleTypeOK, NEW t \in Sessions, SessionInv(t), ConsoleStep
  PROVE  /\ SessionInv(t)'
         /\ line'[t] > line[t] => answered[t] = line[t] /\ stream'[t] = <<>>
<1> DEFINE Goal == /\ SessionInv(t)'
                   /\ line'[t] > line[t] => answered[t] = line[t] /\ stream'[t] = <<>>
<1>1. line[t] \in Nat /\ answered[t] \in Nat /\ t[1] \in Pages
  BY DEF ConsoleTypeOK, Sessions
<1>2. ASSUME state'[t] = state[t], line'[t] = line[t], stream'[t] = stream[t],
             remote'[t] = remote[t], answered'[t] = answered[t],
             console'[t[1]] = "none" => console[t[1]] = "none"
      PROVE  Goal
  BY <1>1, <1>2, SessionKept
<1>3. ASSUME NEW p \in Pages, NEW q \in SUBSET Slots, console[p] = "none", Main(p, q)
      PROVE  Goal
  <2>1. UNCHANGED <<line, stream, remote, answered>> /\ (t[1] # p => console'[t[1]] = console[t[1]])
    BY <1>1, <1>3 DEF Main, ConsoleTypeOK
  <2>2. CASE t[1] = p /\ t[2] \in q
    <3>1. state'[t] = "connect" /\ console'[t[1]] = "runs"
      BY <1>1, <1>3, <2>2 DEF Main, ConsoleTypeOK
    <3>2. state[t] = "none"
      BY <1>3, <2>2 DEF SessionInv
    <3>3. Dialogue("connect", line[t], stream[t], remote[t], answered[t])
      BY <3>2 DEF SessionInv, Dialogue
    <3> QED BY <1>1, <2>1, <3>1, <3>3 DEF SessionInv
  <2>3. CASE ~(t[1] = p /\ t[2] \in q)
    <3>1. state'[t] = state[t]
      BY <1>3, <2>3 DEF Main
    <3>2. console'[t[1]] = "none" => console[t[1]] = "none"
      BY <1>1, <1>3, <2>1 DEF Main, ConsoleTypeOK
    <3> QED BY <1>2, <2>1, <3>1, <3>2
  <2> QED BY <2>2, <2>3
<1>4. ASSUME NEW p \in Pages, Dies(p), NEW v, v # "none", console' = [console EXCEPT ![p] = v]
      PROVE  Goal
  <2>1. CASE t[1] = p
    <3>1. /\ state'[t] = "none" /\ line'[t] = 0 /\ stream'[t] = <<>> /\ remote'[t] = "none"
          /\ answered'[t] = 0 /\ console'[t[1]] = v
      BY <1>1, <1>4, <2>1 DEF Dies, ConsoleTypeOK
    <3>2. Dialogue("none", 0, <<>>, "none", 0)
      BY Silent
    <3> QED BY <1>1, <1>4, <3>1, <3>2 DEF SessionInv
  <2>2. CASE t[1] # p
    <3>1. /\ state'[t] = state[t] /\ line'[t] = line[t] /\ stream'[t] = stream[t]
          /\ remote'[t] = remote[t] /\ answered'[t] = answered[t]
      BY <1>4, <2>2 DEF Dies
    <3>2. console'[t[1]] = console[t[1]]
      BY <1>1, <1>4, <2>2 DEF ConsoleTypeOK
    <3> QED BY <1>2, <3>1, <3>2
  <2> QED BY <2>1, <2>2
<1>5. ASSUME NEW p \in Pages, Killed(p)
      PROVE  Goal
  BY <1>4, <1>5 DEF Killed
<1>6. ASSUME NEW s \in Sessions, Crashes(s)
      PROVE  Goal
  <2>1. s[1] \in Pages
    BY DEF Sessions
  <2> HIDE DEF Goal
  <2> QED BY <1>4, <1>6, <2>1 DEF Crashes
<1>7. ASSUME NEW p \in Pages, Returns(p)
      PROVE  Goal
  BY <1>1, <1>2, <1>7 DEF Returns, ConsoleTypeOK
<1>8. ASSUME NEW s \in Sessions, Connected(s) \/ Fails(s)
      PROVE  Goal
  <2>1. UNCHANGED <<console, line, stream, answered>> /\ (t # s => state'[t] = state[t] /\ remote'[t] = remote[t])
    BY <1>8 DEF Connected, Fails, ConsoleTypeOK
  <2>2. CASE t # s
    BY <1>2, <2>1, <2>2
  <2>3. CASE t = s /\ Connected(s)
    <3>1. /\ state[t] = "connect" /\ state'[t] \in {"reply", "read"} /\ remote'[t] \in {"reply", "prompt"}
      BY <2>3 DEF Connected, ConsoleTypeOK
    <3>2. line[t] = 0 /\ stream[t] = <<>> /\ answered[t] = 0
      BY <1>1, <3>1 DEF SessionInv, Dialogue, ConsoleTypeOK
    <3>3. Len(<<>>) = 0
      OBVIOUS
    <3>4. ASSUME NEW st \in {"reply", "read"}, NEW r \in {"reply", "prompt"}
          PROVE  Dialogue(st, 0, <<>>, r, 0)
      BY <3>3, ShortClear DEF Dialogue
    <3>5. console'[t[1]] # "none"
      BY <2>1, <3>1 DEF SessionInv
    <3> QED BY <1>1, <2>1, <3>1, <3>2, <3>4, <3>5 DEF SessionInv
  <2>4. CASE t = s /\ Fails(s)
    <3>1. /\ state'[t] = "over" /\ remote'[t] = remote[t]
          /\ state[t] = "connect" \/ (state[t] # "none" /\ stream[t] = <<>> /\ remote[t] = "closed")
      BY <2>4 DEF Fails, ConsoleTypeOK
    <3>2. Dialogue(state[t], line[t], stream[t], remote[t], answered[t]) /\ console[t[1]] # "none"
      BY <3>1 DEF SessionInv
    <3>3. Dialogue("over", line[t], stream[t], remote[t], answered[t])
      BY <1>1, <3>1, <3>2 DEF Dialogue
    <3> QED BY <1>1, <2>1, <3>1, <3>2, <3>3 DEF SessionInv
  <2> QED BY <1>8, <2>2, <2>3, <2>4
<1>9. ASSUME NEW s \in Sessions, ReadReply(s)
      PROVE  Goal
  <2>1. UNCHANGED <<console, line, remote, answered>>
        /\ (t # s => state'[t] = state[t] /\ stream'[t] = stream[t])
    BY <1>9 DEF ReadReply, ConsoleTypeOK
  <2>2. CASE t # s
    BY <1>2, <2>1, <2>2
  <2>3. CASE t = s
    <3>1. /\ state[t] = "reply" /\ stream[t] # <<>> /\ stream'[t] = Rest(t) /\ state'[t] \in {"read", "over"}
      BY <1>9, <2>3 DEF ReadReply, ConsoleTypeOK
    <3>2. Dialogue("reply", line[t], stream[t], remote[t], answered[t]) /\ console[t[1]] # "none"
      BY <3>1 DEF SessionInv
    <3>3. /\ line[t] = 0 /\ answered[t] = line[t] /\ remote[t] # "reply"
          /\ AtEndOnly(stream[t]) /\ (remote[t] # "line" => Clear(stream[t]))
      BY <3>1, <3>2 DEF Dialogue
    <3>4. AtEndOnly(Rest(t)) /\ (remote[t] # "line" => Clear(Rest(t)))
      BY <3>3, RestClear
    <3>5. ASSUME NEW st \in {"read", "over"}
          PROVE  Dialogue(st, line[t], Rest(t), remote[t], answered[t])
      BY <3>3, <3>4 DEF Dialogue
    <3> QED BY <1>1, <2>1, <3>1, <3>2, <3>5 DEF SessionInv
  <2> QED BY <2>2, <2>3
<1>10. ASSUME NEW s \in Sessions, ReadShell(s)
       PROVE  Goal
  <2>1. CASE t = s
    BY <1>10, <2>1, ReadDialogue
  <2>2. CASE t # s
    <3>1. state'[t] = state[t] /\ line'[t] = line[t] /\ stream'[t] = stream[t]
      BY <1>10, <2>2 DEF ReadShell, ConsoleTypeOK
    <3>2. UNCHANGED <<console, remote, answered>>
      BY <1>10 DEF ReadShell
    <3> QED BY <1>2, <3>1, <3>2
  <2> QED BY <2>1, <2>2
<1>11. ASSUME NEW s \in Sessions, Remote(s)
       PROVE  Goal
  <2>1. UNCHANGED <<console, state, line>>
    BY <1>11 DEF Remote, ProxyReplies, ShellPrompts, ShellAnswers, Sends
  <2>2. CASE t = s
    BY <1>1, <1>11, <2>1, <2>2, RemoteDialogue
  <2>3. CASE t # s
    <3>1. answered'[t] = answered[t] /\ remote'[t] = remote[t]
      BY <1>11, <2>3 DEF Remote, ProxyReplies, ShellPrompts, ShellAnswers, Then, ConsoleTypeOK
    <3>2. stream'[t] = stream[t]
      BY <1>11, <2>3 DEF Remote, ProxyReplies, ShellPrompts, ShellAnswers, Sends, ConsoleTypeOK
    <3> QED BY <1>2, <2>1, <3>1, <3>2
  <2> QED BY <2>2, <2>3
<1> HIDE DEF Goal
<1>12. Goal
  BY <1>3, <1>5, <1>6, <1>7, <1>8, <1>9, <1>10, <1>11 DEF ConsoleStep, Step
<1> QED BY <1>12 DEF Goal

\* At the start no session runs.
LEMMA SessionInit == ConsoleInit => \A s \in Sessions : SessionInv(s)
  BY Silent DEF ConsoleInit, All, SessionInv

\* Sessions that are in order have shown all that the shell wrote when they have
\* used up their files.
LEMMA QuietAtTheEnd == (\A s \in Sessions : SessionInv(s)) => PageComplete
  BY DEF PageComplete, SessionInv, Dialogue, Quiet
=============================================================================
