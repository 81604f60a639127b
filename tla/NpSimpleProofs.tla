---------------------------- MODULE NpSimpleProofs ----------------------------
(***************************************************************************)
(* Proofs about the shell npshell and the server np_simple that runs it,   *)
(* for any lines, of any number of commands, and any number of descriptors *)
(* and pipes.                                                              *)
(***************************************************************************)
EXTENDS NpSimple, FiniteSetTheorems, WellFoundedInduction, TLAPS

-----------------------------------------------------------------------------
(* Descriptors, pipes and lines.                                           *)

\* Every non-empty set of naturals has a least element.
LEMMA Least == ASSUME NEW S \in SUBSET Nat, S # {} PROVE \E m \in S : \A n \in S : m <= n
<1> DEFINE D == FiniteSubsetsOf(Nat)
           T == {0..n : n \in S}
<1>1. \A n \in S : n \in Nat /\ IsFiniteSet(0..n) /\ 0..n \subseteq Nat
  BY FS_Interval
<1>2. T \subseteq D /\ T # {}
  BY <1>1 DEF FiniteSubsetsOf
<1>3. IsWellFoundedOn(StrictSubsetOrdering(Nat), D)
  BY FS_StrictSubsetOrderingWellFounded
<1> HIDE DEF D
<1>4. \E x \in T : \A y \in T : <<y, x>> \notin StrictSubsetOrdering(Nat)
  BY <1>2, <1>3, WFMin
<1>5. PICK m \in S : \A n \in S : <<0..n, 0..m>> \notin StrictSubsetOrdering(Nat)
  BY <1>4
<1>6. ASSUME NEW n \in S, n < m
      PROVE  FALSE
  <2>1. 0..n \subseteq 0..m /\ m \in 0..m /\ m \notin 0..n
    BY <1>1, <1>6
  <2>2. <<0..n, 0..m>> \in StrictSubsetOrdering(Nat)
    BY <1>1, <2>1 DEF StrictSubsetOrdering
  <2> QED BY <1>5, <2>2
<1> QED BY <1>1, <1>6

\* The bounds, and what the parser makes of a line.
LEMMA Bounds ==
  /\ MaxLines \in Nat /\ MaxFd \in Nat /\ MaxPipes \in Nat /\ Cap \in Nat \ {0}
  /\ MaxStages \in Nat \ {0} /\ 1 \in Stages /\ Inherited \subseteq Fds
  /\ \A f \in Fds : f \in Nat /\ f >= 3
  /\ \A p \in Pipes : p \in Nat /\ p > 0
  /\ \A l \in LineNos : l \in Nat /\ l >= 1 /\ l <= MaxLines
  /\ \A s \in Stages : s \in Nat /\ s >= 1 /\ s <= MaxStages
  BY BoundsAssumption DEF Fds, Pipes, LineNos, Stages

LEMMA LineFacts ==
  ASSUME NEW l \in Lines
  PROVE  /\ l.cmds \in Seq(Kinds) /\ l.n \in Nat /\ l.err \in BOOLEAN /\ l.file \in BOOLEAN
         /\ Len(l.cmds) \in Stages
         /\ \A s \in 1..Len(l.cmds) : l.cmds[s] \in Kinds
         /\ l.file => l.n = 0
  BY LinesAssumption DEF LineType, Stages

\* What a descriptor can refer to.
Ends4 == {Tty, File, Shut} \cup {R(p) : p \in Pipes} \cup {W(p) : p \in Pipes}

\* The ends are different from each other.
LEMMA EndFacts ==
  /\ Tty # Shut /\ File # Shut /\ Tty.end = "tty" /\ File.end = "file" /\ Shut.end = "shut"
  /\ \A p : R(p) # Shut /\ W(p) # Shut /\ R(p).end = "r" /\ W(p).end = "w"
            /\ R(p).pipe = p /\ W(p).pipe = p
  BY DEF Tty, File, Shut, R, W, End

LEMMA EndKinds ==
  /\ Ends4 \subseteq EndType
  /\ \A x \in Ends4 : /\ x.end = "w" => x.pipe \in Pipes /\ x = W(x.pipe)
                      /\ x.end = "r" => x.pipe \in Pipes /\ x = R(x.pipe)
<1>1. Ends4 \subseteq EndType
  BY Bounds DEF Ends4, EndType, Tty, File, Shut, R, W, End, Pipes
<1>2. ASSUME NEW x \in Ends4
      PROVE  /\ x.end = "w" => x.pipe \in Pipes /\ x = W(x.pipe)
             /\ x.end = "r" => x.pipe \in Pipes /\ x = R(x.pipe)
  BY DEF Ends4, Tty, File, Shut, R, W, End
<1> QED BY <1>1, <1>2

\* The kernel gives out a free descriptor if there is one.
LEMMA LowestFree ==
  ASSUME NEW f, NEW n \in Fds, f[n] = Shut
  PROVE  Lowest(f) \in Fds /\ f[Lowest(f)] = Shut
<1> DEFINE S == {m \in Fds : f[m] = Shut}
<1>1. S \in SUBSET Nat /\ S # {}
  BY Bounds
<1>2. PICK m \in S : \A k \in S : m <= k
  BY <1>1, Least
<1>3. \A k \in 3..(m - 1) : f[k] # Shut
  BY <1>1, <1>2, Bounds DEF Fds
<1>4. \E k \in Fds : f[k] = Shut /\ \A j \in 3..(k - 1) : f[j] # Shut
  BY <1>2, <1>3
<1> QED BY <1>4 DEF Lowest

\* If there are two free descriptors, there is one besides any given one.
LEMMA AnotherFree == ASSUME Cardinality(FreeFds) >= 2, NEW r
                     PROVE  \E n \in Fds : n # r /\ fds[n] = Shut
<1> SUFFICES ASSUME \A n \in Fds : fds[n] = Shut => n = r
             PROVE  FALSE
  OBVIOUS
<1>1. FreeFds = {} \/ FreeFds = {r}
  BY DEF FreeFds
<1>2. Cardinality({}) = 0 /\ Cardinality({r}) = 1
  BY FS_EmptySet, FS_Singleton
<1> QED BY <1>1, <1>2

\* pipe() gives out two free descriptors and a free pipe.
LEMMA PipeFree ==
  ASSUME CanOpen, DOMAIN fds = Fds
  PROVE  /\ FreePipe \in Pipes
         /\ PipeFds = <<PipeFds[1], PipeFds[2]>>
         /\ PipeFds[1] \in Fds /\ PipeFds[2] \in Fds /\ PipeFds[1] # PipeFds[2]
         /\ fds[PipeFds[1]] = Shut /\ fds[PipeFds[2]] = Shut
<1>1. FreePipe \in Pipes
  BY DEF CanOpen, FreePipe, FreePipes
<1> DEFINE r == Lowest(fds)
           g == [fds EXCEPT ![r] = Tty]
           w == Lowest(g)
<1>2. r \in Fds /\ fds[r] = Shut
  BY AnotherFree, LowestFree DEF CanOpen
<1>3. PICK n \in Fds : n # r /\ fds[n] = Shut
  BY AnotherFree DEF CanOpen
<1>4. g[n] = Shut /\ g[r] = Tty /\ \A k \in Fds : k # r => g[k] = fds[k]
  BY <1>2, <1>3
<1>5. w \in Fds /\ g[w] = Shut
  BY <1>3, <1>4, LowestFree
<1>6. w # r /\ fds[w] = Shut
  BY <1>2, <1>4, <1>5, EndFacts
<1>7. PipeFds = <<r, w>>
  BY DEF PipeFds
<1> HIDE DEF r, w, g
<1> QED BY <1>1, <1>2, <1>5, <1>6, <1>7

\* The table has its two ends, then.
LEMMA PipeTable ==
  ASSUME CanOpen, DOMAIN fds = Fds
  PROVE  /\ DOMAIN WithPipe = Fds
         /\ WithPipe[PipeFds[1]] = R(FreePipe) /\ WithPipe[PipeFds[2]] = W(FreePipe)
         /\ \A f \in Fds : f # PipeFds[1] /\ f # PipeFds[2] => WithPipe[f] = fds[f]
  BY PipeFree DEF WithPipe

\* The loops find an entry of the list if there is one.
LEMMA FirstFound ==
  ASSUME NEW T, outer \in Seq(T), NEW S, NEW k \in DOMAIN outer, outer[k] \in S
  PROVE  First(S) \in S /\ First(S) \in Outer
<1> DEFINE K == {j \in DOMAIN outer : outer[j] \in S}
<1>1. K \in SUBSET Nat /\ K # {}
  OBVIOUS
<1>2. PICK m \in K : \A j \in K : m <= j
  BY <1>1, Least
<1>3. \A j \in 1..(m - 1) : outer[j] \notin S
  BY <1>1, <1>2
<1>4. \E j \in DOMAIN outer : outer[j] \in S /\ \A h \in 1..(j - 1) : outer[h] \notin S
  BY <1>2, <1>3
<1> QED BY <1>4 DEF First, Outer
-----------------------------------------------------------------------------
(* Types.                                                                  *)

Busy == pc \in {"stage", "clean", "wait", "waitlast"}

Entry == [from : LineNos, dest : Nat, rd : Fds, wr : Fds]
Proc == [st : {"none", "run", "zombie", "reaped"}, kind : Kinds, in : Ends4,
         out : Ends4, err : Ends4, left : 0..(Cap + 1), errs : 0..1, broken : BOOLEAN]

\* The types of the shell's variables, of the descriptors and of what is in the
\* pipes; a line that is being run is one of Lines, and i one of its commands.
ShellTypes ==
  /\ pc \in {"prompt", "stage", "clean", "wait", "waitlast", "exited"}
  /\ eof \in BOOLEAN /\ line_no \in 0..MaxLines /\ cmdline \in Lines \cup {NoLine}
  /\ i \in Stages /\ wfd \in {0} \cup Fds
  /\ before \in ({0} \cup Fds) \X ({1} \cup Fds) /\ after \in ({0} \cup Fds) \X ({1} \cup Fds)
  /\ outer \in Seq(Entry)
  /\ Busy => cmdline \in Lines /\ line_no \in LineNos /\ i <= Len(cmdline.cmds)
BufTypes == /\ buf \in [Pipes -> Seq(LineNos)]
            /\ \A p \in Pipes : Len(buf[p]) <= Cap
Typed == /\ ShellTypes /\ fds \in [Fds -> Ends4]
         /\ kid \in [LineNos -> [Stages -> Proc]] /\ BufTypes

NetTypes == /\ server \in {"accept", "fork", "close", "next"} /\ sock \in BOOLEAN
            /\ shell \in {"none", "runs", "failed"} /\ client \in {"none", "open", "gone"}

LEMMA TypesImply == ASSUME Typed, NetTypes PROVE NpTypeOK
<1> USE DEF Typed, ShellTypes
<1>1. Outer \subseteq [from : LineNos, dest : Nat, rd : Fds, wr : Fds]
  <2>1. outer \in Seq(Entry)
    OBVIOUS
  <2>2. \A k \in DOMAIN outer : outer[k] \in Entry
    BY <2>1
  <2> QED BY <2>2 DEF Outer, Entry
<1>2. fds \in [Fds -> EndType]
  BY EndKinds
<1>3. kid \in [LineNos -> [Stages -> KidType]]
  <2>1. Proc \subseteq KidType
    BY EndKinds DEF Proc, KidType
  <2> QED BY <2>1
<1>4. {before, after} \subseteq ({0} \cup Fds) \X ({1} \cup Fds)
  OBVIOUS
<1>5. \A p \in Pipes : buf[p] \in Seq(LineNos) /\ Len(buf[p]) <= Cap
  BY DEF BufTypes
<1> QED BY <1>1, <1>2, <1>3, <1>4, <1>5 DEF NpTypeOK, TypeOK, NetTypes

LEMMA TypesInit == ASSUME NpInit PROVE Typed /\ NetTypes
<1> USE Bounds DEF NpInit, Init
<1>1. fds \in [Fds -> Ends4]
  BY DEF Ends4
<1>2. NoKid \in Proc
  BY DEF NoKid, Proc, Kinds, Ends4
<1>3. kid \in [LineNos -> [Stages -> Proc]]
  BY <1>2
<1>4. BufTypes
  BY DEF BufTypes
<1>5. ShellTypes
  <2>1. /\ before \in ({0} \cup Fds) \X ({1} \cup Fds)
        /\ after \in ({0} \cup Fds) \X ({1} \cup Fds)
    OBVIOUS
  <2>2. outer \in Seq(Entry)
    OBVIOUS
  <2>3. ~Busy
    BY DEF Busy
  <2>4. eof \in BOOLEAN
    OBVIOUS
  <2>5. line_no \in 0..MaxLines /\ cmdline \in Lines \cup {NoLine}
    OBVIOUS
  <2>6. i \in Stages /\ wfd \in {0} \cup Fds
    OBVIOUS
  <2> QED BY <2>1, <2>2, <2>3, <2>4, <2>5, <2>6 DEF ShellTypes
<1> QED BY <1>1, <1>3, <1>4, <1>5 DEF Typed, NetTypes

\* A process is replaced in the table of processes.
LEMMA KidPut ==
  ASSUME NEW t \in [LineNos -> [Stages -> Proc]], NEW l \in LineNos, NEW s \in Stages,
         NEW k \in Proc
  PROVE  /\ [t EXCEPT ![l][s] = k] \in [LineNos -> [Stages -> Proc]]
         /\ [t EXCEPT ![l][s] = k][l][s] = k
         /\ \A m \in LineNos, n \in Stages :
              m # l \/ n # s => [t EXCEPT ![l][s] = k][m][n] = t[m][n]
<1>1. t[l] \in [Stages -> Proc]
  OBVIOUS
<1> DEFINE row == [t[l] EXCEPT ![s] = k]
<1>2. row \in [Stages -> Proc] /\ row[s] = k /\ \A n \in Stages : n # s => row[n] = t[l][n]
  BY <1>1
<1>3. [t EXCEPT ![l][s] = k] = [t EXCEPT ![l] = row]
  OBVIOUS
<1> HIDE DEF row
<1> QED BY <1>2, <1>3

\* What all steps of the commands have in common: nobody starts, and everybody keeps
\* its ends and its program.
SameJobs == \A m \in LineNos, t \in Stages :
              /\ kid'[m][t].kind = kid[m][t].kind /\ kid'[m][t].in = kid[m][t].in
              /\ kid'[m][t].out = kid[m][t].out /\ kid'[m][t].err = kid[m][t].err
              /\ kid'[m][t].st = "none" <=> kid[m][t].st = "none"

\* Only <<l, s>> changes, if any command does.
OnlyKid(l, s) == \A m \in LineNos, t \in Stages : m # l \/ t # s => kid'[m][t] = kid[m][t]

LEMMA KidKeeps ==
  ASSUME Typed, NEW l \in LineNos, NEW s \in Stages, NEW k \in Proc,
         kid' = [kid EXCEPT ![l][s] = k],
         k.kind = kid[l][s].kind, k.in = kid[l][s].in, k.out = kid[l][s].out,
         k.err = kid[l][s].err, k.st = "none" <=> kid[l][s].st = "none"
  PROVE  /\ kid' \in [LineNos -> [Stages -> Proc]] /\ SameJobs /\ OnlyKid(l, s)
         /\ kid'[l][s] = k
<1>1. /\ kid' \in [LineNos -> [Stages -> Proc]] /\ kid'[l][s] = k /\ OnlyKid(l, s)
  BY KidPut DEF Typed, OnlyKid
<1>2. SameJobs
  BY <1>1 DEF SameJobs, OnlyKid
<1> QED BY <1>1, <1>2
-----------------------------------------------------------------------------
(* The commands' steps.                                                    *)

Bufs == {b \in [Pipes -> Seq(LineNos)] : \A p \in Pipes : Len(b[p]) <= Cap}

LEMMA PutTypes ==
  ASSUME NEW b \in Bufs, NEW x \in Ends4, NEW l \in LineNos,
         x.end = "w" => Len(b[x.pipe]) < Cap
  PROVE  Put(b, x, l) \in Bufs
<1>1. CASE x.end # "w"
  BY <1>1 DEF Put
<1>2. CASE x.end = "w"
  <2> DEFINE p == x.pipe
             q == Append(b[p], l)
  <2>1. p \in Pipes
    BY <1>2, EndKinds
  <2>2. b[p] \in Seq(LineNos) /\ Len(b[p]) < Cap
    BY <1>2, <2>1 DEF Bufs
  <2>3. q \in Seq(LineNos) /\ Len(q) = Len(b[p]) + 1 /\ Len(b[p]) \in Nat
    BY <2>2
  <2>4. Len(q) <= Cap
    BY <2>2, <2>3, Bounds
  <2>5. Put(b, x, l) = [b EXCEPT ![p] = q]
    BY <1>2 DEF Put
  <2> HIDE DEF p, q
  <2> QED BY <2>1, <2>3, <2>4, <2>5 DEF Bufs
<1> QED BY <1>1, <1>2

LEMMA TakeTypes ==
  ASSUME NEW b \in Bufs, NEW p \in Pipes, b[p] # <<>>
  PROVE  /\ [b EXCEPT ![p] = Tail(@)] \in Bufs /\ Head(b[p]) \in LineNos
         /\ \A q \in Pipes : Len([b EXCEPT ![p] = Tail(@)][q]) <= Len(b[q])
<1> DEFINE t == Tail(b[p])
<1>1. b[p] \in Seq(LineNos) /\ Len(b[p]) <= Cap
  BY DEF Bufs
<1>2. t \in Seq(LineNos) /\ Len(t) \in Nat /\ Len(b[p]) \in Nat /\ Len(t) <= Len(b[p])
      /\ Head(b[p]) \in LineNos
  BY <1>1
<1>3. Len(t) <= Cap
  BY <1>1, <1>2, Bounds
<1>4. \A q \in Pipes : Len(b[q]) \in Nat
  BY DEF Bufs
<1> HIDE DEF t
<1>5. [b EXCEPT ![p] = t] \in Bufs
  BY <1>2, <1>3 DEF Bufs
<1>6. \A q \in Pipes : Len([b EXCEPT ![p] = t][q]) <= Len(b[q])
  BY <1>2, <1>4 DEF Bufs
<1> QED BY <1>2, <1>5, <1>6 DEF t

\* A step that leaves the processes alone, or changes one that goes on, or ends.
LEMMA KidSame == ASSUME Typed, kid' = kid, NEW l, NEW s
                 PROVE  kid' \in [LineNos -> [Stages -> Proc]] /\ SameJobs /\ OnlyKid(l, s)
  BY DEF Typed, SameJobs, OnlyKid

LEMMA EndTypes ==
  ASSUME Typed, NEW l \in LineNos, NEW s \in Stages, NEW d \in BOOLEAN,
         Running(l, s), Ends(l, s, d)
  PROVE  /\ kid' \in [LineNos -> [Stages -> Proc]] /\ SameJobs /\ OnlyKid(l, s)
         /\ kid'[l][s].st = "zombie" /\ kid'[l][s].broken = d
<1> DEFINE k == [kid[l][s] EXCEPT !.st = "zombie", !.broken = d]
<1>1. kid[l][s] \in Proc
  BY DEF Typed
<1>2. k \in Proc
  BY <1>1 DEF Proc
<1>3. kid' = [kid EXCEPT ![l][s] = k]
  BY DEF Ends
<1>4. /\ k.kind = kid[l][s].kind /\ k.in = kid[l][s].in /\ k.out = kid[l][s].out
      /\ k.err = kid[l][s].err
  BY <1>1 DEF Proc
<1>5. kid[l][s].st = "run"
  BY DEF Running
<1>6. k.st = "zombie" /\ k.broken = d
  BY <1>1 DEF Proc
<1> HIDE DEF k
<1> QED BY <1>2, <1>3, <1>4, <1>5, <1>6, KidKeeps


\* The shell and the descriptors do not change.
ShellSame == UNCHANGED <<pc, eof, line_no, cmdline, i, before, after, wfd, outer, fds>>

\* A step of a command: the shell does not change, one process may.
Going(l, s) == /\ Running(l, s) /\ ShellSame /\ BufTypes'
               /\ kid' \in [LineNos -> [Stages -> Proc]] /\ SameJobs /\ OnlyKid(l, s)

\* It goes on, or it ends, having lost output (d) or not.
GoesOn(l, s) == /\ Going(l, s)
                /\ kid'[l][s].st = kid[l][s].st /\ kid'[l][s].broken = kid[l][s].broken
IsOver(l, s, d) == Going(l, s) /\ kid'[l][s].st = "zombie" /\ kid'[l][s].broken = d

LEMMA GoingWriteError ==
  ASSUME Typed, NEW l \in LineNos, NEW s \in Stages, WriteError(l, s)
  PROVE  GoesOn(l, s)
<1> DEFINE k == [kid[l][s] EXCEPT !.errs = 0]
<1>1. Running(l, s) /\ HasRoom(kid[l][s].err) /\ buf' = Put(buf, kid[l][s].err, l)
  BY DEF WriteError
<1>2. ShellSame
  BY DEF WriteError, ShellSame, shVars
<1>3. kid[l][s] \in Proc
  BY DEF Typed
<1>4. kid[l][s].err \in Ends4
  BY <1>3 DEF Proc
<1>5. BufTypes'
  BY <1>1, <1>4, PutTypes DEF HasRoom, Typed, BufTypes, Bufs
<1>6. k \in Proc /\ k.kind = kid[l][s].kind /\ k.in = kid[l][s].in /\ k.out = kid[l][s].out
      /\ k.err = kid[l][s].err /\ k.st = kid[l][s].st /\ k.broken = kid[l][s].broken
  BY <1>3 DEF Proc
<1>7. kid' = [kid EXCEPT ![l][s] = k]
  BY DEF WriteError
<1> HIDE DEF k
<1>8. /\ kid' \in [LineNos -> [Stages -> Proc]] /\ SameJobs /\ OnlyKid(l, s)
      /\ kid'[l][s] = k
  BY <1>6, <1>7, KidKeeps
<1> QED BY <1>1, <1>2, <1>5, <1>6, <1>8 DEF GoesOn, Going

LEMMA GoingProduce ==
  ASSUME Typed, NEW l \in LineNos, NEW s \in Stages, Produce(l, s)
  PROVE  GoesOn(l, s)
<1> DEFINE n == kid[l][s].left - 1
           k == [kid[l][s] EXCEPT !.left = n]
<1>1. /\ Running(l, s) /\ HasRoom(kid[l][s].out) /\ buf' = Put(buf, kid[l][s].out, l)
      /\ kid[l][s].left > 0
  BY DEF Produce
<1>2. ShellSame
  BY DEF Produce, ShellSame, shVars
<1>3. kid[l][s] \in Proc
  BY DEF Typed
<1>4. kid[l][s].out \in Ends4 /\ kid[l][s].left \in 0..(Cap + 1)
  BY <1>3 DEF Proc
<1>5. BufTypes'
  BY <1>1, <1>4, PutTypes DEF HasRoom, Typed, BufTypes, Bufs
<1>6. n \in 0..(Cap + 1)
  BY <1>1, <1>4, Bounds
<1>7. kid' = [kid EXCEPT ![l][s] = k]
  BY DEF Produce
<1> HIDE DEF n
<1>8. k \in Proc /\ k.kind = kid[l][s].kind /\ k.in = kid[l][s].in /\ k.out = kid[l][s].out
      /\ k.err = kid[l][s].err /\ k.st = kid[l][s].st /\ k.broken = kid[l][s].broken
  BY <1>3, <1>6 DEF Proc
<1> HIDE DEF k
<1>9. /\ kid' \in [LineNos -> [Stages -> Proc]] /\ SameJobs /\ OnlyKid(l, s)
      /\ kid'[l][s] = k
  BY <1>7, <1>8, KidKeeps
<1> QED BY <1>1, <1>2, <1>5, <1>8, <1>9 DEF GoesOn, Going

LEMMA GoingCopy ==
  ASSUME Typed, NEW l \in LineNos, NEW s \in Stages, Copy(l, s)
  PROVE  GoesOn(l, s)
<1> DEFINE p == kid[l][s].in.pipe
           x == kid[l][s].out
           b == [buf EXCEPT ![p] = Tail(@)]
<1>1. /\ Running(l, s) /\ HasRoom(x) /\ kid[l][s].in.end = "r" /\ buf[p] # <<>>
      /\ kid' = kid /\ buf' = Put(b, x, Head(buf[p]))
  BY DEF Copy
<1>2. ShellSame
  BY DEF Copy, ShellSame, shVars
<1>3. kid[l][s] \in Proc
  BY DEF Typed
<1>4. kid[l][s].in \in Ends4 /\ x \in Ends4
  BY <1>3 DEF Proc
<1>5. p \in Pipes
  BY <1>1, <1>4, EndKinds
<1>6. buf \in Bufs
  BY DEF Typed, BufTypes, Bufs
<1>7. b \in Bufs /\ Head(buf[p]) \in LineNos /\ \A q \in Pipes : Len(b[q]) <= Len(buf[q])
  BY <1>1, <1>5, <1>6, TakeTypes
<1>8. x.end = "w" => Len(b[x.pipe]) < Cap
  <2> SUFFICES ASSUME x.end = "w" PROVE Len(b[x.pipe]) < Cap
    OBVIOUS
  <2>1. x.pipe \in Pipes
    BY <1>4, EndKinds
  <2>2. Len(buf[x.pipe]) < Cap
    BY <1>1 DEF HasRoom
  <2> HIDE DEF b, x
  <2>3. \A c \in Bufs, q \in Pipes : Len(c[q]) \in Nat
    BY DEF Bufs
  <2>4. Len(b[x.pipe]) <= Len(buf[x.pipe])
    BY <1>7, <2>1
  <2>5. Len(b[x.pipe]) \in Nat /\ Len(buf[x.pipe]) \in Nat
    BY <1>6, <1>7, <2>1, <2>3
  <2> QED BY <2>2, <2>4, <2>5, Bounds
<1> HIDE DEF b, x, p
<1>9. BufTypes'
  BY <1>1, <1>4, <1>7, <1>8, PutTypes DEF BufTypes, Bufs
<1> QED BY <1>1, <1>2, <1>9, KidSame DEF GoesOn, Going

\* A command that dies of what it writes, to a pipe or to the client.
LEMMA EndingDies ==
  ASSUME Typed, NEW l \in LineNos, NEW s \in Stages, DieWriting(l, s) \/ DieAtTty(l, s)
  PROVE  IsOver(l, s, TRUE)
<1>1. Running(l, s) /\ Ends(l, s, TRUE) /\ buf' = buf
  BY DEF DieWriting, DieAtTty
<1>2. ShellSame
  BY DEF DieWriting, DieAtTty, ShellSame, shVars
<1>3. BufTypes'
  BY <1>1 DEF Typed, BufTypes
<1>4. /\ kid' \in [LineNos -> [Stages -> Proc]] /\ SameJobs /\ OnlyKid(l, s)
      /\ kid'[l][s].st = "zombie" /\ kid'[l][s].broken = TRUE
  BY <1>1, EndTypes
<1> QED BY <1>1, <1>2, <1>3, <1>4 DEF IsOver, Going

LEMMA EndingFinish ==
  ASSUME Typed, NEW l \in LineNos, NEW s \in Stages, Finish(l, s)
  PROVE  IsOver(l, s, FALSE)
<1>1. Running(l, s) /\ Ends(l, s, FALSE) /\ buf' = buf
  BY DEF Finish
<1>2. ShellSame
  BY DEF Finish, ShellSame, shVars
<1>3. BufTypes'
  BY <1>1 DEF Typed, BufTypes
<1>4. /\ kid' \in [LineNos -> [Stages -> Proc]] /\ SameJobs /\ OnlyKid(l, s)
      /\ kid'[l][s].st = "zombie" /\ kid'[l][s].broken = FALSE
  BY <1>1, EndTypes
<1> QED BY <1>1, <1>2, <1>3, <1>4 DEF IsOver, Going

\* The commands' steps.
Commands(l, s) == Command(l, s) \/ DieAtTty(l, s)

LEMMA CommandsGo ==
  ASSUME Typed, NEW l \in LineNos, NEW s \in Stages, Commands(l, s)
  PROVE  Going(l, s)
  BY GoingWriteError, GoingProduce, GoingCopy, EndingDies, EndingFinish
     DEF Commands, Command, GoesOn, IsOver
-----------------------------------------------------------------------------
(* The shell's steps.                                                      *)

\* pipe() gives out the descriptors r and w of the pipe p.
Opens(r, w, p) == /\ r \in Fds /\ w \in Fds /\ r # w /\ fds[r] = Shut /\ fds[w] = Shut
                  /\ p \in Pipes /\ fds' = WithPipe /\ fds' \in [Fds -> Ends4]
                  /\ fds'[r] = R(p) /\ fds'[w] = W(p)
                  /\ \A f \in Fds : f # r /\ f # w => fds'[f] = fds[f]

LEMMA Opening ==
  ASSUME Typed, CanOpen, fds' = WithPipe, buf' = [buf EXCEPT ![FreePipe] = <<>>]
  PROVE  /\ Opens(PipeFds[1], PipeFds[2], FreePipe) /\ BufTypes'
         /\ PipeFds = <<PipeFds[1], PipeFds[2]>>
<1>1. DOMAIN fds = Fds /\ \A f \in Fds : fds[f] \in Ends4
  BY DEF Typed
<1>2. R(FreePipe) \in Ends4 /\ W(FreePipe) \in Ends4
  BY <1>1, PipeFree DEF Ends4
<1>3. WithPipe \in [Fds -> Ends4]
  BY <1>1, <1>2 DEF WithPipe
<1>4. <<>> \in Seq(LineNos) /\ Len(<<>>) <= Cap
  BY Bounds
<1>5. BufTypes'
  BY <1>1, <1>4, PipeFree DEF Typed, BufTypes
<1>6. /\ PipeFds[1] \in Fds /\ PipeFds[2] \in Fds /\ PipeFds[1] # PipeFds[2]
      /\ fds[PipeFds[1]] = Shut /\ fds[PipeFds[2]] = Shut /\ FreePipe \in Pipes
      /\ PipeFds = <<PipeFds[1], PipeFds[2]>>
  BY <1>1, PipeFree
<1>7. /\ WithPipe[PipeFds[1]] = R(FreePipe) /\ WithPipe[PipeFds[2]] = W(FreePipe)
      /\ \A f \in Fds : f # PipeFds[1] /\ f # PipeFds[2] => WithPipe[f] = fds[f]
  BY <1>1, PipeTable
<1> QED BY <1>3, <1>5, <1>6, <1>7 DEF Opens

\* The line has no |n; or its entry e joins those with its destination; or the pipe
\* of e is opened.
NoPipe == UNCHANGED <<outer, fds, buf>>
Joins(e) == /\ \E o \in Outer : o.dest = e.dest /\ o.rd = e.rd /\ o.wr = e.wr
            /\ UNCHANGED <<fds, buf>>
Fresh(e) == /\ \A o \in Outer : o.dest # e.dest
            /\ \E p \in Pipes : Opens(e.rd, e.wr, p)
            /\ BufTypes'
Adds(e) == /\ e \in Entry /\ outer' = Append(outer, e)
           /\ e.from = line_no + 1 /\ e.dest > line_no + 1
           /\ Joins(e) \/ Fresh(e)
Reads(l) == /\ pc = "prompt" /\ line_no + 1 \in LineNos
            /\ line_no' = line_no + 1 /\ cmdline' = l /\ i' = 1
            /\ before' = <<0, 1>> /\ after' = <<0, 1>> /\ pc' = "stage"
            /\ UNCHANGED <<eof, wfd, kid>>

LEMMA OuterFacts ==
  ASSUME Typed
  PROVE  /\ Outer \subseteq Entry
         /\ \A o \in Outer : /\ o.from \in LineNos /\ o.dest \in Nat
                             /\ o.rd \in Fds /\ o.wr \in Fds
<1>1. outer \in Seq(Entry)
  BY DEF Typed, ShellTypes
<1>2. \A k \in DOMAIN outer : outer[k] \in Entry
  BY <1>1
<1> QED BY <1>2 DEF Outer, Entry

LEMMA LineNoFacts ==
  ASSUME Typed PROVE line_no \in Nat /\ i \in Nat /\ i >= 1 /\ wfd \in Nat
  BY Bounds DEF Typed, ShellTypes

LEMMA AddingStep ==
  ASSUME Typed, NEW n \in Nat, n # 0, line_no + 1 \in LineNos,
         create_outer_pipe(line_no + 1, line_no + 1 + n)
  PROVE  \E e \in Entry : Adds(e) /\ e.dest = line_no + 1 + n
<1> DEFINE no == line_no + 1
           d == line_no + 1 + n
<1>1. d \in Nat /\ no \in LineNos /\ d > no
  BY LineNoFacts
<1>2. CASE SameDest(d) # {}
  <2>1. PICK o \in SameDest(d) : outer' = Append(outer, [o EXCEPT !.from = no])
    BY <1>2 DEF create_outer_pipe
  <2>2. o \in Outer /\ o.dest = d /\ o \in Entry
    BY OuterFacts DEF SameDest
  <2> DEFINE e == [o EXCEPT !.from = no]
  <2>3. e \in Entry /\ e.from = no /\ e.dest = d /\ e.rd = o.rd /\ e.wr = o.wr
    BY <1>1, <2>2 DEF Entry
  <2>4. Joins(e)
    BY <1>2, <2>2, <2>3 DEF Joins, create_outer_pipe
  <2> QED BY <1>1, <2>1, <2>3, <2>4 DEF Adds
<1>3. CASE SameDest(d) = {}
  <2>1. /\ CanOpen /\ fds' = WithPipe /\ buf' = [buf EXCEPT ![FreePipe] = <<>>]
        /\ outer' = Append(outer, [from |-> no, dest |-> d, rd |-> PipeFds[1],
                                   wr |-> PipeFds[2]])
    BY <1>3 DEF create_outer_pipe
  <2> DEFINE e == [from |-> no, dest |-> d, rd |-> PipeFds[1], wr |-> PipeFds[2]]
  <2>2. Opens(PipeFds[1], PipeFds[2], FreePipe) /\ BufTypes'
    BY <2>1, Opening
  <2>3. PipeFds[1] \in Fds /\ PipeFds[2] \in Fds /\ FreePipe \in Pipes
    BY <2>2 DEF Opens
  <2>4. e \in Entry /\ e.from = no /\ e.dest = d /\ e.rd = PipeFds[1] /\ e.wr = PipeFds[2]
    BY <1>1, <2>3 DEF Entry
  <2>5. \A o \in Outer : o.dest # d
    BY <1>3 DEF SameDest
  <2>6. Fresh(e)
    BY <2>2, <2>3, <2>4, <2>5 DEF Fresh
  <2> QED BY <1>1, <2>1, <2>4, <2>6 DEF Adds
<1> QED BY <1>2, <1>3

LEMMA ParserSteps ==
  ASSUME Typed, NEW l \in Lines, Parser(l)
  PROVE  /\ Reads(l)
         /\ \/ NoPipe /\ l.n = 0
            \/ l.n # 0 /\ \E e \in Entry : Adds(e) /\ e.dest = line_no + 1 + l.n
<1>1. line_no + 1 \in LineNos
  BY LineNoFacts, Bounds DEF Parser, LineNos
<1>2. Reads(l)
  BY <1>1 DEF Parser, Reads
<1>3. CASE l.n = 0
  BY <1>2, <1>3 DEF Parser, NoPipe
<1>4. CASE l.n # 0
  BY <1>1, <1>2, <1>4, AddingStep, LineFacts DEF Parser
<1> QED BY <1>2, <1>3, <1>4

LEMMA AppendOuter ==
  ASSUME Typed, NEW e \in Entry, outer' = Append(outer, e)
  PROVE  /\ outer' \in Seq(Entry) /\ Outer' = Outer \cup {e}
         /\ Len(outer) \in Nat /\ DOMAIN outer = 1..Len(outer)
         /\ DOMAIN outer' = 1..(Len(outer) + 1) /\ outer'[Len(outer) + 1] = e
         /\ \A k \in DOMAIN outer : outer'[k] = outer[k]
<1>1. outer \in Seq(Entry)
  BY DEF Typed, ShellTypes
<1>2. /\ outer' \in Seq(Entry)
      /\ Len(outer) \in Nat /\ DOMAIN outer = 1..Len(outer)
      /\ DOMAIN outer' = 1..(Len(outer) + 1) /\ outer'[Len(outer) + 1] = e
      /\ \A k \in DOMAIN outer : outer'[k] = outer[k]
  BY <1>1
<1>3. Outer' = {outer'[k] : k \in DOMAIN outer'}
  BY DEF Outer
<1>4. DOMAIN outer' = DOMAIN outer \cup {Len(outer) + 1}
  BY <1>2
<1>5. Outer' = Outer \cup {e}
  BY <1>2, <1>3, <1>4 DEF Outer
<1> QED BY <1>2, <1>5


LEMMA RefersTypes == ASSUME Typed, NEW d PROVE Refers(d) \in Ends4
  BY DEF Typed, Refers, Ends4

LEMMA LastOutTypes == ASSUME Typed PROVE LastOut \in Ends4
<1> DEFINE own == {o \in Outer : o.from = line_no}
<1>1. CASE own # {}
  <2>1. LastOut = Refers(First(own).wr)
    BY <1>1 DEF LastOut
  <2> QED BY <2>1, RefersTypes
<1>2. CASE own = {}
  BY <1>2 DEF LastOut, Ends4
<1> QED BY <1>1, <1>2

\* What is true of a process that has just been started.
Young(k, in, out) ==
  /\ k \in Proc /\ k.st = "run" /\ k.kind = cmdline.cmds[i] /\ k.in = in /\ k.out = out
  /\ k.err \in {Tty, out} /\ k.broken = FALSE

LEMMA ChildTypes ==
  ASSUME Typed, pc = "stage", NEW in \in Ends4, NEW out \in Ends4
  PROVE  Young(Child(in, out), in, out)
<1>1. cmdline \in Lines /\ i \in 1..Len(cmdline.cmds)
  BY LineNoFacts, LineFacts DEF Typed, ShellTypes, Busy, Stages
<1>2. cmdline.cmds[i] \in Kinds
  BY <1>1, LineFacts
<1> DEFINE left == Amount(cmdline.cmds[i])
           errs == IF cmdline.cmds[i] = "source0" THEN 1 ELSE 0
           err  == IF Last /\ cmdline.err THEN out ELSE Tty
<1>3. left \in 0..(Cap + 1)
  BY <1>2, Bounds DEF Amount, Kinds
<1>4. errs \in 0..1
  OBVIOUS
<1>5. err \in {Tty, out} /\ err \in Ends4
  BY DEF Ends4
<1>6. Child(in, out) = [st |-> "run", kind |-> cmdline.cmds[i], in |-> in, out |-> out,
                        err |-> err, left |-> left, errs |-> errs, broken |-> FALSE]
  BY DEF Child
<1> HIDE DEF left, errs, err
<1> QED BY <1>2, <1>3, <1>4, <1>5, <1>6 DEF Young, Proc

\* The last command is started; its file is opened.  Or one that is not the last, with
\* a new pipe.
Starts(k) == /\ pc = "stage" /\ pc' = "clean" /\ kid' = [kid EXCEPT ![line_no][i] = k]
             /\ line_no \in LineNos /\ i \in Stages
             /\ UNCHANGED <<eof, line_no, cmdline, i, before, outer>>
StartsLast(k) ==
  /\ Starts(k) /\ Last /\ Young(k, Refers(InFd), LastOut) /\ UNCHANGED <<after, buf>>
  /\ \/ UNCHANGED <<wfd, fds>>
     \/ /\ wfd' \in Fds /\ fds[wfd'] = Shut /\ fds' \in [Fds -> Ends4]
        /\ \A f \in Fds : f # wfd' => fds'[f] = fds[f]
StartsMore(k) ==
  /\ Starts(k) /\ ~Last /\ UNCHANGED wfd /\ BufTypes'
  /\ after' = <<after'[1], after'[2]>>
  /\ \E p \in Pipes : Young(k, Refers(InFd), W(p)) /\ Opens(after'[1], after'[2], p)

LEMMA ForkSteps ==
  ASSUME Typed, ForkProcess
  PROVE  \E k \in Proc : StartsLast(k) \/ StartsMore(k)
<1>1. pc = "stage" /\ line_no \in LineNos /\ i \in Stages
  BY DEF ForkProcess, Typed, ShellTypes, Busy
<1>2. Refers(InFd) \in Ends4
  BY RefersTypes
<1>3. CASE Last
  <2> DEFINE k == Child(Refers(InFd), LastOut)
  <2>1. Young(k, Refers(InFd), LastOut)
    BY <1>1, <1>2, ChildTypes, LastOutTypes
  <2>2. k \in Proc
    BY <2>1 DEF Young
  <2>3. Starts(k) /\ UNCHANGED <<after, buf>>
    BY <1>1, <1>3 DEF ForkProcess, Starts
  <2>4. CASE ~cmdline.file
    <3>1. UNCHANGED <<wfd, fds>>
      BY <1>3, <2>4 DEF ForkProcess
    <3> HIDE DEF k
    <3> QED BY <1>3, <2>1, <2>2, <2>3, <3>1 DEF StartsLast
  <2>5. CASE cmdline.file
    <3>1. PICK f \in Fds : fds[f] = Shut
      BY <1>3, <2>5 DEF ForkProcess, FreeFds
    <3>2. wfd' = Lowest(fds) /\ fds' = [fds EXCEPT ![wfd'] = File]
      BY <1>3, <2>5 DEF ForkProcess
    <3>3. wfd' \in Fds /\ fds[wfd'] = Shut
      BY <3>1, <3>2, LowestFree
    <3>4. /\ fds' \in [Fds -> Ends4]
          /\ \A g \in Fds : g # wfd' => fds'[g] = fds[g]
      BY <3>2, <3>3 DEF Typed, Ends4
    <3> HIDE DEF k
    <3> QED BY <1>3, <2>1, <2>2, <2>3, <3>3, <3>4 DEF StartsLast
  <2> QED BY <2>4, <2>5
<1>4. CASE ~Last
  <2> DEFINE k == Child(Refers(InFd), W(FreePipe))
  <2>1. /\ CanOpen /\ fds' = WithPipe /\ buf' = [buf EXCEPT ![FreePipe] = <<>>]
        /\ after' = PipeFds /\ UNCHANGED wfd
    BY <1>4 DEF ForkProcess
  <2>2. Starts(k)
    BY <1>1, <1>4 DEF ForkProcess, Starts
  <2>3. /\ Opens(PipeFds[1], PipeFds[2], FreePipe) /\ BufTypes'
        /\ PipeFds = <<PipeFds[1], PipeFds[2]>>
    BY <2>1, Opening
  <2>4. FreePipe \in Pipes
    BY <2>3 DEF Opens
  <2>5. Young(k, Refers(InFd), W(FreePipe))
    BY <1>1, <1>2, <2>4, ChildTypes DEF Ends4
  <2>6. k \in Proc
    BY <2>5 DEF Young
  <2>7. after'[1] = PipeFds[1] /\ after'[2] = PipeFds[2]
    BY <2>1
  <2> HIDE DEF k
  <2> QED BY <1>4, <2>1, <2>2, <2>3, <2>4, <2>5, <2>6, <2>7 DEF StartsMore
<1> QED BY <1>3, <1>4

\* The pipes whose destination is this line.
Due == UNION {OuterFds(o) : o \in {u \in Outer : u.dest = line_no}}

Cleans == /\ pc = "clean" /\ pc' = "wait" /\ before' = after
          /\ fds' \in [Fds -> Ends4]
          /\ \A f \in Fds : fds'[f] = IF f \in BeforeFds \cup Due THEN Shut ELSE fds[f]
          /\ UNCHANGED <<eof, line_no, cmdline, i, after, wfd, outer, kid, buf>>

LEMMA CleanSteps == ASSUME Typed, CleanUp PROVE Cleans
<1> DEFINE D == BeforeFds \cup Due
<1>1. fds' = Close(D)
  BY DEF CleanUp, IsUsed, Due
<1> HIDE DEF D
<1>2. /\ fds' \in [Fds -> Ends4]
      /\ \A f \in Fds : fds'[f] = IF f \in D THEN Shut ELSE fds[f]
  BY <1>1 DEF Close, Typed, Ends4
<1> QED BY <1>2 DEF CleanUp, Cleans, D

\* A zombie is waited for.
Reaps(l, s) == /\ l \in LineNos /\ s \in Stages /\ kid[l][s].st = "zombie"
               /\ kid' \in [LineNos -> [Stages -> Proc]]
               /\ SameJobs /\ OnlyKid(l, s) /\ kid'[l][s].st = "reaped"
               /\ kid'[l][s].broken = kid[l][s].broken

LEMMA ReapSteps ==
  ASSUME Typed, NEW l \in LineNos, NEW s \in Stages, Reap(l, s)
  PROVE  Reaps(l, s)
<1> DEFINE k == [kid[l][s] EXCEPT !.st = "reaped"]
<1>1. kid[l][s] \in Proc /\ kid[l][s].st = "zombie"
  BY DEF Typed, Reap
<1>2. k \in Proc /\ k.kind = kid[l][s].kind /\ k.in = kid[l][s].in /\ k.out = kid[l][s].out
      /\ k.err = kid[l][s].err /\ k.st = "reaped" /\ k.broken = kid[l][s].broken
  BY <1>1 DEF Proc
<1>3. kid' = [kid EXCEPT ![l][s] = k]
  BY DEF Reap
<1> HIDE DEF k
<1> QED BY <1>1, <1>2, <1>3, KidKeeps DEF Reaps

\* The wait for the previous command is over, and the next one is started; or there is
\* no next one.
WaitsOver == /\ pc = "wait" /\ line_no \in LineNos
             /\ \/ UNCHANGED kid
                \/ \E s \in Stages : s = i - 1 /\ Reaps(line_no, s)
             /\ UNCHANGED <<eof, line_no, cmdline, before, after, outer, buf>>
GoesToNext == WaitsOver /\ ~Last /\ i' = i + 1 /\ pc' = "stage" /\ UNCHANGED <<fds, wfd>>
GoesToEnd == /\ WaitsOver /\ Last /\ wfd' = 0 /\ UNCHANGED i /\ pc' \in {"waitlast", "prompt"}
             /\ fds' \in [Fds -> Ends4]
             /\ \A f \in Fds : fds'[f] = IF f = wfd THEN Shut ELSE fds[f]

LEMMA WaitSteps == ASSUME Typed, WaitPrevious PROVE GoesToNext \/ GoesToEnd
<1>1. pc = "wait" /\ line_no \in LineNos /\ i \in Stages
  BY DEF WaitPrevious, Typed, ShellTypes, Busy
<1>2. UNCHANGED kid \/ \E s \in Stages : s = i - 1 /\ Reaps(line_no, s)
  <2>1. CASE i = 1
    BY <2>1 DEF WaitPrevious
  <2>2. CASE i # 1
    <3>1. i - 1 \in Stages
      BY <1>1, <2>2, Bounds DEF Stages
    <3>2. Reap(line_no, i - 1)
      BY <2>2 DEF WaitPrevious
    <3> QED BY <1>1, <3>1, <3>2, ReapSteps
  <2> QED BY <2>1, <2>2
<1>3. WaitsOver
  BY <1>1, <1>2 DEF WaitPrevious, WaitsOver
<1>4. CASE ~Last
  BY <1>3, <1>4 DEF WaitPrevious, GoesToNext
<1>5. CASE Last
  <2>1. fds' = Close({wfd}) /\ wfd' = 0 /\ UNCHANGED i
        /\ pc' = IF WaitsForLast THEN "waitlast" ELSE "prompt"
    BY <1>5 DEF WaitPrevious
  <2>2. /\ fds' \in [Fds -> Ends4]
        /\ \A f \in Fds : fds'[f] = IF f = wfd THEN Shut ELSE fds[f]
    BY <2>1 DEF Close, Typed, Ends4
  <2> QED BY <1>3, <1>5, <2>1, <2>2 DEF GoesToEnd
<1> QED BY <1>4, <1>5

LEMMA WaitLastSteps == ASSUME Typed, WaitLast
                       PROVE  /\ pc = "waitlast" /\ pc' = "prompt" /\ Reaps(line_no, i)
                              /\ UNCHANGED <<eof, line_no, cmdline, i, before, after, wfd, outer,
                                             fds, buf>>
<1>1. line_no \in LineNos /\ i \in Stages
  BY DEF WaitLast, Typed, ShellTypes, Busy
<1> QED BY <1>1, ReapSteps DEF WaitLast
-----------------------------------------------------------------------------
(* Every step is one of these.                                             *)

\* exit, and a shell that writes to a client that has gone.
Quits == /\ pc = "prompt" /\ pc' = "exited" /\ fds' = [f \in Fds |-> Shut]
         /\ UNCHANGED <<eof, line_no, cmdline, i, before, after, wfd, outer, kid, buf>>

\* A built-in command.
BuiltIns == /\ pc = "prompt" /\ line_no + 1 \in LineNos /\ line_no' = line_no + 1
            /\ UNCHANGED <<pc, eof, cmdline, i, before, after, wfd, outer, fds, kid, buf>>

\* Nothing but the end of input is noticed.
Rests == /\ eof' \in BOOLEAN
         /\ UNCHANGED <<pc, line_no, cmdline, i, before, after, wfd, outer, fds, kid, buf>>

LEMMA NextCases ==
  ASSUME Typed, [NpNext]_npVars
  PROVE  \/ Rests \/ Quits \/ BuiltIns
         \/ \E l \in Lines : Parser(l)
         \/ ForkProcess \/ CleanUp \/ WaitPrevious \/ WaitLast
         \/ \E l \in LineNos, s \in Stages : Commands(l, s)
<1>1. CASE UNCHANGED vars
  BY <1>1 DEF vars, shVars, Rests, Typed, ShellTypes
<1>2. CASE BuiltIn
  <2>1. line_no + 1 \in LineNos
    BY <1>2, LineNoFacts, Bounds DEF BuiltIn, LineNos
  <2> QED BY <1>2, <2>1 DEF BuiltIn, BuiltIns
<1>3. CASE Exit \/ HangUp
  BY <1>3 DEF Exit, HangUp, InputEnds, Quits, Rests
<1>4. CASE \E l \in Lines : Parser(l)
  BY <1>4
<1>5. CASE Shell
  BY <1>5 DEF Shell
<1>6. CASE \E l \in LineNos, s \in Stages : Commands(l, s)
  BY <1>6
<1>7. \/ UNCHANGED vars \/ BuiltIn \/ Exit \/ HangUp \/ (\E l \in Lines : Parser(l)) \/ Shell
      \/ \E l \in LineNos, s \in Stages : Commands(l, s)
  <2>1. CASE UNCHANGED npVars \/ Main \/ Connect \/ Leave
    BY <2>1 DEF npVars, Main, Accept, Fork, CloseSocket, Connect, Leave
  <2>2. CASE ShellRuns \/ HangUp \/ Types
    BY <2>2 DEF ShellRuns, Types
  <2>3. CASE \E l \in LineNos, s \in Stages : CommandRuns(l, s) \/ DieAtTty(l, s)
    BY <2>3 DEF CommandRuns, Commands
  <2> QED BY <2>1, <2>2, <2>3 DEF NpNext, SystemRuns
<1> QED BY <1>1, <1>2, <1>3, <1>4, <1>5, <1>6, <1>7

-----------------------------------------------------------------------------
(* The types are kept.                                                     *)

LEMMA NetStep == ASSUME NetTypes, [NpNext]_npVars PROVE NetTypes'
<1>1. CASE UNCHANGED netVars
  BY <1>1 DEF netVars, NetTypes
<1>2. CASE Main \/ Connect \/ Leave
  BY <1>2 DEF Main, Accept, Fork, CloseSocket, Closed, Connect, Leave, NetTypes
<1>3. UNCHANGED netVars \/ Main \/ Connect \/ Leave
  BY DEF NpNext, npVars, SystemRuns, ShellRuns, HangUp, CommandRuns, Types, DieAtTty
<1> QED BY <1>1, <1>2, <1>3

LEMMA TypesParser == ASSUME Typed, NEW l \in Lines, Parser(l) PROVE Typed'
<1>1. Reads(l)
  BY ParserSteps
<1>2. outer' \in Seq(Entry) /\ fds' \in [Fds -> Ends4] /\ BufTypes'
  <2>1. CASE NoPipe
    BY <2>1 DEF NoPipe, Typed, ShellTypes, BufTypes
  <2>2. ASSUME NEW e \in Entry, Adds(e)
        PROVE  outer' \in Seq(Entry) /\ fds' \in [Fds -> Ends4] /\ BufTypes'
    <3>1. outer' \in Seq(Entry)
      BY <2>2, AppendOuter DEF Adds
    <3>2. CASE Joins(e)
      BY <3>1, <3>2 DEF Joins, Typed, BufTypes
    <3>3. CASE Fresh(e)
      BY <3>1, <3>3 DEF Fresh, Opens
    <3> QED BY <2>2, <3>2, <3>3 DEF Adds
  <2> QED BY <2>1, <2>2, ParserSteps
<1>3. <<0, 1>> \in ({0} \cup Fds) \X ({1} \cup Fds)
  OBVIOUS
<1>4. Len(l.cmds) \in Stages /\ 1 \in Stages /\ 1 <= Len(l.cmds)
  BY LineFacts, Bounds
<1>5. eof' \in BOOLEAN /\ wfd' \in {0} \cup Fds /\ kid' = kid
  BY <1>1 DEF Reads, Typed, ShellTypes
<1>6. line_no' \in LineNos /\ line_no' \in 0..MaxLines
  BY <1>1, LineNoFacts, Bounds DEF Reads, LineNos
<1>7. pc' = "stage" /\ cmdline' = l /\ i' = 1 /\ before' = <<0, 1>> /\ after' = <<0, 1>>
  BY <1>1 DEF Reads
<1>8. ShellTypes'
  BY <1>2, <1>3, <1>4, <1>5, <1>6, <1>7 DEF ShellTypes
<1> QED BY <1>2, <1>5, <1>8 DEF Typed

LEMMA TypesFork == ASSUME Typed, ForkProcess PROVE Typed'
<1>1. PICK k \in Proc : StartsLast(k) \/ StartsMore(k)
  BY ForkSteps
<1>2. Starts(k)
  BY <1>1 DEF StartsLast, StartsMore
<1>3. kid' \in [LineNos -> [Stages -> Proc]]
  BY <1>2, KidPut DEF Starts, Typed
<1>4. /\ fds' \in [Fds -> Ends4] /\ BufTypes' /\ wfd' \in {0} \cup Fds
      /\ after' \in ({0} \cup Fds) \X ({1} \cup Fds)
  <2>1. CASE StartsLast(k)
    <3>1. fds' \in [Fds -> Ends4] /\ wfd' \in {0} \cup Fds
      BY <2>1 DEF StartsLast, Typed, ShellTypes
    <3>2. BufTypes' /\ after' \in ({0} \cup Fds) \X ({1} \cup Fds)
      BY <2>1 DEF StartsLast, Typed, ShellTypes, BufTypes
    <3> QED BY <3>1, <3>2
  <2>2. CASE StartsMore(k)
    <3>1. PICK p \in Pipes : Opens(after'[1], after'[2], p)
      BY <2>2 DEF StartsMore
    <3>2. fds' \in [Fds -> Ends4] /\ after'[1] \in Fds /\ after'[2] \in Fds
      BY <3>1 DEF Opens
    <3>3. after' = <<after'[1], after'[2]>> /\ BufTypes' /\ wfd' = wfd
      BY <2>2 DEF StartsMore
    <3>4. after' \in ({0} \cup Fds) \X ({1} \cup Fds)
      BY <3>2, <3>3
    <3> QED BY <3>2, <3>3, <3>4 DEF Typed, ShellTypes
  <2> QED BY <1>1, <2>1, <2>2
<1>5. /\ pc = "stage" /\ pc' = "clean"
      /\ UNCHANGED <<eof, line_no, cmdline, i, before, outer>>
  BY <1>2 DEF Starts
<1>6. Busy
  BY <1>5 DEF Busy
<1>7. ShellTypes'
  BY <1>4, <1>5, <1>6 DEF ShellTypes, Typed
<1> QED BY <1>3, <1>4, <1>7 DEF Typed

LEMMA TypesClean == ASSUME Typed, CleanUp PROVE Typed'
<1>1. Cleans
  BY CleanSteps
<1>2. /\ pc = "clean" /\ pc' = "wait" /\ before' = after
      /\ UNCHANGED <<eof, line_no, cmdline, i, after, wfd, outer>>
  BY <1>1 DEF Cleans
<1>3. Busy
  BY <1>2 DEF Busy
<1>4. ShellTypes'
  BY <1>2, <1>3 DEF ShellTypes, Typed
<1>5. fds' \in [Fds -> Ends4] /\ kid' = kid /\ buf' = buf
  BY <1>1 DEF Cleans
<1> QED BY <1>4, <1>5 DEF Typed, BufTypes

LEMMA TypesWait == ASSUME Typed, WaitPrevious PROVE Typed'
<1>1. WaitsOver
  BY WaitSteps DEF GoesToNext, GoesToEnd
<1>2. /\ pc = "wait" /\ buf' = buf /\ kid' \in [LineNos -> [Stages -> Proc]]
      /\ UNCHANGED <<eof, line_no, cmdline, before, after, outer>>
  BY <1>1 DEF WaitsOver, Reaps, Typed
<1>3. Busy /\ cmdline \in Lines /\ line_no \in LineNos /\ i <= Len(cmdline.cmds)
  BY <1>2 DEF Busy, Typed, ShellTypes
<1>4. Len(cmdline.cmds) \in Stages
  BY <1>3, LineFacts
<1>5. CASE GoesToNext
  <2>1. i' = i + 1 /\ pc' = "stage" /\ i # Len(cmdline.cmds) /\ fds' = fds /\ wfd' = wfd
    BY <1>5 DEF GoesToNext, Last
  <2>2. i' \in Stages /\ i' <= Len(cmdline.cmds)
    BY <1>3, <1>4, <2>1, Bounds, LineNoFacts DEF Stages
  <2>3. ShellTypes'
    BY <1>2, <1>3, <2>1, <2>2 DEF ShellTypes, Typed
  <2> QED BY <1>2, <2>1, <2>3 DEF Typed, BufTypes
<1>6. CASE GoesToEnd
  <2>1. wfd' = 0 /\ i' = i /\ pc' \in {"waitlast", "prompt"} /\ fds' \in [Fds -> Ends4]
    BY <1>6 DEF GoesToEnd
  <2>2. ShellTypes'
    BY <1>2, <1>3, <2>1 DEF ShellTypes, Typed
  <2> QED BY <1>2, <2>1, <2>2 DEF Typed, BufTypes
<1> QED BY <1>5, <1>6, WaitSteps

LEMMA TypesWaitLast == ASSUME Typed, WaitLast PROVE Typed'
<1>1. /\ pc = "waitlast" /\ pc' = "prompt" /\ Reaps(line_no, i)
      /\ UNCHANGED <<eof, line_no, cmdline, i, before, after, wfd, outer, fds, buf>>
  BY WaitLastSteps
<1>2. kid' \in [LineNos -> [Stages -> Proc]]
  BY <1>1 DEF Reaps
<1>3. ~Busy'
  BY <1>1 DEF Busy
<1>4. ShellTypes'
  BY <1>1, <1>3 DEF ShellTypes, Typed
<1> QED BY <1>1, <1>2, <1>4 DEF Typed, BufTypes

LEMMA TypesOthers ==
  ASSUME Typed, \/ Rests \/ Quits \/ BuiltIns
                \/ \E l \in LineNos, s \in Stages : Commands(l, s)
  PROVE  Typed'
<1>1. CASE Rests
  BY <1>1 DEF Rests, Typed, ShellTypes, BufTypes, Busy
<1>2. CASE Quits
  <2>1. fds' \in [Fds -> Ends4]
    BY <1>2 DEF Quits, Ends4
  <2>2. ~Busy' /\ pc' = "exited"
    BY <1>2 DEF Quits, Busy
  <2> QED BY <1>2, <2>1, <2>2 DEF Quits, Typed, ShellTypes, BufTypes
<1>3. CASE BuiltIns
  <2>1. ~Busy' /\ line_no' \in 0..MaxLines
    BY <1>3, Bounds, LineNoFacts DEF BuiltIns, Busy
  <2> QED BY <1>3, <2>1 DEF BuiltIns, Typed, ShellTypes, BufTypes
<1>4. ASSUME NEW l \in LineNos, NEW s \in Stages, Commands(l, s)
      PROVE  Typed'
  <2>1. Going(l, s)
    BY <1>4, CommandsGo
  <2> QED BY <2>1 DEF Going, ShellSame, Typed, ShellTypes, Busy
<1> QED BY <1>1, <1>2, <1>3, <1>4

LEMMA TypesStep == ASSUME Typed, [NpNext]_npVars PROVE Typed'
  BY NextCases, TypesOthers, TypesParser, TypesFork, TypesClean, TypesWait, TypesWaitLast

LEMMA AlwaysTyped == NpSpec => [](Typed /\ NetTypes)
<1>1. Typed /\ NetTypes /\ [NpNext]_npVars => (Typed /\ NetTypes)'
  BY TypesStep, NetStep
<1> QED BY <1>1, TypesInit, PTL DEF NpSpec

\* Every variable of the server and of the shell it runs has its type, every pipe
\* holds at most its capacity, and every entry of the list of numbered pipes
\* has descriptors that pipe() gave out.
THEOREM TypeCorrect == NpSpec => []NpTypeOK
  BY AlwaysTyped, TypesImply, PTL
-----------------------------------------------------------------------------
(* Which commands have been started.                                       *)

\* All commands of line l have been started; no command of line m has.  (A line that
\* was setenv or printenv never starts one.)
Over(l) == l < line_no \/ (l = line_no /\ (~Busy \/ (Last /\ pc # "stage")))
Waiting(m) == ~(m \in LineNos /\ Started(m, 1))

\* The commands of a line are started in their order, and those of earlier lines first.
Queue ==
  /\ \A l \in LineNos : \A s, t \in Stages : Started(l, t) /\ s < t => Started(l, s)
  /\ \A l \in LineNos, s \in Stages : Started(l, s) => l <= line_no
  /\ Busy => \A s \in Stages : Started(line_no, s) <=> (s < i \/ (s = i /\ pc # "stage"))
  /\ pc = "waitlast" => Last

\* A line has one entry in the list; those of one destination share their pipe.
Entries ==
  /\ \A o, u \in Outer : o.from = u.from => o = u
  /\ \A o \in Outer : o.from <= line_no /\ o.from < o.dest
  /\ \A o, u \in Outer : o.dest = u.dest => o.rd = u.rd /\ o.wr = u.wr

\* The last command of line l that has been started.
IsLast(l, s) == Started(l, s) /\ (s < MaxStages => ~Started(l, s + 1))

LEMMA LastStageIs ==
  ASSUME Queue, NEW l \in LineNos, NEW n \in Stages, Started(l, n)
  PROVE  /\ LastStage(l) \in Stages /\ IsLast(l, LastStage(l))
         /\ \A s \in Stages : IsLast(l, s) => s = LastStage(l)
<1> DEFINE S == {t \in 1..(MaxStages + 1) : t > n /\ (t = MaxStages + 1 \/ ~Started(l, t))}
<1>1. S \in SUBSET Nat /\ MaxStages + 1 \in S
  BY Bounds
<1>2. PICK m \in S : \A t \in S : m <= t
  BY <1>1, Least
<1>3. m \in 1..(MaxStages + 1) /\ m > n /\ (m = MaxStages + 1 \/ ~Started(l, m))
  BY <1>2
<1>4. m - 1 \in Stages /\ m - 1 >= n
  BY <1>3, Bounds DEF Stages
<1>5. Started(l, m - 1)
  <2>1. CASE m - 1 = n
    BY <2>1
  <2>2. CASE m - 1 > n
    <3>1. m - 1 \in 1..(MaxStages + 1) /\ m - 1 # MaxStages + 1 /\ ~(m <= m - 1)
      BY <1>3, <1>4, Bounds
    <3>2. m - 1 \notin S
      BY <1>2, <3>1
    <3> QED BY <2>2, <3>1, <3>2
  <2> QED BY <1>4, <2>1, <2>2, Bounds
<1>6. m - 1 < MaxStages => ~Started(l, (m - 1) + 1)
  <2>1. (m - 1) + 1 = m /\ (m - 1 < MaxStages => m # MaxStages + 1)
    BY <1>3, Bounds
  <2> QED BY <1>3, <2>1
<1>7. \E s \in Stages : Started(l, s) /\ (s < MaxStages => ~Started(l, s + 1))
  BY <1>4, <1>5, <1>6
<1>8. LastStage(l) \in Stages /\ IsLast(l, LastStage(l))
  BY <1>7 DEF LastStage, IsLast
<1>9. ASSUME NEW s \in Stages, NEW t \in Stages, IsLast(l, s), IsLast(l, t), s < t
      PROVE  FALSE
  <2>1. s + 1 \in Stages /\ s < MaxStages /\ (s + 1 = t \/ s + 1 < t)
    BY <1>9, Bounds DEF Stages
  <2>2. Started(l, t) /\ ~Started(l, s + 1)
    BY <1>9, <2>1 DEF IsLast
  <2> QED BY <2>1, <2>2 DEF Queue
<1>10. \A s \in Stages : IsLast(l, s) => s = LastStage(l)
  <2> SUFFICES ASSUME NEW s \in Stages, IsLast(l, s), s # LastStage(l) PROVE FALSE
    OBVIOUS
  <2>1. s < LastStage(l) \/ LastStage(l) < s
    BY <1>8, Bounds
  <2> QED BY <1>8, <1>9, <2>1
<1> QED BY <1>8, <1>10

LEMMA QueueInit == ASSUME NpInit PROVE Queue /\ Entries
<1> USE DEF NpInit, Init
<1>1. Outer = {} /\ ~Busy
  BY DEF Outer, Busy
<1>2. \A l \in LineNos, s \in Stages : ~Started(l, s)
  BY DEF Started, NoKid
<1> QED BY <1>1, <1>2 DEF Queue, Entries

\* Nobody is started by a step that keeps the jobs.
LEMMA SameStarted ==
  ASSUME SameJobs
  PROVE  \A l \in LineNos, s \in Stages : Started(l, s)' <=> Started(l, s)
  BY DEF SameJobs, Started

LEMMA SameSame == ASSUME UNCHANGED kid PROVE SameJobs
  BY DEF SameJobs

LEMMA FromDest ==
  ASSUME Typed
  PROVE  \A o \in Outer : o.from \in Nat /\ o.dest \in Nat /\ (o.dest <= line_no => o.dest \in LineNos \cup {0})
  BY OuterFacts, Bounds, LineNoFacts DEF Typed, ShellTypes, LineNos

LEMMA QueueParser ==
  ASSUME Typed, Queue, Entries, NEW l \in Lines, Parser(l)
  PROVE  Queue' /\ Entries'
<1>1. Reads(l)
  BY ParserSteps
<1>2. /\ pc = "prompt" /\ pc' = "stage" /\ line_no' = line_no + 1 /\ i' = 1 /\ kid' = kid
      /\ line_no + 1 \in LineNos
  BY <1>1 DEF Reads
<1>3. /\ \A m \in LineNos, s \in Stages : Started(m, s)' <=> Started(m, s)
  BY <1>2, SameSame, SameStarted
<1>4. Queue'
  <2>1. \A m \in LineNos : \A s, t \in Stages : Started(m, t)' /\ s < t => Started(m, s)'
    BY <1>3 DEF Queue
  <2>2. \A m \in LineNos, s \in Stages : Started(m, s)' => m <= line_no'
    BY <1>2, <1>3, Bounds, LineNoFacts DEF Queue
  <2>3. \A s \in Stages : ~Started(line_no + 1, s)
    BY <1>2, LineNoFacts DEF Queue
  <2>4. \A s \in Stages : ~(s < 1)
    BY Bounds
  <2>5. \A s \in Stages : Started(line_no, s)' <=> (s < i' \/ (s = i' /\ pc' # "stage"))
    BY <1>2, <2>3, <2>4 DEF Started
  <2>6. pc' # "waitlast"
    BY <1>2
  <2> QED BY <2>1, <2>2, <2>5, <2>6 DEF Queue
<1>5. \A o \in Outer : /\ o.from <= line_no' /\ o.from < o.dest /\ o.from # line_no + 1
  BY <1>2, LineNoFacts, FromDest DEF Entries
<1>7. CASE NoPipe
  <2>1. Outer' = Outer
    BY <1>7 DEF NoPipe, Outer
  <2> QED BY <1>4, <1>5, <2>1 DEF Entries
<1>8. ASSUME NEW e \in Entry, Adds(e)
      PROVE  Entries'
  <2>1. Outer' = Outer \cup {e} /\ e.from = line_no + 1 /\ e.dest > line_no + 1
    BY <1>8, AppendOuter DEF Adds
  <2>2. \A o, u \in Outer' : o.from = u.from => o = u
    BY <1>5, <2>1 DEF Entries
  <2>3. \A o \in Outer' : o.from <= line_no' /\ o.from < o.dest
    BY <1>2, <1>5, <2>1, LineNoFacts
  <2>4. \A o \in Outer : o.dest = e.dest => o.rd = e.rd /\ o.wr = e.wr
    BY <1>8 DEF Adds, Joins, Fresh, Entries
  <2>5. \A o, u \in Outer' : o.dest = u.dest => o.rd = u.rd /\ o.wr = u.wr
    BY <2>1, <2>4 DEF Entries
  <2> QED BY <2>2, <2>3, <2>5 DEF Entries
<1> QED BY <1>4, <1>7, <1>8, ParserSteps


\* A fork starts one command.
LEMMA ForkStarts ==
  ASSUME Typed, NEW k \in Proc, Starts(k), k.st = "run"
  PROVE  /\ line_no \in LineNos /\ i \in Stages /\ kid'[line_no][i] = k
         /\ \A l \in LineNos, s \in Stages : l # line_no \/ s # i => kid'[l][s] = kid[l][s]
         /\ \A l \in LineNos, s \in Stages :
              Started(l, s)' <=> (Started(l, s) \/ (l = line_no /\ s = i))
<1>1. line_no \in LineNos /\ i \in Stages
  BY DEF Starts
<1>2. /\ kid'[line_no][i] = k
      /\ \A l \in LineNos, s \in Stages : l # line_no \/ s # i => kid'[l][s] = kid[l][s]
  BY <1>1, KidPut DEF Starts, Typed
<1>3. \A l \in LineNos, s \in Stages :
              Started(l, s)' <=> (Started(l, s) \/ (l = line_no /\ s = i))
  BY <1>1, <1>2 DEF Started
<1> QED BY <1>1, <1>2, <1>3

LEMMA QueueFork ==
  ASSUME Typed, Queue, Entries, ForkProcess
  PROVE  Queue' /\ Entries'
<1>1. PICK k \in Proc : Starts(k) /\ k.st = "run"
  BY ForkSteps DEF StartsLast, StartsMore, Young
<1>2. /\ pc = "stage" /\ pc' = "clean" /\ UNCHANGED <<line_no, cmdline, i, outer>>
  BY <1>1 DEF Starts
<1>3. /\ line_no \in LineNos /\ i \in Stages
      /\ \A l \in LineNos, s \in Stages :
              Started(l, s)' <=> (Started(l, s) \/ (l = line_no /\ s = i))
  BY <1>1, ForkStarts
<1>4. \A s \in Stages : Started(line_no, s) <=> s < i
  BY <1>2 DEF Queue, Busy
<1>5. Queue'
  <2>1. \A l \in LineNos : \A s, t \in Stages : Started(l, t)' /\ s < t => Started(l, s)'
    BY <1>3, <1>4 DEF Queue
  <2>2. \A l \in LineNos, s \in Stages : Started(l, s)' => l <= line_no'
    BY <1>2, <1>3, LineNoFacts DEF Queue
  <2>3. \A s \in Stages : Started(line_no, s)' <=> (s < i' \/ (s = i' /\ pc' # "stage"))
    BY <1>2, <1>3, <1>4 DEF Started
  <2> QED BY <1>2, <2>1, <2>2, <2>3 DEF Queue
<1>6. Outer' = Outer
  BY <1>2 DEF Outer
<1>8. /\ \A o \in Outer : o.from <= line_no' /\ o.from < o.dest
  BY <1>2 DEF Entries
<1>9. Entries'
  BY <1>6, <1>8 DEF Entries
<1> QED BY <1>5, <1>9

LEMMA QueueClean ==
  ASSUME Typed, Queue, Entries, CleanUp
  PROVE  Queue' /\ Entries'
<1>1. /\ pc = "clean" /\ pc' = "wait" /\ UNCHANGED <<line_no, cmdline, i, outer, kid>>
  BY CleanSteps DEF Cleans
<1>2. Outer' = Outer
  BY <1>1 DEF Outer
<1>3. Queue'
  BY <1>1 DEF Queue, Busy, Started
<1>4. Entries'
  BY <1>1, <1>2 DEF Entries
<1> QED BY <1>3, <1>4

LEMMA QueueWait ==
  ASSUME Typed, Queue, Entries, WaitPrevious
  PROVE  Queue' /\ Entries'
<1>1. WaitsOver
  BY WaitSteps DEF GoesToNext, GoesToEnd
<1>2. /\ pc = "wait" /\ UNCHANGED <<line_no, cmdline, outer>> /\ SameJobs
  BY <1>1, SameSame DEF WaitsOver, Reaps
<1>3. Outer' = Outer
  BY <1>2 DEF Outer
<1>4. \A l \in LineNos, s \in Stages : Started(l, s)' <=> Started(l, s)
  BY <1>2, SameStarted
<1>5. line_no \in LineNos /\ \A s \in Stages : Started(line_no, s) <=> (s < i \/ s = i)
  BY <1>1, <1>2 DEF WaitsOver, Queue, Busy
<1>6. /\ \A l \in LineNos : \A s, t \in Stages : Started(l, t)' /\ s < t => Started(l, s)'
      /\ \A l \in LineNos, s \in Stages : Started(l, s)' => l <= line_no'
  BY <1>2, <1>4 DEF Queue
<1>7. /\ \A o, u \in Outer : o.from = u.from => o = u
      /\ \A o \in Outer : o.from <= line_no /\ o.from < o.dest
      /\ \A o, u \in Outer : o.dest = u.dest => o.rd = u.rd /\ o.wr = u.wr
  BY DEF Entries
<1>9. Entries'
  BY <1>2, <1>3, <1>7 DEF Entries
<1>10. CASE GoesToNext
  <2>1. i' = i + 1 /\ pc' = "stage"
    BY <1>10 DEF GoesToNext
  <2>2. \A s \in Stages : (s < i \/ s = i) <=> s < i'
    BY <2>1, LineNoFacts, Bounds
  <2>3. \A s \in Stages : Started(line_no, s)' <=> s < i'
    BY <1>2, <1>4, <1>5, <2>2 DEF Started
  <2>4. \A s \in Stages : Started(line_no, s)' <=> (s < i' \/ (s = i' /\ pc' # "stage"))
    BY <2>1, <2>3
  <2>5. pc' # "waitlast"
    BY <2>1
  <2>6. Queue'
    BY <1>6, <2>4, <2>5 DEF Queue
  <2> QED BY <1>9, <2>6
<1>11. CASE GoesToEnd
  <2>1. i' = i /\ Last /\ pc' \in {"waitlast", "prompt"}
    BY <1>11 DEF GoesToEnd
  <2>2. Last'
    BY <1>2, <2>1 DEF Last
  <2>3. \A s \in Stages : Started(line_no, s)' <=> (s < i' \/ (s = i' /\ pc' # "stage"))
    BY <1>2, <1>4, <1>5, <2>1 DEF Started
  <2>4. Queue'
    BY <1>6, <2>2, <2>3 DEF Queue
  <2> QED BY <1>9, <2>4
<1> QED BY <1>10, <1>11, WaitSteps

LEMMA QueueWaitLast ==
  ASSUME Typed, Queue, Entries, WaitLast
  PROVE  Queue' /\ Entries'
<1>1. /\ pc = "waitlast" /\ pc' = "prompt" /\ SameJobs
      /\ UNCHANGED <<line_no, cmdline, i, outer>>
  BY WaitLastSteps DEF Reaps
<1>2. Outer' = Outer /\ ~Busy'
  BY <1>1 DEF Outer, Busy
<1>3. \A l \in LineNos, s \in Stages : Started(l, s)' <=> Started(l, s)
  BY <1>1, SameStarted
<1>4. Queue'
  BY <1>1, <1>2, <1>3 DEF Queue
<1>6. Entries'
  BY <1>1, <1>2 DEF Entries
<1> QED BY <1>4, <1>6

LEMMA QueueSame ==
  ASSUME Typed, Queue, Entries, UNCHANGED <<pc, line_no, cmdline, i, outer>>, SameJobs
  PROVE  Queue' /\ Entries'
<1>1. Outer' = Outer /\ (Busy' <=> Busy) /\ (Last' <=> Last)
  BY DEF Outer, Busy, Last
<1>2. \A l \in LineNos, s \in Stages : Started(l, s)' <=> Started(l, s)
  BY SameStarted
<1>3. /\ \A l \in LineNos : \A s, t \in Stages : Started(l, t)' /\ s < t => Started(l, s)'
      /\ \A l \in LineNos, s \in Stages : Started(l, s)' => l <= line_no'
  BY <1>2 DEF Queue
<1>4. Busy => \A s \in Stages : Started(line_no, s)' <=> (s < i \/ (s = i /\ pc # "stage"))
  BY <1>2 DEF Queue, Typed, ShellTypes, Started
<1>5. Queue'
  BY <1>1, <1>3, <1>4 DEF Queue, Started
<1>7. Entries'
  BY <1>1 DEF Entries
<1> QED BY <1>5, <1>7

LEMMA QueueOthers ==
  ASSUME Typed, Queue, Entries,
         \/ Rests \/ Quits \/ BuiltIns
         \/ \E l \in LineNos, s \in Stages : Commands(l, s)
  PROVE  Queue' /\ Entries'
<1>1. CASE Rests
  BY <1>1, SameSame, QueueSame DEF Rests
<1>2. CASE Quits
  <2>1. /\ pc = "prompt" /\ pc' = "exited" /\ UNCHANGED <<line_no, outer, kid>>
    BY <1>2 DEF Quits
  <2>2. Outer' = Outer /\ ~Busy'
    BY <2>1 DEF Outer, Busy
  <2>3. Queue'
    BY <2>1, <2>2 DEF Queue, Started
  <2>4. Entries'
    BY <2>1, <2>2 DEF Entries
  <2> QED BY <2>3, <2>4
<1>3. CASE BuiltIns
  <2>1. /\ pc = "prompt" /\ pc' = "prompt" /\ UNCHANGED <<outer, kid>> /\ line_no' = line_no + 1
    BY <1>3 DEF BuiltIns
  <2>2. Outer' = Outer /\ ~Busy'
    BY <2>1 DEF Outer, Busy
  <2>3. \A l \in LineNos, s \in Stages : Started(l, s) => l <= line_no'
    BY <2>1, LineNoFacts, Bounds DEF Queue
  <2>4. Queue'
    BY <2>1, <2>2, <2>3 DEF Queue, Started
  <2>5. \A o \in Outer : o.from <= line_no' /\ o.from < o.dest
    BY <2>1, LineNoFacts, FromDest DEF Entries
  <2>6. Entries'
    BY <2>1, <2>2, <2>5 DEF Entries
  <2> QED BY <2>4, <2>6
<1>4. ASSUME NEW l \in LineNos, NEW s \in Stages, Commands(l, s)
      PROVE  Queue' /\ Entries'
  <2>1. ShellSame /\ SameJobs
    BY <1>4, CommandsGo DEF Going
  <2> QED BY <2>1, QueueSame DEF ShellSame
<1> QED BY <1>1, <1>2, <1>3, <1>4

LEMMA QueueStep == ASSUME Typed, Queue, Entries, [NpNext]_npVars PROVE Queue' /\ Entries'
  BY NextCases, QueueOthers, QueueParser, QueueFork, QueueClean, QueueWait, QueueWaitLast

LEMMA AlwaysQueue == NpSpec => [](Queue /\ Entries)
<1>1. NpInit => Queue /\ Entries
  BY QueueInit
<1>2. Typed /\ Queue /\ Entries /\ [NpNext]_npVars => (Queue /\ Entries)'
  BY QueueStep
<1> QED BY <1>1, <1>2, AlwaysTyped, PTL DEF NpSpec

\* The lines to come wait, and so does every line that waits when nobody is started.
LEMMA LaterWaits ==
  ASSUME Typed, Queue PROVE \A m \in Nat : m > line_no => Waiting(m)
<1> SUFFICES ASSUME NEW m \in LineNos, m > line_no, Started(m, 1) PROVE FALSE
  BY DEF Waiting
<1>1. m <= line_no
  BY Bounds DEF Queue
<1> QED BY <1>1, Bounds, LineNoFacts

LEMMA WaitingSame == ASSUME SameJobs PROVE \A m \in Nat : Waiting(m)' <=> Waiting(m)
<1> SUFFICES ASSUME NEW m \in LineNos PROVE Waiting(m)' <=> Waiting(m)
  BY DEF Waiting
<1>1. Started(m, 1)' <=> Started(m, 1)
  BY SameStarted, Bounds
<1> QED BY <1>1 DEF Waiting

\* A line that has started its first command does not wait.
LEMMA LineStarted ==
  ASSUME Typed, Queue, Busy, pc # "stage" \/ i # 1
  PROVE  line_no \in LineNos /\ Started(line_no, 1) /\ ~Waiting(line_no)
<1>1. line_no \in LineNos /\ 1 \in Stages
  BY Bounds DEF Typed, ShellTypes
<1>2. 1 < i \/ (1 = i /\ pc # "stage")
  BY LineNoFacts
<1> QED BY <1>1, <1>2 DEF Queue, Waiting
-----------------------------------------------------------------------------
(* Nothing leaks.                                                          *)

Open == {f \in Fds : fds[f] # Shut}
AfterFds == {after[1], after[2]} \ {0, 1}

\* No close_used_pipes of the line that runs, if one runs, is meant for a pipe that
\* ends at line m; of all pipes that were not closed yet, the others end at this line.
Stays(m) == Waiting(m) /\ ~(Busy /\ m = line_no)
Kept(m) == Waiting(m) \/ m = line_no

\* The descriptors that have to stay open through the line.
Coming == UNION {OuterFds(o) : o \in {u \in Outer : Stays(u.dest)}}
Live == Inherited \cup Coming

\* The file is only open between its fork and the end of the line; the pair of pipe
\* descriptors moves on with the commands.
Shape == /\ pc \in {"prompt", "stage", "waitlast"} => wfd = 0
         /\ pc \in {"clean", "wait"} /\ ~Last => wfd = 0
         /\ pc \in {"stage", "wait"} => before = after
         /\ pc \in {"stage", "clean"} /\ i = 1 => before = <<0, 1>>

\* No number is used twice at the same time: pipes of different lines that were not
\* closed have different ones, and none that is inherited or that the line itself uses.
Apart ==
  /\ \A o, u \in Outer : Kept(o.dest) /\ Kept(u.dest) /\ o.dest # u.dest
                           => OuterFds(o) \cap OuterFds(u) = {}
  /\ \A o \in Outer : Kept(o.dest) => OuterFds(o) \cap Inherited = {}
Numbers ==
  /\ Apart
  /\ Busy => (BeforeFds \cup AfterFds \cup {wfd}) \cap Live = {}

\* What is open besides Live, by how far the line is.
Extra == CASE pc = "stage" -> BeforeFds \cup (IF i = 1 THEN Due ELSE {})
           [] pc = "clean" -> BeforeFds \cup Due \cup (IF Last THEN {wfd} ELSE AfterFds)
           [] pc = "wait"  -> IF Last THEN {wfd} ELSE AfterFds
           [] OTHER        -> {}
OpenOnes == /\ pc # "exited" => Live \subseteq Open /\ Open \subseteq Live \cup Extra
            /\ pc = "stage" /\ i = 1 => Due \subseteq Open

LeakInv == Shape /\ Numbers /\ OpenOnes

LEMMA InDue == ASSUME NEW f
               PROVE  f \in Due <=> \E o \in Outer : o.dest = line_no /\ f \in OuterFds(o)
  BY DEF Due
LEMMA InComing == ASSUME NEW f
                  PROVE  f \in Coming <=> \E o \in Outer : Stays(o.dest) /\ f \in OuterFds(o)
  BY DEF Coming
LEMMA InDueNext ==
  ASSUME NEW f
  PROVE  f \in Due' <=> \E o \in Outer' : o.dest = line_no' /\ f \in OuterFds(o)
  BY DEF Due, OuterFds
LEMMA InComingNext ==
  ASSUME NEW f
  PROVE  f \in Coming' <=> \E o \in Outer' : Stays(o.dest)' /\ f \in OuterFds(o)
  BY DEF Coming, OuterFds, Stays, Waiting, Started, Busy

LEMMA LiveFds == ASSUME Typed PROVE Live \subseteq Fds /\ Due \subseteq Fds /\ Coming \subseteq Fds
<1>1. \A o \in Outer : OuterFds(o) \subseteq Fds
  BY OuterFacts DEF OuterFds
<1> QED BY <1>1, InDue, InComing, Bounds DEF Live

\* A line's own input is not that of a later line.
LEMMA DueApart == ASSUME Typed, Numbers, Busy PROVE Due \cap Live = {}
<1>1. ASSUME NEW f \in Due, f \in Live
      PROVE  FALSE
  <2>1. PICK o \in Outer : o.dest = line_no /\ f \in OuterFds(o)
    BY InDue
  <2>2. f \notin Inherited
    BY <2>1 DEF Numbers, Apart, Kept
  <2>3. PICK u \in Outer : Stays(u.dest) /\ f \in OuterFds(u)
    BY <1>1, <2>2, InComing DEF Live
  <2>4. o.dest # u.dest /\ Kept(o.dest) /\ Kept(u.dest)
    BY <2>1, <2>3 DEF Stays, Kept
  <2> QED BY <2>1, <2>3, <2>4 DEF Numbers, Apart
<1> QED BY <1>1

LEMMA LeakInit == ASSUME NpInit PROVE LeakInv
<1> USE DEF NpInit, Init
<1>1. Outer = {}
  BY DEF Outer
<1>2. Due = {} /\ Coming = {}
  BY <1>1 DEF Due, Coming
<1>3. Shape
  BY DEF Shape
<1>4. Numbers
  BY <1>1 DEF Numbers, Apart, Busy
<1>5. Live = Inherited
  BY <1>2 DEF Live
<1>6. Open = Inherited
  BY EndFacts, Bounds DEF Open
<1>7. OpenOnes
  BY <1>2, <1>5, <1>6 DEF OpenOnes
<1> QED BY <1>3, <1>4, <1>7 DEF LeakInv

\* At the prompt, the lines that wait are those to come and those that were built-ins.
LEMMA LeakImplies == ASSUME Typed, Queue, Entries, LeakInv PROVE NoLeak
<1> DEFINE Out == {u \in Outer : u.dest > line_no \/ WasBuiltIn(u.dest)}
<1> SUFFICES ASSUME pc = "prompt"
             PROVE  Open = Inherited \cup UNION {{o.rd, o.wr} : o \in Out}
  BY DEF NoLeak, Open
<1>1. ASSUME NEW u \in Outer
      PROVE  Stays(u.dest) <=> u.dest > line_no \/ WasBuiltIn(u.dest)
  <2>1. u.dest \in Nat /\ u.dest >= 1
    BY OuterFacts, Bounds DEF Entries
  <2>2. Stays(u.dest) <=> Waiting(u.dest)
    BY DEF Stays, Busy
  <2>3. u.dest > line_no => Waiting(u.dest)
    BY <2>1, LaterWaits
  <2>4. ~(u.dest > line_no) => u.dest \in 1..line_no /\ u.dest \in LineNos
    BY <2>1, Bounds, LineNoFacts DEF Typed, ShellTypes, LineNos
  <2>5. ~(u.dest > line_no) => (Waiting(u.dest) <=> WasBuiltIn(u.dest))
    BY <2>4 DEF Waiting, WasBuiltIn
  <2>6. u.dest > line_no => ~WasBuiltIn(u.dest)
    BY <2>1, LineNoFacts DEF WasBuiltIn
  <2> QED BY <2>2, <2>3, <2>5, <2>6
<1>2. Out = {u \in Outer : Stays(u.dest)}
  BY <1>1
<1>3. Coming = UNION {{o.rd, o.wr} : o \in Out}
  BY <1>2 DEF Coming, OuterFds
<1>4. Extra = {}
  BY DEF Extra
<1> QED BY <1>3, <1>4 DEF LeakInv, OpenOnes, Live

\* When a line is read, those that wait besides it are those that stay.
LEMMA StaysParser ==
  ASSUME Typed, Queue, pc = "prompt", pc' = "stage", line_no' = line_no + 1, kid' = kid
  PROVE  \A m \in Nat : /\ Stays(m) <=> m = line_no' \/ Stays(m)'
                        /\ Stays(m)' => m # line_no'
                        /\ Stays(m) <=> Kept(m)'
                        /\ Stays(m) => Kept(m)
                        /\ m > line_no + 1 => Stays(m) /\ Stays(m)'
<1> SUFFICES ASSUME NEW m \in Nat
             PROVE  /\ Stays(m) <=> m = line_no' \/ Stays(m)'
                    /\ Stays(m)' => m # line_no'
                    /\ Stays(m) <=> Kept(m)'
                    /\ Stays(m) => Kept(m)
                    /\ m > line_no + 1 => Stays(m) /\ Stays(m)'
  OBVIOUS
<1>1. ~Busy /\ Busy'
  BY DEF Busy
<1>2. Waiting(m)' <=> Waiting(m)
  BY SameSame, WaitingSame
<1>3. m >= line_no + 1 => Waiting(m)
  BY LaterWaits, LineNoFacts
<1>4. m > line_no + 1 => m >= line_no + 1 /\ m # line_no + 1
  BY LineNoFacts
<1>5. m = line_no + 1 => m >= line_no + 1
  BY LineNoFacts
<1> QED BY <1>1, <1>2, <1>3, <1>4, <1>5 DEF Stays, Kept

\* The pipes of the lines that wait become the line's own and those that stay.
LEMMA LiveParser ==
  ASSUME Typed, Queue, pc = "prompt", pc' = "stage", line_no' = line_no + 1, kid' = kid,
         outer' = outer
  PROVE  Coming = Due' \cup Coming'
<1>1. Outer' = Outer
  BY DEF Outer
<1>2. \A o \in Outer : Stays(o.dest) <=> o.dest = line_no' \/ Stays(o.dest)'
  BY StaysParser, OuterFacts
<1>3. ASSUME NEW f
      PROVE  f \in Coming <=> f \in Due' \cup Coming'
  BY <1>1, <1>2, InComing, InDueNext, InComingNext
<1> QED BY <1>3

LEMMA LiveAdds ==
  ASSUME Typed, Queue, pc = "prompt", pc' = "stage", line_no' = line_no + 1, kid' = kid,
         NEW e \in Entry, Adds(e)
  PROVE  Coming \cup OuterFds(e) = Due' \cup Coming'
<1>1. Outer' = Outer \cup {e}
  BY AppendOuter DEF Adds
<1>2. \A o \in Outer : Stays(o.dest) <=> o.dest = line_no' \/ Stays(o.dest)'
  BY StaysParser, OuterFacts
<1>3. Stays(e.dest)' /\ e.dest # line_no'
  BY StaysParser DEF Adds, Entry
<1>4. ASSUME NEW f
      PROVE  f \in Coming \cup OuterFds(e) <=> f \in Due' \cup Coming'
  <2>1. f \in Coming' <=> \E o \in Outer \cup {e} : Stays(o.dest)' /\ f \in OuterFds(o)
    BY <1>1, InComingNext
  <2>2. f \in Due' <=> \E o \in Outer \cup {e} : o.dest = line_no' /\ f \in OuterFds(o)
    BY <1>1, InDueNext
  <2>3. f \in Coming => f \in Due' \cup Coming'
    BY <1>2, <2>1, <2>2, InComing
  <2>4. f \in OuterFds(e) => f \in Coming'
    BY <1>3, <2>1
  <2>5. f \in Due' => f \in Coming \cup OuterFds(e)
    BY <1>2, <2>2, InComing
  <2>6. f \in Coming' => f \in Coming \cup OuterFds(e)
    BY <1>2, <2>1, InComing
  <2> QED BY <2>3, <2>4, <2>5, <2>6
<1> QED BY <1>4

\* At the prompt.
LEMMA AtPrompt ==
  ASSUME Typed, LeakInv, pc = "prompt"
  PROVE  /\ Open = Live /\ wfd = 0 /\ ~Busy
         /\ \A o \in Outer : Stays(o.dest) => OuterFds(o) \subseteq Open
<1>1. Extra = {}
  BY DEF Extra
<1>2. Open = Live /\ wfd = 0 /\ ~Busy
  BY <1>1 DEF LeakInv, OpenOnes, Shape, Busy
<1> QED BY <1>2, InComing DEF Live

\* The entry of a line has numbers of its own, or those of its destination's pipe.
LEMMA ApartParser ==
  ASSUME Typed, Queue, LeakInv, pc = "prompt", pc' = "stage", line_no' = line_no + 1,
         kid' = kid, \/ Outer' = Outer
                    \/ \E e \in Entry : Adds(e)
  PROVE  Apart'
<1>1. \A m \in Nat : (Stays(m) <=> Kept(m)') /\ (Stays(m) => Kept(m))
  BY StaysParser
<1>2. /\ \A o, u \in Outer : Stays(o.dest) /\ Stays(u.dest) /\ o.dest # u.dest
                           => OuterFds(o) \cap OuterFds(u) = {}
      /\ \A o \in Outer : Stays(o.dest) => OuterFds(o) \cap Inherited = {}
  BY <1>1, OuterFacts DEF LeakInv, Numbers, Apart
<1>3. /\ \A o, u \in Outer' : Stays(o.dest) /\ Stays(u.dest) /\ o.dest # u.dest
                           => OuterFds(o) \cap OuterFds(u) = {}
      /\ \A o \in Outer' : Stays(o.dest) => OuterFds(o) \cap Inherited = {}
      /\ \A o \in Outer' : o.dest \in Nat
  <2>1. CASE Outer' = Outer
    BY <1>2, <2>1, OuterFacts
  <2>2. ASSUME NEW e \in Entry, Adds(e)
        PROVE  <1>3
    <3>1. Outer' = Outer \cup {e} /\ e.dest \in Nat
      BY <2>2, AppendOuter DEF Adds, Entry
    <3>2. Stays(e.dest)
      BY <2>2, StaysParser DEF Adds, Entry
    <3>3. /\ \A o \in Outer : Stays(o.dest) /\ o.dest # e.dest
                            => OuterFds(o) \cap OuterFds(e) = {}
          /\ OuterFds(e) \cap Inherited = {}
      <4>1. CASE Joins(e)
        <5>1. PICK o \in Outer : o.dest = e.dest /\ o.rd = e.rd /\ o.wr = e.wr
          BY <4>1 DEF Joins
        <5>2. OuterFds(o) = OuterFds(e) /\ Stays(o.dest)
          BY <3>2, <5>1 DEF OuterFds
        <5> QED BY <1>2, <5>1, <5>2
      <4>2. CASE Fresh(e)
        <5>1. OuterFds(e) \cap Open = {}
          BY <4>2 DEF Fresh, Opens, OuterFds, Open
        <5> QED BY <5>1, AtPrompt DEF Live
      <4> QED BY <2>2, <4>1, <4>2 DEF Adds
    <3> QED BY <1>2, <3>1, <3>3, OuterFacts
  <2> QED BY <2>1, <2>2
<1>4. \A o \in Outer' : Kept(o.dest)' => Stays(o.dest)
  BY <1>1, <1>3
<1> QED BY <1>3, <1>4 DEF Apart, OuterFds, Kept, Waiting, Started

LEMMA LeakParser ==
  ASSUME Typed, Queue, LeakInv, NEW l \in Lines, Parser(l)
  PROVE  LeakInv'
<1>1. Reads(l)
  BY ParserSteps
<1>2. /\ pc = "prompt" /\ pc' = "stage" /\ line_no' = line_no + 1 /\ i' = 1
      /\ before' = <<0, 1>> /\ after' = <<0, 1>> /\ wfd' = wfd /\ kid' = kid
  BY <1>1 DEF Reads
<1>3. Open = Live /\ wfd = 0
  BY <1>2, AtPrompt
<1>4. Shape'
  BY <1>2, <1>3 DEF Shape
<1>5. BeforeFds' = {} /\ AfterFds' = {}
  BY <1>2 DEF BeforeFds, AfterFds
<1>6. Extra' = Due'
  BY <1>2, <1>5 DEF Extra
<1>7. Apart'
  <2>1. CASE NoPipe
    <3>1. Outer' = Outer
      BY <2>1 DEF NoPipe, Outer
    <3> QED BY <1>2, <3>1, ApartParser
  <2>2. CASE \E e \in Entry : Adds(e)
    BY <1>2, <2>2, ApartParser
  <2> QED BY <2>1, <2>2, ParserSteps
<1>8. Open' = Inherited \cup Due' \cup Coming'
  <2>1. CASE NoPipe
    <3>1. Open' = Open
      BY <2>1 DEF NoPipe, Open
    <3>2. Coming = Due' \cup Coming'
      BY <1>2, <2>1, LiveParser DEF NoPipe
    <3> QED BY <1>3, <3>1, <3>2 DEF Live
  <2>2. ASSUME NEW e \in Entry, Adds(e)
        PROVE  <1>8
    <3>1. Coming \cup OuterFds(e) = Due' \cup Coming'
      BY <1>2, <2>2, LiveAdds
    <3>2. Open' = Open \cup OuterFds(e)
      <4>1. CASE Joins(e)
        <5>1. PICK o \in Outer : o.dest = e.dest /\ o.rd = e.rd /\ o.wr = e.wr
          BY <4>1 DEF Joins
        <5>2. OuterFds(o) = OuterFds(e) /\ Stays(o.dest)
          BY <1>2, <2>2, <5>1, StaysParser DEF OuterFds, Adds, Entry
        <5>3. OuterFds(e) \subseteq Open
          BY <1>2, <5>1, <5>2, AtPrompt
        <5>4. Open' = Open
          BY <4>1 DEF Joins, Open
        <5> QED BY <5>3, <5>4
      <4>2. CASE Fresh(e)
        <5>1. PICK p \in Pipes : Opens(e.rd, e.wr, p)
          BY <4>2 DEF Fresh
        <5>2. /\ e.rd \in Fds /\ e.wr \in Fds /\ fds'[e.rd] # Shut /\ fds'[e.wr] # Shut
              /\ \A f \in Fds : f # e.rd /\ f # e.wr => fds'[f] = fds[f]
          BY <5>1, EndFacts DEF Opens
        <5>3. ASSUME NEW f
              PROVE  f \in Open' <=> f \in Open \cup OuterFds(e)
          BY <5>2 DEF Open, OuterFds
        <5> QED BY <5>3
      <4> QED BY <2>2, <4>1, <4>2 DEF Adds
    <3> QED BY <1>3, <3>1, <3>2 DEF Live
  <2> QED BY <2>1, <2>2, ParserSteps
<1>9. OpenOnes'
  BY <1>2, <1>6, <1>8 DEF OpenOnes, Live
<1>10. (BeforeFds' \cup AfterFds' \cup {wfd'}) \cap Live' = {}
  <2>1. 0 \notin Live'
    BY <1>8, Bounds DEF Live, Open
  <2> QED BY <1>2, <1>3, <1>5, <2>1
<1>11. Numbers'
  BY <1>7, <1>10 DEF Numbers, OuterFds
<1> QED BY <1>4, <1>9, <1>11 DEF LeakInv


\* The pipes of the same lines stay.
Steady == \A m \in Nat : (Stays(m)' <=> Stays(m)) /\ (Kept(m)' <=> Kept(m))

\* They do if nobody is started, and if this line goes on or its first command has been
\* started when it ends.
LEMMA SteadySame ==
  ASSUME SameJobs, line_no' = line_no, Busy' <=> Busy PROVE Steady
  BY WaitingSame DEF Steady, Stays, Kept

LEMMA SteadyBusy ==
  ASSUME line_no' = line_no, Busy, Busy' \/ ~Waiting(line_no)',
         \A m \in Nat : m # line_no => (Waiting(m)' <=> Waiting(m))
  PROVE  Steady
<1> SUFFICES ASSUME NEW m \in Nat
             PROVE  (Stays(m)' <=> Stays(m)) /\ (Kept(m)' <=> Kept(m))
  BY DEF Steady
<1>1. CASE m = line_no
  BY <1>1 DEF Stays, Kept
<1>2. CASE m # line_no
  BY <1>2 DEF Stays, Kept
<1> QED BY <1>1, <1>2

\* The list of pipes is the same, and so is the line.
LEMMA SameDue ==
  ASSUME outer' = outer, line_no' = line_no PROVE Outer' = Outer /\ Due' = Due
<1>1. Outer' = Outer
  BY DEF Outer
<1> QED BY <1>1 DEF Due, OuterFds

LEMMA SameTable ==
  ASSUME Typed, outer' = outer, line_no' = line_no, Steady
  PROVE  /\ Outer' = Outer /\ Due' = Due /\ Coming' = Coming /\ Live' = Live
         /\ LeakInv => Apart'
<1>1. Outer' = Outer /\ Due' = Due
  BY SameDue
<1>2. \A o \in Outer : (Stays(o.dest)' <=> Stays(o.dest)) /\ (Kept(o.dest)' <=> Kept(o.dest))
  BY OuterFacts DEF Steady
<1>3. Coming' = Coming
  <2>1. ASSUME NEW f
        PROVE  f \in Coming' <=> f \in Coming
    BY <1>1, <1>2, InComing, InComingNext
  <2> QED BY <2>1
<1>4. LeakInv => Apart'
  BY <1>1, <1>2 DEF LeakInv, Numbers, Apart, OuterFds, Kept, Waiting, Started
<1> QED BY <1>1, <1>3, <1>4 DEF Live

\* The numbers of the line are apart from those that stay, then.
LEMMA NumbersNext ==
  ASSUME Typed, LeakInv, outer' = outer, line_no' = line_no, Steady,
         (BeforeFds' \cup AfterFds' \cup {wfd'}) \cap Live = {}
  PROVE  Numbers'
  BY SameTable DEF Numbers

LEMMA LeakFork == ASSUME Typed, Queue, LeakInv, ForkProcess PROVE LeakInv'
<1>1. PICK k \in Proc : StartsLast(k) \/ StartsMore(k)
  BY ForkSteps
<1>2. /\ pc = "stage" /\ pc' = "clean"
      /\ UNCHANGED <<line_no, cmdline, i, before, outer>>
  BY <1>1 DEF StartsLast, StartsMore, Starts
<1>0. Steady
  <2>1. Starts(k) /\ k.st = "run"
    BY <1>1 DEF StartsLast, StartsMore, Young
  <2>2. \A m \in LineNos : m # line_no => (Started(m, 1)' <=> Started(m, 1))
    BY <2>1, ForkStarts, Bounds
  <2>3. \A m \in Nat : m # line_no => (Waiting(m)' <=> Waiting(m))
    BY <2>2 DEF Waiting
  <2>4. Busy /\ Busy'
    BY <1>2 DEF Busy
  <2> QED BY <1>2, <2>3, <2>4, SteadyBusy
<1>3. Live' = Live /\ Due' = Due /\ BeforeFds' = BeforeFds /\ (Last' <=> Last)
  BY <1>0, <1>2, SameTable DEF BeforeFds, Last
<1>4. /\ wfd = 0 /\ before = after /\ (i = 1 => before = <<0, 1>>)
      /\ (BeforeFds \cup AfterFds \cup {wfd}) \cap Live = {}
      /\ Live \subseteq Open /\ Open \subseteq Live \cup BeforeFds \cup Due
  BY <1>2 DEF LeakInv, Shape, Numbers, OpenOnes, Extra, Busy
<1>5. CASE StartsLast(k)
  <2>1. Last /\ after' = after
    BY <1>5 DEF StartsLast
  <2>2. Extra' = BeforeFds \cup Due \cup {wfd'}
    BY <1>2, <1>3, <2>1 DEF Extra
  <2>3. AfterFds' = AfterFds
    BY <2>1 DEF AfterFds
  <2>4. CASE UNCHANGED <<wfd, fds>>
    <3>1. Open' = Open
      BY <2>4 DEF Open
    <3>2. OpenOnes'
      BY <1>2, <1>3, <1>4, <2>2, <3>1 DEF OpenOnes
    <3>3. Numbers'
      BY <1>2, <1>3, <1>4, <2>3, <2>4, <1>0, NumbersNext
    <3>4. Shape'
      BY <1>2, <1>3, <1>4, <2>1, <2>4 DEF Shape
    <3> QED BY <3>2, <3>3, <3>4 DEF LeakInv
  <2>5. CASE /\ wfd' \in Fds /\ fds[wfd'] = Shut /\ fds' \in [Fds -> Ends4]
             /\ \A f \in Fds : f # wfd' => fds'[f] = fds[f]
    <3>1. wfd' \notin Live
      BY <1>4, <2>5 DEF Open
    <3>2. Live \subseteq Open' /\ Open' \subseteq Open \cup {wfd'}
      BY <1>4, <2>5, <3>1 DEF Open
    <3>3. OpenOnes'
      BY <1>2, <1>3, <1>4, <2>2, <3>2 DEF OpenOnes
    <3>4. (BeforeFds' \cup AfterFds' \cup {wfd'}) \cap Live = {}
      BY <1>3, <1>4, <2>3, <3>1
    <3>5. Numbers'
      BY <1>2, <3>4, <1>0, NumbersNext
    <3>6. Shape'
      BY <1>2, <1>3, <1>4, <2>1 DEF Shape
    <3> QED BY <3>3, <3>5, <3>6 DEF LeakInv
  <2> QED BY <1>5, <2>4, <2>5 DEF StartsLast
<1>6. CASE StartsMore(k)
  <2>1. PICK p \in Pipes : Opens(after'[1], after'[2], p)
    BY <1>6 DEF StartsMore
  <2> DEFINE r == after'[1]
             w == after'[2]
  <2>2. ~Last /\ wfd' = wfd
    BY <1>6 DEF StartsMore
  <2>3. /\ r \in Fds /\ w \in Fds /\ fds[r] = Shut /\ fds[w] = Shut
        /\ \A f \in Fds : f # r /\ f # w => fds'[f] = fds[f]
    BY <2>1 DEF Opens
  <2>4. AfterFds' = {r, w}
    BY <2>3, Bounds DEF AfterFds
  <2> HIDE DEF r, w
  <2>5. r \notin Live /\ w \notin Live
    BY <1>4, <2>3 DEF Open
  <2>6. Live \subseteq Open' /\ Open' \subseteq Open \cup {r, w}
    BY <1>4, <2>3, <2>5 DEF Open
  <2>7. Extra' = BeforeFds \cup Due \cup {r, w}
    BY <1>2, <1>3, <2>2, <2>4 DEF Extra
  <2>8. OpenOnes'
    BY <1>2, <1>3, <1>4, <2>6, <2>7 DEF OpenOnes
  <2>9. (BeforeFds' \cup AfterFds' \cup {wfd'}) \cap Live = {}
    BY <1>3, <1>4, <2>2, <2>4, <2>5
  <2>10. Numbers'
    BY <1>2, <2>9, <1>0, NumbersNext
  <2>11. Shape'
    BY <1>2, <1>3, <1>4, <2>2 DEF Shape
  <2> QED BY <2>8, <2>10, <2>11 DEF LeakInv
<1> QED BY <1>1, <1>5, <1>6

LEMMA LeakClean == ASSUME Typed, Queue, LeakInv, CleanUp PROVE LeakInv'
<1>1. Cleans
  BY CleanSteps
<1>2. /\ pc = "clean" /\ pc' = "wait" /\ before' = after
      /\ UNCHANGED <<line_no, cmdline, i, after, wfd, outer, kid>>
      /\ \A f \in Fds : fds'[f] = IF f \in BeforeFds \cup Due THEN Shut ELSE fds[f]
  BY <1>1 DEF Cleans
<1>0. Steady /\ Busy
  BY <1>2, SameSame, SteadySame DEF Busy
<1>3. /\ Live' = Live /\ AfterFds' = AfterFds /\ BeforeFds' = AfterFds /\ (Last' <=> Last)
  BY <1>0, <1>2, SameTable DEF BeforeFds, AfterFds, Last
<1>4. /\ (BeforeFds \cup AfterFds \cup {wfd}) \cap Live = {} /\ Live \subseteq Open
      /\ Open \subseteq Live \cup BeforeFds \cup Due \cup (IF Last THEN {wfd} ELSE AfterFds)
  BY <1>2 DEF LeakInv, Numbers, OpenOnes, Extra, Busy
<1>5. Due \cap Live = {}
  BY <1>0, DueApart DEF LeakInv
<1>6. Open' = Open \ (BeforeFds \cup Due)
  BY <1>2 DEF Open
<1>7. Extra' = IF Last THEN {wfd} ELSE AfterFds
  BY <1>2, <1>3 DEF Extra
<1>8. Live \subseteq Open' /\ Open' \subseteq Live \cup Extra'
  BY <1>4, <1>5, <1>6, <1>7
<1>9. OpenOnes'
  BY <1>2, <1>3, <1>8 DEF OpenOnes
<1>10. Numbers'
  BY <1>2, <1>3, <1>4, <1>0, NumbersNext
<1>11. Shape'
  BY <1>2, <1>3 DEF LeakInv, Shape
<1> QED BY <1>9, <1>10, <1>11 DEF LeakInv

LEMMA LeakWait == ASSUME Typed, Queue, LeakInv, WaitPrevious PROVE LeakInv'
<1>1. WaitsOver
  BY WaitSteps DEF GoesToNext, GoesToEnd
<1>2. pc = "wait" /\ UNCHANGED <<line_no, cmdline, before, after, outer>>
  BY <1>1 DEF WaitsOver
<1>0. Steady
  <2>1. SameJobs /\ Busy
    BY <1>1, <1>2, SameSame DEF WaitsOver, Reaps, Busy
  <2>2. line_no \in Nat /\ ~Waiting(line_no)
    BY <1>2, <2>1, LineStarted, LineNoFacts
  <2>3. ~Waiting(line_no)' /\ \A m \in Nat : Waiting(m)' <=> Waiting(m)
    <3>1. \A m \in Nat : Waiting(m)' <=> Waiting(m)
      BY <2>1, WaitingSame
    <3>2. Waiting(line_no)' => \E m \in Nat : m = line_no /\ Waiting(m)'
      BY <1>2, <2>2 DEF Waiting, Started
    <3> QED BY <2>2, <3>1, <3>2
  <2> QED BY <1>2, <2>1, <2>3, SteadyBusy
<1>3. Live' = Live /\ AfterFds' = AfterFds /\ BeforeFds' = BeforeFds
  BY <1>0, <1>2, SameTable DEF BeforeFds, AfterFds
<1>4. /\ (BeforeFds \cup AfterFds \cup {wfd}) \cap Live = {} /\ Live \subseteq Open
      /\ Open \subseteq Live \cup (IF Last THEN {wfd} ELSE AfterFds)
      /\ before = after /\ (~Last => wfd = 0)
  BY <1>2 DEF LeakInv, Shape, Numbers, OpenOnes, Extra, Busy
<1>5. AfterFds = BeforeFds
  BY <1>4 DEF AfterFds, BeforeFds
<1>6. CASE GoesToNext
  <2>1. ~Last /\ i' = i + 1 /\ pc' = "stage" /\ fds' = fds /\ wfd' = wfd
    BY <1>6 DEF GoesToNext
  <2>2. i' # 1
    BY <2>1, LineNoFacts
  <2>3. Open' = Open
    BY <2>1 DEF Open
  <2>4. Extra' = BeforeFds
    BY <1>3, <2>1, <2>2 DEF Extra
  <2>5. OpenOnes'
    BY <1>3, <1>4, <1>5, <2>1, <2>2, <2>3, <2>4 DEF OpenOnes
  <2>6. Numbers'
    BY <1>2, <1>3, <1>4, <2>1, <1>0, NumbersNext
  <2>7. Shape'
    BY <1>2, <1>4, <2>1, <2>2 DEF Shape
  <2> QED BY <2>5, <2>6, <2>7 DEF LeakInv
<1>7. CASE GoesToEnd
  <2>1. /\ Last /\ wfd' = 0 /\ i' = i /\ pc' \in {"waitlast", "prompt"}
        /\ \A f \in Fds : fds'[f] = IF f = wfd THEN Shut ELSE fds[f]
    BY <1>7 DEF GoesToEnd
  <2>2. Open' = Open \ {wfd}
    BY <2>1 DEF Open
  <2>3. Extra' = {}
    BY <2>1 DEF Extra
  <2>4. Live \subseteq Open' /\ Open' \subseteq Live
    BY <1>4, <2>1, <2>2
  <2>5. OpenOnes'
    BY <1>3, <2>1, <2>3, <2>4 DEF OpenOnes
  <2>6. 0 \notin Live
    BY LiveFds, Bounds
  <2>7. Numbers'
    BY <1>2, <1>3, <1>4, <2>1, <2>6, <1>0, NumbersNext
  <2>8. Shape'
    BY <2>1 DEF Shape
  <2> QED BY <2>5, <2>7, <2>8 DEF LeakInv
<1> QED BY <1>6, <1>7, WaitSteps

LEMMA LeakWaitLast == ASSUME Typed, Queue, LeakInv, WaitLast PROVE LeakInv'
<1>1. /\ pc = "waitlast" /\ pc' = "prompt" /\ SameJobs
      /\ UNCHANGED <<line_no, cmdline, i, before, after, wfd, outer, fds>>
  BY WaitLastSteps DEF Reaps
<1>0. Steady
  <2>1. Busy
    BY <1>1 DEF Busy
  <2>2. line_no \in Nat /\ ~Waiting(line_no)
    BY <1>1, <2>1, LineStarted, LineNoFacts
  <2>3. \A m \in Nat : Waiting(m)' <=> Waiting(m)
    BY <1>1, WaitingSame
  <2>4. Waiting(line_no)' => \E m \in Nat : m = line_no /\ Waiting(m)'
    BY <1>1, <2>2 DEF Waiting, Started
  <2> QED BY <1>1, <2>1, <2>2, <2>3, <2>4, SteadyBusy
<1>2. Live' = Live /\ Open' = Open /\ Extra' = {} /\ Extra = {}
  BY <1>0, <1>1, SameTable DEF Open, Extra
<1>3. OpenOnes'
  BY <1>1, <1>2 DEF LeakInv, OpenOnes
<1>4. Shape'
  BY <1>1 DEF LeakInv, Shape
<1>5. ~Busy'
  BY <1>1 DEF Busy
<1>6. Numbers'
  BY <1>0, <1>1, <1>5, SameTable DEF Numbers
<1> QED BY <1>3, <1>4, <1>6 DEF LeakInv

LEMMA LeakSame ==
  ASSUME Typed, LeakInv, SameJobs,
         UNCHANGED <<pc, line_no, cmdline, i, before, after, wfd, outer, fds>>
  PROVE  LeakInv'
<1>0. Steady
  BY SteadySame DEF Busy
<1>1. /\ Live' = Live /\ Due' = Due /\ AfterFds' = AfterFds /\ BeforeFds' = BeforeFds
      /\ Open' = Open /\ (Last' <=> Last) /\ (Busy' <=> Busy)
  BY <1>0, SameTable DEF BeforeFds, AfterFds, Open, Last, Busy
<1>2. Extra' = Extra
  BY <1>1 DEF Extra
<1>3. Shape' /\ OpenOnes'
  BY <1>1, <1>2 DEF LeakInv, Shape, OpenOnes
<1>4. Numbers'
  BY <1>0, <1>1, SameTable DEF LeakInv, Numbers
<1> QED BY <1>3, <1>4 DEF LeakInv

LEMMA LeakOthers ==
  ASSUME Typed, Queue, LeakInv, \/ Rests \/ Quits \/ BuiltIns
                                \/ \E l \in LineNos, s \in Stages : Commands(l, s)
  PROVE  LeakInv'
<1>1. CASE Rests
  BY <1>1, SameSame, LeakSame DEF Rests
<1>2. CASE Quits
  <2>1. pc = "prompt" /\ pc' = "exited" /\ line_no' = line_no /\ outer' = outer /\ kid' = kid
    BY <1>2 DEF Quits
  <2>2. Shape' /\ OpenOnes' /\ ~Busy' /\ ~Busy
    BY <2>1 DEF Shape, OpenOnes, Busy
  <2>3. Steady
    BY <2>1, <2>2, SameSame, SteadySame
  <2>4. Numbers'
    BY <2>1, <2>2, <2>3, SameTable DEF Numbers
  <2> QED BY <2>2, <2>4 DEF LeakInv
<1>3. CASE BuiltIns
  <2>1. /\ pc = "prompt" /\ line_no' = line_no + 1
        /\ UNCHANGED <<pc, cmdline, i, before, after, wfd, outer, fds, kid>>
    BY <1>3 DEF BuiltIns
  <2>2. Outer' = Outer /\ ~Busy /\ ~Busy'
    BY <2>1 DEF Outer, Busy
  <2>3. \A o \in Outer : (Stays(o.dest)' <=> Stays(o.dest)) /\ (Kept(o.dest)' => Kept(o.dest))
    <3> SUFFICES ASSUME NEW o \in Outer
                 PROVE  (Stays(o.dest)' <=> Stays(o.dest)) /\ (Kept(o.dest)' => Kept(o.dest))
      OBVIOUS
    <3>1. PICK m \in Nat : m = o.dest
      BY OuterFacts
    <3>2. Waiting(m)' <=> Waiting(m)
      BY <2>1, SameSame, WaitingSame
    <3>3. m = line_no + 1 => Waiting(m)
      BY LaterWaits, LineNoFacts
    <3> QED BY <2>1, <2>2, <3>1, <3>2, <3>3 DEF Stays, Kept
  <2>4. Coming' = Coming
    <3>1. ASSUME NEW f
          PROVE  f \in Coming' <=> f \in Coming
      BY <2>2, <2>3, InComing, InComingNext
    <3> QED BY <3>1
  <2>5. Live' = Live /\ Open' = Open /\ Extra = {} /\ Extra' = {}
    BY <2>1, <2>4 DEF Live, Open, Extra
  <2>6. OpenOnes' /\ Shape'
    BY <2>1, <2>5 DEF LeakInv, OpenOnes, Shape
  <2>7. Numbers'
    BY <2>2, <2>3 DEF LeakInv, Numbers, Apart, OuterFds, Kept, Waiting, Started
  <2> QED BY <2>6, <2>7 DEF LeakInv
<1>4. ASSUME NEW l \in LineNos, NEW s \in Stages, Commands(l, s)
      PROVE  LeakInv'
  <2>1. ShellSame /\ SameJobs
    BY <1>4, CommandsGo DEF Going
  <2> QED BY <2>1, LeakSame DEF ShellSame
<1> QED BY <1>1, <1>2, <1>3, <1>4

LEMMA LeakStep == ASSUME Typed, Queue, LeakInv, [NpNext]_npVars PROVE LeakInv'
  BY NextCases, LeakOthers, LeakParser, LeakFork, LeakClean, LeakWait, LeakWaitLast

LEMMA AlwaysLeakInv == NpSpec => []LeakInv
<1>1. NpInit => LeakInv
  BY LeakInit
<1>2. Typed /\ Queue /\ LeakInv /\ [NpNext]_npVars => LeakInv'
  BY LeakStep
<1> QED BY <1>1, <1>2, AlwaysTyped, AlwaysQueue, PTL DEF NpSpec

\* At every prompt the shell has open exactly the descriptors it was started with and
\* those of the numbered pipes that are not read yet: pipes of lines to come, and of
\* lines that were setenv or printenv, which nobody will ever read or close.  What else
\* a line opens is closed when it ends, and no close hits a number that is in use for
\* something that has to stay.
THEOREM NothingLeaks == NpSpec => []NoLeak
  BY AlwaysTyped, AlwaysQueue, AlwaysLeakInv, LeakImplies, PTL
-----------------------------------------------------------------------------
(* The commands are connected as typed.                                    *)

HasPipe(r, w) == \E p \in Pipes : fds[r] = R(p) /\ fds[w] = W(p)

\* The shell has the read end of what command s of its line writes to, as f.
Passes(s, f) == f \in Fds /\ \E p \in Pipes : kid[line_no][s].out = W(p) /\ fds[f] = R(p)

\* The command <<m, t>> reads what <<l, s>> writes.
Pair(l, s, m, t) == \E p \in Pipes : kid[l][s].out = W(p) /\ kid[m][t].in = R(p)

\* The pipe of every entry whose destination waits is open, and what its line's
\* last command writes to.
Pending ==
  \A o \in Outer : Waiting(o.dest) =>
    /\ HasPipe(o.rd, o.wr)
    /\ \A s \in Stages : Over(o.from) /\ IsLast(o.from, s) => kid[o.from][s].out = fds[o.wr]

\* So is the pipe between the command that has been started and the next one.
Between ==
  /\ pc = "clean" /\ ~Last => /\ AfterFds \subseteq Open /\ Passes(i, after[1])
                              /\ AfterFds \cap (BeforeFds \cup Due) = {}
  /\ pc = "wait" /\ ~Last => AfterFds \subseteq Open /\ Passes(i, after[1])
  /\ pc = "stage" /\ i # 1 => /\ BeforeFds \subseteq Open
                              /\ \E s \in Stages : s = i - 1 /\ Passes(s, before[1])

Paired ==
  /\ \A l \in LineNos : \A s, t \in Stages : t = s + 1 /\ Started(l, t) => Pair(l, s, l, t)
  /\ \A o \in Outer : \A s \in Stages :
       IsLast(o.from, s) /\ o.dest \in LineNos /\ Started(o.dest, 1) => Pair(o.from, s, o.dest, 1)

Joined == (pc # "exited" => Pending /\ Between) /\ Paired

\* Everything that does not depend on NotStale.
BaseInv == Typed /\ LeakInv /\ Queue /\ Entries

LEMMA JoinedImplies == ASSUME BaseInv, Joined PROVE Connected
<1> SUFFICES ASSUME NEW l \in LineNos, NEW m \in LineNos, NEW s \in Stages, NEW t \in Stages,
                    Feeds(l, s, m, t), Started(l, s), Started(m, t)
             PROVE  kid[l][s].out.end = "w" /\ kid[m][t].in = R(kid[l][s].out.pipe)
  BY DEF Connected
<1>1. Pair(l, s, m, t)
  <2>1. CASE m = l /\ t = s + 1
    BY <2>1 DEF Joined, Paired
  <2>2. CASE /\ \E o \in Outer : o.from = l /\ o.dest = m
             /\ t = 1 /\ s = LastStage(l)
    <3>1. PICK o \in Outer : o.from = l /\ o.dest = m
      BY <2>2
    <3>2. IsLast(l, s)
      BY <2>2, LastStageIs DEF BaseInv
    <3> QED BY <2>2, <3>1, <3>2 DEF Joined, Paired
  <2> QED BY <2>1, <2>2 DEF Feeds
<1>2. PICK p \in Pipes : kid[l][s].out = W(p) /\ kid[m][t].in = R(p)
  BY <1>1 DEF Pair
<1> QED BY <1>2, EndFacts

LEMMA JoinedInit == ASSUME NpInit PROVE Joined
<1>1. Outer = {} /\ pc = "prompt"
  BY DEF NpInit, Init, Outer
<1>2. \A l \in LineNos, s \in Stages : ~Started(l, s)
  BY DEF NpInit, Init, Started, NoKid
<1>3. Pending /\ Between
  BY <1>1 DEF Pending, Between
<1>4. Paired
  BY <1>1, <1>2 DEF Paired
<1> QED BY <1>3, <1>4 DEF Joined

\* What has been paired stays so, and who was the last of its line.
LEMMA SameLast ==
  ASSUME SameJobs
  PROVE  \A l \in LineNos, s \in Stages : IsLast(l, s)' <=> IsLast(l, s)
<1> SUFFICES ASSUME NEW l \in LineNos, NEW s \in Stages
             PROVE  IsLast(l, s)' <=> IsLast(l, s)
  OBVIOUS
<1>1. s < MaxStages => s + 1 \in Stages
  BY Bounds DEF Stages
<1>2. Started(l, s)' <=> Started(l, s)
  BY SameStarted
<1>3. s < MaxStages => (Started(l, s + 1)' <=> Started(l, s + 1))
  BY <1>1, SameStarted
<1> QED BY <1>2, <1>3 DEF IsLast

LEMMA SamePairs ==
  ASSUME SameJobs, NEW l \in LineNos, NEW s \in Stages, NEW m \in LineNos, NEW t \in Stages
  PROVE  Pair(l, s, m, t)' <=> Pair(l, s, m, t)
  BY DEF SameJobs, Pair

LEMMA PairedKept ==
  ASSUME BaseInv, Paired, SameJobs, Outer' = Outer
  PROVE  Paired'
<1>1. \A l \in LineNos : \A s, t \in Stages : t = s + 1 /\ Started(l, t)' => Pair(l, s, l, t)'
  BY SameStarted, SamePairs DEF Paired
<1>2. \A o \in Outer : \A s \in Stages :
       IsLast(o.from, s)' /\ o.dest \in LineNos /\ Started(o.dest, 1)' => Pair(o.from, s, o.dest, 1)'
  <2> SUFFICES ASSUME NEW o \in Outer, NEW s \in Stages, IsLast(o.from, s)', o.dest \in LineNos,
                      Started(o.dest, 1)'
               PROVE  Pair(o.from, s, o.dest, 1)'
    OBVIOUS
  <2>1. o.from \in LineNos /\ 1 \in Stages
    BY OuterFacts, Bounds DEF BaseInv
  <2>2. IsLast(o.from, s) /\ Started(o.dest, 1)
    BY <2>1, SameLast, SameStarted
  <2>3. Pair(o.from, s, o.dest, 1)
    BY <2>2 DEF Paired
  <2> QED BY <2>1, <2>3, SamePairs
<1> QED BY <1>1, <1>2 DEF Paired

LEMMA PendingKept ==
  ASSUME BaseInv, Pending, SameJobs, Outer' = Outer,
         \A o \in Outer : /\ Waiting(o.dest) => fds'[o.rd] = fds[o.rd] /\ fds'[o.wr] = fds[o.wr]
                          /\ Over(o.from)' => Over(o.from)
  PROVE  Pending'
<1>1. ASSUME NEW o \in Outer, Waiting(o.dest)'
      PROVE  /\ HasPipe(o.rd, o.wr)'
             /\ \A s \in Stages : Over(o.from)' /\ IsLast(o.from, s)'
                                    => kid'[o.from][s].out = fds'[o.wr]
  <2> Waiting(o.dest)
    BY <1>1, WaitingSame, OuterFacts DEF BaseInv
  <2>1. HasPipe(o.rd, o.wr) /\ fds'[o.rd] = fds[o.rd] /\ fds'[o.wr] = fds[o.wr]
    BY DEF Pending
  <2>2. HasPipe(o.rd, o.wr)'
    BY <2>1 DEF HasPipe
  <2>3. ASSUME NEW s \in Stages, Over(o.from)', IsLast(o.from, s)'
        PROVE  kid'[o.from][s].out = fds'[o.wr]
    <3>1. o.from \in LineNos
      BY OuterFacts DEF BaseInv
    <3>2. Over(o.from) /\ IsLast(o.from, s)
      BY <2>3, <3>1, SameLast
    <3>3. kid[o.from][s].out = fds[o.wr]
      BY <3>2 DEF Pending
    <3>4. kid'[o.from][s].out = kid[o.from][s].out
      BY <3>1 DEF SameJobs
    <3> QED BY <2>1, <3>3, <3>4
  <2> QED BY <2>2, <2>3
<1> QED BY <1>1 DEF Pending, HasPipe


LEMMA JoinedParser ==
  ASSUME BaseInv, Joined, NEW l \in Lines, Parser(l)
  PROVE  Joined'
<1>1. Reads(l)
  BY ParserSteps DEF BaseInv
<1>2. /\ pc = "prompt" /\ pc' = "stage" /\ line_no' = line_no + 1 /\ i' = 1 /\ kid' = kid
  BY <1>1 DEF Reads
<1>3. SameJobs /\ ~Busy
  BY <1>2, SameSame DEF Busy
<1>4. Between'
  BY <1>2 DEF Between
<1>5. Pending
  BY <1>2 DEF Joined
<1>6. \A o \in Outer : /\ Waiting(o.dest)' => Waiting(o.dest)
                       /\ Over(o.from)
  BY <1>3, LineNoFacts, FromDest, OuterFacts, WaitingSame DEF BaseInv, Over, Entries
<1>7. CASE NoPipe
  <2>1. Outer' = Outer /\ fds' = fds
    BY <1>7 DEF NoPipe, Outer
  <2>2. Pending'
    BY <1>3, <1>5, <1>6, <2>1, PendingKept
  <2>3. Paired'
    BY <1>3, <2>1, PairedKept DEF Joined
  <2> QED BY <1>4, <2>2, <2>3 DEF Joined
<1>8. ASSUME NEW e \in Entry, Adds(e)
      PROVE  Joined'
  <2>1. /\ Outer' = Outer \cup {e} /\ e.from = line_no + 1 /\ e.dest > line_no + 1
        /\ (Joins(e) \/ Fresh(e))
    BY <1>8, AppendOuter DEF Adds, BaseInv
  <2>2. \A f \in Fds : fds[f] # Shut => fds'[f] = fds[f]
    BY <2>1 DEF Joins, Fresh, Opens
  <2>3. HasPipe(e.rd, e.wr)'
    <3>1. CASE Joins(e)
      <4>1. PICK o \in Outer : o.dest = e.dest /\ o.rd = e.rd /\ o.wr = e.wr
        BY <3>1 DEF Joins
      <4>2. Waiting(o.dest)
        <5>1. o.dest \in Nat /\ o.dest > line_no
          BY <2>1, <4>1, LineNoFacts, OuterFacts DEF BaseInv
        <5> QED BY <5>1, LaterWaits DEF BaseInv
      <4>3. HasPipe(e.rd, e.wr) /\ fds' = fds
        BY <1>5, <3>1, <4>1, <4>2 DEF Pending, Joins
      <4> QED BY <4>3 DEF HasPipe
    <3>2. CASE Fresh(e)
      BY <3>2 DEF Fresh, Opens, HasPipe
    <3> QED BY <2>1, <3>1, <3>2
  <2>4. ~Over(e.from)'
    BY <1>2, <2>1, LineNoFacts DEF Over, Busy, BaseInv
  <2>5. ASSUME NEW o \in Outer, Waiting(o.dest)'
        PROVE  /\ HasPipe(o.rd, o.wr)'
               /\ \A s \in Stages : Over(o.from)' /\ IsLast(o.from, s)'
                                      => kid'[o.from][s].out = fds'[o.wr]
    <3>1. /\ HasPipe(o.rd, o.wr)
          /\ \A s \in Stages : IsLast(o.from, s) => kid[o.from][s].out = fds[o.wr]
      BY <1>5, <1>6, <2>5 DEF Pending
    <3>2. o.rd \in Fds /\ o.wr \in Fds /\ o.from \in LineNos
      BY OuterFacts DEF BaseInv
    <3>3. fds[o.rd] # Shut /\ fds[o.wr] # Shut
      BY <3>1, EndFacts DEF HasPipe
    <3>4. fds'[o.rd] = fds[o.rd] /\ fds'[o.wr] = fds[o.wr]
      BY <2>2, <3>2, <3>3
    <3>5. HasPipe(o.rd, o.wr)'
      BY <3>1, <3>4 DEF HasPipe
    <3> QED BY <1>2, <1>3, <3>1, <3>2, <3>4, <3>5, SameLast
  <2>6. Pending'
    BY <2>1, <2>3, <2>4, <2>5 DEF Pending, HasPipe
  <2>7. Paired'
    <3>1. \A m \in LineNos : \A s, t \in Stages : t = s + 1 /\ Started(m, t)' => Pair(m, s, m, t)'
      BY <1>3, SameStarted, SamePairs DEF Joined, Paired
    <3>2. ASSUME NEW o \in Outer', NEW s \in Stages, IsLast(o.from, s)', o.dest \in LineNos,
                 Started(o.dest, 1)'
          PROVE  Pair(o.from, s, o.dest, 1)'
      <4>1. 1 \in Stages
        BY Bounds
      <4>2. Started(o.dest, 1)
        BY <1>3, <3>2, <4>1, SameStarted
      <4>3. o.dest <= line_no
        BY <3>2, <4>1, <4>2 DEF BaseInv, Queue
      <4>4. o # e
        BY <2>1, <4>3, <3>2, LineNoFacts, Bounds DEF BaseInv
      <4>5. o \in Outer
        BY <2>1, <4>4
      <4>6. o.from \in LineNos
        BY <4>5, OuterFacts DEF BaseInv
      <4>7. Pair(o.from, s, o.dest, 1)
        BY <1>3, <3>2, <4>2, <4>5, <4>6, SameLast DEF Joined, Paired
      <4> QED BY <1>3, <3>2, <4>1, <4>6, <4>7, SamePairs
    <3> QED BY <3>1, <3>2 DEF Paired
  <2> QED BY <1>4, <2>6, <2>7 DEF Joined
<1> QED BY <1>7, <1>8, ParserSteps DEF BaseInv

LEMMA JoinedClean ==
  ASSUME BaseInv, Joined, CleanUp
  PROVE  Joined'
<1>1. /\ pc = "clean" /\ pc' = "wait"
      /\ UNCHANGED <<line_no, cmdline, i, after, outer, kid>>
      /\ \A f \in Fds : fds'[f] = IF f \in BeforeFds \cup Due THEN Shut ELSE fds[f]
  BY CleanSteps DEF Cleans, BaseInv
<1>2. Outer' = Outer /\ SameJobs /\ (Last' <=> Last)
  BY <1>1, SameSame DEF Outer, Last
<1>3. Pending /\ Between
  BY <1>1 DEF Joined
<1>4. ASSUME NEW o \in Outer
      PROVE  /\ Waiting(o.dest) => fds'[o.rd] = fds[o.rd] /\ fds'[o.wr] = fds[o.wr]
             /\ Over(o.from)' => Over(o.from)
  <2>1. Over(o.from)' => Over(o.from)
    BY <1>1, <1>2 DEF Over, Busy
  <2>2. ASSUME Waiting(o.dest)
        PROVE  fds'[o.rd] = fds[o.rd] /\ fds'[o.wr] = fds[o.wr]
    <3>1. Stays(o.dest)
      BY <1>1, <2>2, LineStarted DEF BaseInv, Busy, Stays
    <3>2. o.rd \in Live /\ o.wr \in Live
      BY <3>1, InComing DEF Live, OuterFds
    <3>3. (BeforeFds \cup Due) \cap Live = {}
      BY <1>1, DueApart DEF BaseInv, LeakInv, Numbers, Busy
    <3>4. o.rd \in Fds /\ o.wr \in Fds
      BY OuterFacts DEF BaseInv
    <3> QED BY <1>1, <3>2, <3>3, <3>4
  <2> QED BY <2>1, <2>2
<1>5. Pending'
  BY <1>2, <1>3, <1>4, PendingKept
<1>6. Paired'
  BY <1>2, PairedKept DEF Joined
<1>7. ASSUME ~Last
      PROVE  (AfterFds \subseteq Open /\ Passes(i, after[1]))'
  <2>1. AfterFds \subseteq Open /\ Passes(i, after[1]) /\ AfterFds \cap (BeforeFds \cup Due) = {}
    BY <1>1, <1>3, <1>7 DEF Between
  <2>2. AfterFds' = AfterFds
    BY <1>1 DEF AfterFds
  <2>3. \A f \in AfterFds : f \in Fds /\ fds'[f] = fds[f]
    BY <1>1, <2>1 DEF Open
  <2>4. AfterFds' \subseteq Open'
    BY <2>1, <2>2, <2>3 DEF Open
  <2>5. after[1] \in AfterFds
    BY <2>1, Bounds DEF Passes, AfterFds
  <2>6. Passes(i, after[1])'
    BY <1>1, <2>1, <2>3, <2>5 DEF Passes
  <2> QED BY <2>4, <2>6
<1>8. Between'
  BY <1>1, <1>2, <1>7 DEF Between
<1> QED BY <1>5, <1>6, <1>8 DEF Joined

LEMMA JoinedWait ==
  ASSUME BaseInv, Joined, WaitPrevious
  PROVE  Joined'
<1>1. WaitsOver /\ (GoesToNext \/ GoesToEnd)
  BY WaitSteps DEF GoesToNext, GoesToEnd, BaseInv
<1>2. /\ pc = "wait" /\ UNCHANGED <<line_no, cmdline, before, after, outer>> /\ SameJobs
  BY <1>1, SameSame DEF WaitsOver, Reaps
<1>3. Outer' = Outer /\ Pending /\ Between
  BY <1>2 DEF Outer, Joined
<1>4. Paired'
  BY <1>2, <1>3, PairedKept DEF Joined
<1>5. CASE GoesToNext
  <2>1. ~Last /\ i' = i + 1 /\ pc' = "stage" /\ fds' = fds
    BY <1>5 DEF GoesToNext
  <2>2. i' # 1 /\ i = i' - 1 /\ i \in Stages
    BY <2>1, LineNoFacts DEF BaseInv, Typed, ShellTypes
  <2>3. \A o \in Outer : Over(o.from)' => Over(o.from)
    BY <1>2, <2>1, <2>2 DEF Over, Busy
  <2>4. Pending'
    BY <1>2, <1>3, <2>1, <2>3, PendingKept
  <2>5. AfterFds \subseteq Open /\ Passes(i, after[1])
    BY <1>2, <1>3, <2>1 DEF Between
  <2>6. before = after
    BY <1>2 DEF BaseInv, LeakInv, Shape
  <2>7. BeforeFds' \subseteq Open'
    BY <1>2, <2>1, <2>5, <2>6 DEF BeforeFds, AfterFds, Open
  <2>8. line_no \in LineNos
    BY <1>1 DEF WaitsOver
  <2>9. Passes(i, before[1])
    BY <2>5, <2>6
  <2>10. before[1] \in Fds /\ \E p \in Pipes : kid'[line_no][i].out = W(p) /\ fds[before[1]] = R(p)
    BY <1>2, <2>2, <2>8, <2>9 DEF Passes, SameJobs
  <2>11. \E s \in Stages : s = i' - 1 /\ Passes(s, before[1])'
    <3>1. PICK s \in Stages : s = i
      BY <2>2
    <3>2. Passes(s, before[1])'
      BY <1>2, <2>1, <2>10, <3>1 DEF Passes
    <3> QED BY <2>2, <3>1, <3>2
  <2>12. Between'
    BY <2>1, <2>7, <2>11 DEF Between, Passes
  <2> QED BY <1>4, <2>4, <2>12 DEF Joined
<1>6. CASE GoesToEnd
  <2>1. /\ Last /\ i' = i /\ pc' \in {"waitlast", "prompt"}
        /\ \A f \in Fds : fds'[f] = IF f = wfd THEN Shut ELSE fds[f]
    BY <1>6 DEF GoesToEnd
  <2>2. ASSUME NEW o \in Outer
        PROVE  /\ Waiting(o.dest) => fds'[o.rd] = fds[o.rd] /\ fds'[o.wr] = fds[o.wr]
               /\ Over(o.from)' => Over(o.from)
    <3>1. Over(o.from)' => Over(o.from)
      BY <1>2, <2>1 DEF Over, Busy
    <3>2. ASSUME Waiting(o.dest)
          PROVE  fds'[o.rd] = fds[o.rd] /\ fds'[o.wr] = fds[o.wr]
      <4>1. Stays(o.dest)
        BY <1>2, <3>2, LineStarted DEF BaseInv, Busy, Stays
      <4>2. o.rd \in Live /\ o.wr \in Live
        BY <4>1, InComing DEF Live, OuterFds
      <4>3. wfd \notin Live
        BY <1>2 DEF BaseInv, LeakInv, Numbers, Busy
      <4>4. o.rd \in Fds /\ o.wr \in Fds
        BY OuterFacts DEF BaseInv
      <4> QED BY <2>1, <4>2, <4>3, <4>4
    <3> QED BY <3>1, <3>2
  <2>3. Pending'
    BY <1>2, <1>3, <2>2, PendingKept
  <2>4. Between'
    BY <2>1 DEF Between
  <2> QED BY <1>4, <2>3, <2>4 DEF Joined
<1> QED BY <1>1, <1>5, <1>6


LEMMA JoinedWaitLast ==
  ASSUME BaseInv, Joined, WaitLast
  PROVE  Joined'
<1>1. /\ pc = "waitlast" /\ pc' = "prompt" /\ SameJobs
      /\ UNCHANGED <<line_no, cmdline, i, outer, fds>>
  BY WaitLastSteps DEF Reaps, BaseInv
<1>2. Outer' = Outer /\ Last /\ Pending
  BY <1>1 DEF Outer, BaseInv, Queue, Joined
<1>3. \A o \in Outer : Over(o.from)' => Over(o.from)
  BY <1>1, <1>2 DEF Over, Busy
<1>4. Pending'
  BY <1>1, <1>2, <1>3, PendingKept
<1>5. Paired'
  BY <1>1, <1>2, PairedKept DEF Joined
<1>6. Between'
  BY <1>1 DEF Between
<1> QED BY <1>4, <1>5, <1>6 DEF Joined

LEMMA JoinedSame ==
  ASSUME BaseInv, Joined, SameJobs,
         UNCHANGED <<pc, line_no, cmdline, i, before, after, outer, fds>>
  PROVE  Joined'
<1>1. Outer' = Outer /\ (Last' <=> Last) /\ (Busy' <=> Busy)
  BY DEF Outer, Last, Busy
<1>2. Paired'
  BY <1>1, PairedKept DEF Joined
<1>3. ASSUME pc # "exited"
      PROVE  Pending' /\ Between'
  <2>1. Pending /\ Between
    BY <1>3 DEF Joined
  <2>2. \A o \in Outer : Over(o.from)' => Over(o.from)
    BY <1>1 DEF Over
  <2>3. Pending'
    BY <1>1, <2>1, <2>2, PendingKept
  <2>4. BeforeFds' = BeforeFds /\ AfterFds' = AfterFds /\ Due' = Due /\ Open' = Open
    BY SameDue DEF BeforeFds, AfterFds, Open
  <2>5. Busy => line_no \in LineNos /\ i \in Stages
    BY DEF BaseInv, Typed, ShellTypes
  <2>6. Busy => \A s \in Stages : kid'[line_no][s].out = kid[line_no][s].out
    BY <2>5 DEF SameJobs
  <2>7. CASE pc = "stage" /\ i # 1
    <3>1. PICK s \in Stages : s = i - 1 /\ Passes(s, before[1])
      BY <2>1, <2>7 DEF Between
    <3>2. kid'[line_no][s].out = kid[line_no][s].out
      BY <2>6, <2>7 DEF Busy
    <3>3. Passes(s, before[1])'
      BY <3>1, <3>2 DEF Passes
    <3> QED BY <2>1, <2>3, <2>4, <2>7, <3>1, <3>3 DEF Between, Passes
  <2>8. CASE pc \in {"clean", "wait"} /\ ~Last
    <3>1. Passes(i, after[1]) /\ AfterFds \subseteq Open
          /\ (pc = "clean" => AfterFds \cap (BeforeFds \cup Due) = {})
      BY <2>1, <2>8 DEF Between
    <3>2. kid'[line_no][i].out = kid[line_no][i].out
      BY <2>5, <2>6, <2>8 DEF Busy
    <3>3. Passes(i, after[1])'
      BY <3>1, <3>2 DEF Passes
    <3> QED BY <1>1, <2>3, <2>4, <2>8, <3>1, <3>3 DEF Between
  <2>9. CASE ~(pc = "stage" /\ i # 1) /\ ~(pc \in {"clean", "wait"} /\ ~Last)
    BY <1>1, <2>3, <2>9 DEF Between
  <2> QED BY <2>7, <2>8, <2>9
<1> QED BY <1>2, <1>3 DEF Joined

LEMMA JoinedOthers ==
  ASSUME BaseInv, Joined,
         \/ Rests \/ Quits \/ BuiltIns
         \/ \E l \in LineNos, s \in Stages : Commands(l, s)
  PROVE  Joined'
<1>1. CASE Rests
  BY <1>1, SameSame, JoinedSame DEF Rests
<1>2. CASE Quits
  <2>1. pc' = "exited" /\ Outer' = Outer /\ SameJobs
    BY <1>2, SameSame DEF Quits, Outer
  <2>2. Paired'
    BY <2>1, PairedKept DEF Joined
  <2> QED BY <2>1, <2>2 DEF Joined
<1>3. CASE BuiltIns
  <2>1. /\ pc = "prompt" /\ pc' = "prompt" /\ line_no' = line_no + 1
        /\ UNCHANGED <<outer, fds, kid>>
    BY <1>3 DEF BuiltIns
  <2>2. Outer' = Outer /\ SameJobs /\ ~Busy /\ Pending
    BY <2>1, SameSame DEF Outer, Busy, Joined
  <2>3. \A o \in Outer : Over(o.from)
    BY <2>2, LineNoFacts, FromDest DEF BaseInv, Over, Entries
  <2>4. Pending'
    BY <2>1, <2>2, <2>3, PendingKept
  <2>5. Paired'
    BY <2>2, PairedKept DEF Joined
  <2>6. Between'
    BY <2>1 DEF Between
  <2> QED BY <2>4, <2>5, <2>6 DEF Joined
<1>4. ASSUME NEW l \in LineNos, NEW s \in Stages, Commands(l, s)
      PROVE  Joined'
  <2>1. ShellSame /\ SameJobs
    BY <1>4, CommandsGo DEF Going, BaseInv
  <2> QED BY <2>1, JoinedSame DEF ShellSame
<1> QED BY <1>1, <1>2, <1>3, <1>4

\* The loops find the entry that they look for.
LEMMA InFdIs ==
  ASSUME BaseInv, i = 1, NEW o \in Outer, o.dest = line_no
  PROVE  InFd = o.rd
<1>1. o \in SameDest(line_no)
  BY DEF SameDest
<1>2. PICK k \in DOMAIN outer : outer[k] = o
  BY DEF Outer
<1>3. outer \in Seq(Entry)
  BY DEF BaseInv, Typed, ShellTypes
<1>4. First(SameDest(line_no)) \in SameDest(line_no) /\ First(SameDest(line_no)) \in Outer
  BY <1>1, <1>2, <1>3, FirstFound
<1>5. First(SameDest(line_no)).rd = o.rd
  BY <1>4 DEF BaseInv, Entries, SameDest
<1> QED BY <1>1, <1>5 DEF InFd

LEMMA LastOutIs ==
  ASSUME BaseInv, NEW o \in Outer, o.from = line_no
  PROVE  LastOut = fds[o.wr]
<1> DEFINE own == {u \in Outer : u.from = line_no}
<1>1. o \in own
  OBVIOUS
<1>2. PICK k \in DOMAIN outer : outer[k] = o
  BY DEF Outer
<1>3. outer \in Seq(Entry)
  BY DEF BaseInv, Typed, ShellTypes
<1>4. First(own) \in own /\ First(own) \in Outer
  BY <1>1, <1>2, <1>3, FirstFound
<1>5. First(own) = o
  BY <1>4 DEF BaseInv, Entries
<1>6. LastOut = Refers(First(own).wr)
  BY <1>1 DEF LastOut
<1>7. o.wr \in Fds
  BY OuterFacts DEF BaseInv
<1> QED BY <1>5, <1>6, <1>7 DEF Refers


\* A fork touches no descriptor that is open.
LEMMA ForkKeeps ==
  ASSUME NEW k \in Proc, StartsLast(k) \/ StartsMore(k)
  PROVE  \A f \in Fds : fds[f] # Shut => fds'[f] = fds[f]
  BY DEF StartsLast, StartsMore, Opens

\* Who is the last of its line, after a fork.
LEMMA ForkLastOfLine ==
  ASSUME BaseInv, NEW k \in Proc, Starts(k), k.st = "run"
  PROVE  /\ \A l \in LineNos, s \in Stages : l # line_no => (IsLast(l, s)' <=> IsLast(l, s))
         /\ \A s \in Stages : IsLast(line_no, s)' => s = i
<1>1. /\ pc = "stage" /\ line_no \in LineNos /\ i \in Stages /\ line_no' = line_no
  BY DEF Starts
<1>2. \A l \in LineNos, s \in Stages :
              Started(l, s)' <=> (Started(l, s) \/ (l = line_no /\ s = i))
  BY ForkStarts DEF BaseInv
<1>3. \A s \in Stages : Started(line_no, s) <=> s < i
  BY <1>1 DEF BaseInv, Queue, Busy
<1>4. \A s \in Stages : s < MaxStages => s + 1 \in Stages
  BY Bounds DEF Stages
<1>5. \A l \in LineNos, s \in Stages : l # line_no => (IsLast(l, s)' <=> IsLast(l, s))
  BY <1>2, <1>4 DEF IsLast
<1>6. ASSUME NEW s \in Stages, IsLast(line_no, s)', s # i
      PROVE  FALSE
  <2>1. Started(line_no, s)' /\ (s < MaxStages => ~Started(line_no, s + 1)')
    BY <1>1, <1>6 DEF IsLast, Started
  <2>2. s < i
    BY <1>1, <1>2, <1>3, <1>6, <2>1
  <2>3. s < MaxStages /\ s + 1 \in Stages /\ (s + 1 = i \/ s + 1 < i)
    BY <1>1, <1>4, <2>2, Bounds
  <2>4. Started(line_no, s + 1)'
    BY <1>1, <1>2, <1>3, <2>3
  <2> QED BY <2>1, <2>3, <2>4
<1> QED BY <1>5, <1>6

LEMMA ForkPending ==
  ASSUME BaseInv, Joined, NEW k \in Proc, StartsLast(k) \/ StartsMore(k)
  PROVE  Pending'
<1>1. Starts(k) /\ k.st = "run"
  BY DEF StartsLast, StartsMore, Young
<1>2. /\ pc = "stage" /\ pc' = "clean" /\ UNCHANGED <<line_no, cmdline, i, outer>>
      /\ line_no \in LineNos
  BY <1>1 DEF Starts
<1>3. Outer' = Outer /\ Pending /\ (Last' <=> Last)
  BY <1>2 DEF Outer, Joined, Last
<1>4. ASSUME NEW o \in Outer, Waiting(o.dest)'
      PROVE  /\ HasPipe(o.rd, o.wr)'
             /\ \A s \in Stages : Over(o.from)' /\ IsLast(o.from, s)'
                                    => kid'[o.from][s].out = fds'[o.wr]
  <2>1. Waiting(o.dest)
    <3>1. o.dest \in LineNos /\ Started(o.dest, 1) => Started(o.dest, 1)'
      BY <1>1, ForkStarts, Bounds DEF BaseInv
    <3> QED BY <1>4, <3>1 DEF Waiting
  <2>2. HasPipe(o.rd, o.wr)
    BY <1>3, <2>1 DEF Pending
  <2>3. o.rd \in Fds /\ o.wr \in Fds /\ o.from \in LineNos /\ o.from <= line_no
    BY OuterFacts DEF BaseInv, Entries
  <2>4. fds'[o.rd] = fds[o.rd] /\ fds'[o.wr] = fds[o.wr]
    BY <2>2, <2>3, ForkKeeps, EndFacts DEF HasPipe
  <2>5. HasPipe(o.rd, o.wr)'
    BY <2>2, <2>4 DEF HasPipe
  <2>6. ASSUME NEW s \in Stages, Over(o.from)', IsLast(o.from, s)'
        PROVE  kid'[o.from][s].out = fds'[o.wr]
    <3>1. CASE o.from # line_no
      <4>1. Over(o.from)
        BY <2>3, <3>1, Bounds, LineNoFacts DEF Over, BaseInv
      <4>2. IsLast(o.from, s)
        BY <1>1, <2>3, <2>6, <3>1, ForkLastOfLine
      <4>3. kid'[o.from][s] = kid[o.from][s]
        BY <1>1, <2>3, <3>1, ForkStarts DEF BaseInv
      <4> QED BY <1>3, <2>1, <2>4, <4>1, <4>2, <4>3 DEF Pending
    <3>2. CASE o.from = line_no
      <4>1. Last
        BY <1>2, <1>3, <2>6, <3>2, LineNoFacts DEF Over, Busy, BaseInv
      <4>2. StartsLast(k)
        BY <4>1 DEF StartsMore
      <4>3. k.out = fds[o.wr]
        BY <3>2, <4>2, LastOutIs DEF StartsLast, Young
      <4>4. IsLast(line_no, s)'
        BY <1>2, <2>6, <3>2 DEF IsLast, Started
      <4>5. s = i
        BY <1>1, <4>4, ForkLastOfLine
      <4>6. kid'[line_no][i] = k
        BY <1>1, ForkStarts DEF BaseInv
      <4> QED BY <2>4, <3>2, <4>3, <4>5, <4>6
    <3> QED BY <3>1, <3>2
  <2> QED BY <2>5, <2>6
<1> QED BY <1>3, <1>4 DEF Pending, HasPipe

LEMMA ForkPaired ==
  ASSUME BaseInv, Joined, NEW k \in Proc, StartsLast(k) \/ StartsMore(k)
  PROVE  Paired'
<1>1. Starts(k) /\ k.st = "run" /\ k.in = Refers(InFd)
  BY DEF StartsLast, StartsMore, Young
<1>2. /\ pc = "stage" /\ UNCHANGED <<line_no, outer>> /\ line_no \in LineNos /\ i \in Stages
  BY <1>1 DEF Starts
<1>3. Outer' = Outer /\ Pending /\ Between /\ Paired
  BY <1>2 DEF Outer, Joined
<1>4. /\ kid'[line_no][i] = k
      /\ \A l \in LineNos, s \in Stages : l # line_no \/ s # i => kid'[l][s] = kid[l][s]
      /\ \A l \in LineNos, s \in Stages :
              Started(l, s)' <=> (Started(l, s) \/ (l = line_no /\ s = i))
  BY <1>1, ForkStarts DEF BaseInv
<1>5. \A s \in Stages : Started(line_no, s) <=> s < i
  BY <1>2 DEF BaseInv, Queue, Busy
<1>6. ASSUME NEW l \in LineNos, NEW s \in Stages, NEW t \in Stages, t = s + 1, Started(l, t)'
      PROVE  Pair(l, s, l, t)'
  <2>1. CASE l = line_no /\ t = i
    <3>1. i # 1 /\ s = i - 1 /\ s # i
      BY <1>6, <2>1, Bounds
    <3>2. Passes(s, before[1])
      BY <1>2, <1>3, <3>1 DEF Between
    <3>3. k.in = fds[before[1]]
      BY <1>1, <3>1, <3>2 DEF InFd, Refers, Passes
    <3>4. PICK p \in Pipes : kid[line_no][s].out = W(p) /\ fds[before[1]] = R(p)
      BY <3>2 DEF Passes
    <3>5. kid'[l][s].out = W(p) /\ kid'[l][t].in = R(p)
      BY <1>2, <1>4, <2>1, <3>1, <3>3, <3>4
    <3> QED BY <3>5 DEF Pair
  <2>2. CASE ~(l = line_no /\ t = i)
    <3>1. Started(l, t)
      BY <1>4, <1>6, <2>2
    <3>2. PICK p \in Pipes : kid[l][s].out = W(p) /\ kid[l][t].in = R(p)
      BY <1>3, <1>6, <3>1 DEF Paired, Pair
    <3>3. l # line_no \/ s # i
      <4>1. l = line_no => t < i
        BY <1>5, <3>1
      <4> QED BY <1>2, <1>6, <4>1, Bounds
    <3>4. kid'[l][s].out = W(p) /\ kid'[l][t].in = R(p)
      BY <1>4, <2>2, <3>2, <3>3
    <3> QED BY <3>4 DEF Pair
  <2> QED BY <2>1, <2>2
<1>7. ASSUME NEW o \in Outer, NEW s \in Stages, IsLast(o.from, s)', o.dest \in LineNos,
             Started(o.dest, 1)'
      PROVE  Pair(o.from, s, o.dest, 1)'
  <2>1. o.from \in LineNos /\ 1 \in Stages /\ o.from <= line_no /\ o.from < o.dest
    BY OuterFacts, Bounds DEF BaseInv, Entries
  <2>2. o.dest <= line_no
    BY <1>2, <1>4, <1>7, <2>1, LineNoFacts DEF BaseInv, Queue
  <2>3. o.from # line_no /\ o.from < line_no
    BY <1>7, <2>1, <2>2, Bounds, LineNoFacts DEF BaseInv
  <2>4. IsLast(o.from, s)
    BY <1>1, <1>7, <2>1, <2>3, ForkLastOfLine
  <2>5. kid'[o.from][s] = kid[o.from][s]
    BY <1>4, <2>1, <2>3
  <2>6. CASE o.dest = line_no /\ i = 1
    <3>1. Waiting(o.dest) /\ Over(o.from)
      <4>1. ~Started(line_no, 1)
        BY <1>5, <2>1, <2>6, Bounds
      <4> QED BY <2>3, <2>6, <4>1 DEF Waiting, Over
    <3>2. HasPipe(o.rd, o.wr) /\ kid[o.from][s].out = fds[o.wr]
      BY <1>3, <2>4, <3>1 DEF Pending
    <3>3. k.in = fds[o.rd]
      BY <1>1, <2>6, InFdIs, OuterFacts DEF Refers, BaseInv
    <3>4. PICK p \in Pipes : fds[o.rd] = R(p) /\ fds[o.wr] = W(p)
      BY <3>2 DEF HasPipe
    <3>5. kid'[o.from][s].out = W(p) /\ kid'[o.dest][1].in = R(p)
      BY <1>4, <2>5, <2>6, <3>2, <3>3, <3>4
    <3> QED BY <3>5 DEF Pair
  <2>7. CASE ~(o.dest = line_no /\ i = 1)
    <3>1. Started(o.dest, 1) /\ kid'[o.dest][1] = kid[o.dest][1]
      BY <1>4, <1>7, <2>1, <2>7
    <3>2. Pair(o.from, s, o.dest, 1)
      BY <1>3, <1>7, <2>4, <3>1 DEF Paired
    <3> QED BY <2>5, <3>1, <3>2 DEF Pair
  <2> QED BY <2>6, <2>7
<1> QED BY <1>3, <1>6, <1>7 DEF Paired

LEMMA ForkBetween ==
  ASSUME BaseInv, Joined, NotStale, NEW k \in Proc, StartsLast(k) \/ StartsMore(k)
  PROVE  Between'
<1>1. Starts(k)
  BY DEF StartsLast, StartsMore
<1>2. /\ pc = "stage" /\ pc' = "clean"
      /\ UNCHANGED <<line_no, cmdline, i, before, outer>>
      /\ line_no \in LineNos /\ i \in Stages
  BY <1>1 DEF Starts
<1>3. Between /\ (Last' <=> Last)
  BY <1>2 DEF Joined, Last
<1>4. CASE StartsLast(k)
  BY <1>2, <1>3, <1>4 DEF Between, StartsLast
<1>5. CASE StartsMore(k)
  <2>1. PICK p \in Pipes : k.out = W(p) /\ k.st = "run" /\ Opens(after'[1], after'[2], p)
    BY <1>5 DEF StartsMore, Young
  <2> DEFINE r == after'[1]
             w == after'[2]
  <2>2. ~Last
    BY <1>5 DEF StartsMore
  <2>3. /\ r \in Fds /\ w \in Fds /\ fds[r] = Shut /\ fds[w] = Shut
        /\ fds'[r] = R(p) /\ fds'[w] = W(p)
    BY <2>1 DEF Opens
  <2>4. AfterFds' = {r, w}
    BY <2>3, Bounds DEF AfterFds
  <2>5. kid'[line_no][i] = k
    BY <1>1, <2>1, ForkStarts DEF BaseInv
  <2> HIDE DEF r, w
  <2>6. AfterFds' \subseteq Open' /\ AfterFds' \cap Open = {}
    BY <2>3, <2>4, EndFacts DEF Open
  <2>7. BeforeFds \subseteq Open
    <3>1. CASE i = 1
      BY <1>2, <3>1 DEF BaseInv, LeakInv, Shape, BeforeFds
    <3>2. CASE i # 1
      BY <1>2, <1>3, <3>2 DEF Between
    <3> QED BY <3>1, <3>2
  <2>8. Due \subseteq Open
    <3>1. CASE SameDest(line_no) = {}
      BY <3>1, InDue DEF SameDest
    <3>2. CASE Len(cmdline.cmds) < 3
      <4>1. cmdline \in Lines /\ i <= Len(cmdline.cmds)
        BY <1>2 DEF BaseInv, Typed, ShellTypes, Busy
      <4>2. Len(cmdline.cmds) \in Nat /\ i # Len(cmdline.cmds)
        BY <2>2, <4>1, LineFacts, Bounds DEF Last
      <4>3. i = 1
        BY <1>2, <3>2, <4>1, <4>2, Bounds
      <4> QED BY <1>2, <4>3 DEF BaseInv, LeakInv, OpenOnes
    <3> QED BY <3>1, <3>2 DEF NotStale
  <2>9. BeforeFds' = BeforeFds /\ Due' = Due
    BY <1>2, SameDue DEF BeforeFds
  <2>10. AfterFds' \cap (BeforeFds' \cup Due') = {}
    BY <2>6, <2>7, <2>8, <2>9
  <2>11. after'[1] \in Fds /\ kid'[line_no'][i'].out = W(p) /\ fds'[after'[1]] = R(p)
    BY <1>2, <2>1, <2>3, <2>5 DEF r
  <2>12. Passes(i, after[1])'
    BY <2>11 DEF Passes
  <2> QED BY <1>2, <1>3, <2>2, <2>6, <2>10, <2>12 DEF Between
<1> QED BY <1>4, <1>5

LEMMA JoinedFork == ASSUME BaseInv, Joined, NotStale, ForkProcess PROVE Joined'
<1>1. PICK k \in Proc : StartsLast(k) \/ StartsMore(k)
  BY ForkSteps DEF BaseInv
<1> QED BY <1>1, ForkPending, ForkPaired, ForkBetween DEF Joined

LEMMA JoinedStep ==
  ASSUME BaseInv, Joined, NotStale, [NpNext]_npVars
  PROVE  Joined'
  BY NextCases, JoinedOthers, JoinedParser, JoinedFork, JoinedClean, JoinedWait, JoinedWaitLast
     DEF BaseInv

LEMMA AlwaysBase == NpSpec => []BaseInv
  BY AlwaysTyped, AlwaysLeakInv, AlwaysQueue, PTL DEF BaseInv

LEMMA AlwaysJoined == NpSpec /\ []NotStale => []Joined
<1>1. NpInit => Joined
  BY JoinedInit
<1>2. BaseInv /\ Joined /\ NotStale /\ [NpNext]_npVars => Joined'
  BY JoinedStep
<1> QED BY <1>1, <1>2, AlwaysBase, PTL DEF NpSpec

\* Where lines of three commands receive no numbered pipe, any two commands that belong
\* together are joined by one pipe: the next one on the line, and the first one of
\* the line that |n names, however many lines share it and whatever descriptors
\* have been closed and given out again in between.
THEOREM StaysConnected == NpSpec /\ []NotStale => []Connected
  BY AlwaysBase, AlwaysJoined, JoinedImplies, PTL
-----------------------------------------------------------------------------
(* No command loses its output.                                            *)

\* Somebody who is there for what is written: it runs, or does not read, or died of
\* its own output.
Done(m, t) == kid[m][t].kind # "filter" \/ kid[m][t].broken = TRUE
Lives(m, t) == Running(m, t) \/ Done(m, t)

\* No output is closed from the start, and who lost it has ended.
Outs == \A l \in LineNos, s \in Stages : Started(l, s) =>
          /\ kid[l][s].out # Shut /\ kid[l][s].err \in {Tty, kid[l][s].out}
          /\ kid[l][s].broken = TRUE => ~Running(l, s)

\* The shell is about to start the command that reads what <<l, s>> writes.
Mid(l, s) == /\ l = line_no
             /\ \/ pc \in {"clean", "wait"} /\ ~Last /\ s = i
                \/ pc = "stage" /\ i = s + 1

\* A command that writes to a pipe has a next one, now or later on its line, or in a line
\* that is named by |n.
Ahead == \A l \in LineNos, s \in Stages : Started(l, s) /\ kid[l][s].out.end = "w" =>
           \/ \E t \in Stages : t = s + 1 /\ Started(l, t)
           \/ Mid(l, s)
           \/ Over(l) /\ IsLast(l, s) /\ \E o \in Outer : o.from = l

\* A filter does not end, of itself, before the command it reads from.
ReadersLive ==
  /\ \A l \in LineNos : \A s, t \in Stages :
       t = s + 1 /\ Started(l, t) /\ Running(l, s) => Lives(l, t)
  /\ \A o \in Outer : \A s \in Stages :
       /\ IsLast(o.from, s) /\ Running(o.from, s) /\ o.dest \in LineNos /\ Started(o.dest, 1)
       => Lives(o.dest, 1)

\* The reason why <<l, s>> could lose its output.
Lost(l, s) == \/ \E t \in Stages : t = s + 1 /\ Started(l, t) /\ Done(l, t)
              \/ /\ IsLast(l, s)
                 /\ \E o \in Outer : /\ o.from = l /\ o.dest \in LineNos
                                     /\ Started(o.dest, 1) /\ Done(o.dest, 1)

Losses == \/ client = "gone" \/ pc = "exited"
          \/ \A l \in LineNos, s \in Stages : kid[l][s].broken = TRUE => Lost(l, s)

ServeInv == Outs /\ Ahead /\ ReadersLive /\ Losses

LEMMA ServeImplies == ASSUME BaseInv, Joined, ServeInv PROVE Served
<1> SUFFICES ASSUME client # "gone", pc # "exited",
                    NEW l \in LineNos, NEW s \in Stages, kid[l][s].broken
             PROVE  \E m \in LineNos, t \in Stages :
                      /\ Feeds(l, s, m, t) /\ Started(m, t)
                      /\ kid[m][t].kind # "filter" \/ kid[m][t].broken
  BY DEF Served, OutputArrives
<1>1. kid[l][s] \in Proc
  BY DEF BaseInv, Typed
<1>2. kid[l][s].broken = TRUE
  BY <1>1 DEF Proc
<1>3. Lost(l, s)
  BY <1>2 DEF ServeInv, Losses
<1>4. CASE \E t \in Stages : t = s + 1 /\ Started(l, t) /\ Done(l, t)
  BY <1>4 DEF Feeds, Done
<1>5. CASE /\ IsLast(l, s)
           /\ \E o \in Outer : /\ o.from = l /\ o.dest \in LineNos
                               /\ Started(o.dest, 1) /\ Done(o.dest, 1)
  <2>1. PICK o \in Outer : /\ o.from = l /\ o.dest \in LineNos
                           /\ Started(o.dest, 1) /\ Done(o.dest, 1)
    BY <1>5
  <2>2. Started(l, s) /\ s = LastStage(l) /\ 1 \in Stages
    BY <1>5, LastStageIs, Bounds DEF IsLast, BaseInv
  <2>3. Feeds(l, s, o.dest, 1)
    BY <2>1, <2>2 DEF Feeds
  <2> QED BY <2>1, <2>2, <2>3 DEF Done
<1> QED BY <1>3, <1>4, <1>5 DEF Lost

LEMMA ServeInit == ASSUME NpInit PROVE ServeInv
<1>1. Outer = {} /\ pc = "prompt"
  BY DEF NpInit, Init, Outer
<1>2. \A l \in LineNos, s \in Stages : ~Started(l, s) /\ kid[l][s].broken = FALSE
  BY DEF NpInit, Init, Started, NoKid
<1>3. Outs /\ Ahead /\ Losses
  BY <1>2 DEF Outs, Ahead, Losses
<1>4. ReadersLive
  BY <1>1, <1>2 DEF ReadersLive
<1> QED BY <1>3, <1>4 DEF ServeInv

LEMMA HeldByShell == ASSUME NEW x, NEW f \in Fds, fds[f] = x PROVE Held(x)
  BY DEF Held
LEMMA HeldByKid == ASSUME NEW x, NEW l \in LineNos, NEW s \in Stages, Running(l, s),
                          x = kid[l][s].in \/ x = kid[l][s].out
                   PROVE  Held(x)
  BY DEF Held

\* A command that dies of what it writes has lost its reader for one of the reasons.
LEMMA DieLost ==
  ASSUME BaseInv, Joined, ServeInv, pc # "exited",
         NEW l \in LineNos, NEW s \in Stages, DieWriting(l, s)
  PROVE  Lost(l, s)
<1> DEFINE x == kid[l][s].out
           p == x.pipe
<1>1. Running(l, s) /\ Started(l, s)
  BY DEF DieWriting, Running, Started
<1>2. kid[l][s] \in Proc /\ x \in Ends4
  BY DEF BaseInv, Typed, Proc
<1>3. x # Shut /\ kid[l][s].err \in {Tty, x}
  BY <1>1 DEF ServeInv, Outs
<1>4. ~Broken(Tty)
  BY EndFacts DEF Broken
<1>5. Broken(x)
  BY <1>3, <1>4 DEF DieWriting
<1>6. x.end = "w" /\ ~Held(R(p)) /\ x = W(p) /\ p \in Pipes
  BY <1>2, <1>3, <1>5, EndKinds DEF Broken
<1> HIDE DEF p
<1>7. \A q : x = W(q) => q = p
  <2>1. W(p).pipe = p /\ \A q : W(q).pipe = q
    BY EndFacts
  <2>2. W(p) = x
    BY <1>6
  <2> QED BY <2>1, <2>2
<1>8. Pending /\ Between /\ Paired
  BY DEF Joined
<1>9. CASE \E t \in Stages : t = s + 1 /\ Started(l, t)
  <2>1. PICK t \in Stages : t = s + 1 /\ Started(l, t)
    BY <1>9
  <2>2. Lives(l, t) /\ Pair(l, s, l, t)
    BY <1>1, <1>8, <2>1 DEF ServeInv, ReadersLive, Paired
  <2>3. kid[l][t].in = R(p)
    BY <1>7, <2>2 DEF Pair
  <2>4. ~Running(l, t)
    BY <1>6, <2>3, HeldByKid
  <2> QED BY <2>1, <2>2, <2>4 DEF Lives, Lost
<1>10. CASE Mid(l, s)
  <2>1. PICK f \in Fds : \E q \in Pipes : x = W(q) /\ fds[f] = R(q)
    <3>1. CASE pc \in {"clean", "wait"} /\ ~Last /\ s = i
      BY <1>8, <1>10, <3>1 DEF Mid, Between, Passes
    <3>2. CASE pc = "stage" /\ i = s + 1
      <4>1. i # 1 /\ s = i - 1
        BY <3>2, Bounds
      <4> QED BY <1>8, <1>10, <3>2, <4>1 DEF Mid, Between, Passes
    <3> QED BY <1>10, <3>1, <3>2 DEF Mid
  <2>2. fds[f] = R(p)
    BY <1>7, <2>1
  <2> QED BY <1>6, <2>2, HeldByShell
<1>11. CASE Over(l) /\ IsLast(l, s) /\ \E o \in Outer : o.from = l
  <2>1. PICK o \in Outer : o.from = l
    BY <1>11
  <2>2. CASE Waiting(o.dest)
    <3>1. HasPipe(o.rd, o.wr) /\ x = fds[o.wr]
      BY <1>8, <1>11, <2>1, <2>2 DEF Pending
    <3>2. fds[o.rd] = R(p) /\ o.rd \in Fds
      BY <1>7, <3>1, OuterFacts DEF HasPipe, BaseInv
    <3> QED BY <1>6, <3>2, HeldByShell
  <2>3. CASE ~Waiting(o.dest)
    <3>1. o.dest \in LineNos /\ Started(o.dest, 1) /\ 1 \in Stages
      BY <2>3, Bounds DEF Waiting
    <3>2. Lives(o.dest, 1) /\ Pair(l, s, o.dest, 1)
      BY <1>1, <1>8, <1>11, <2>1, <3>1 DEF ServeInv, ReadersLive, Paired
    <3>3. kid[o.dest][1].in = R(p)
      BY <1>7, <3>2 DEF Pair
    <3>4. ~Running(o.dest, 1)
      BY <1>6, <3>1, <3>3, HeldByKid
    <3> QED BY <1>11, <2>1, <3>1, <3>2, <3>4 DEF Lives, Lost
  <2> QED BY <2>2, <2>3
<1> QED BY <1>1, <1>6, <1>9, <1>10, <1>11 DEF ServeInv, Ahead


\* A step in which nobody ends and nobody loses output.
Quiet == /\ SameJobs
         /\ \A m \in LineNos, t \in Stages :
              kid'[m][t].broken = kid[m][t].broken /\ (Running(m, t)' <=> Running(m, t))

LEMMA QuietKid == ASSUME UNCHANGED kid PROVE Quiet
  BY DEF Quiet, SameJobs, Running

LEMMA QuietReaps == ASSUME NEW l, NEW s, Reaps(l, s) PROVE Quiet
<1>1. ASSUME NEW m \in LineNos, NEW t \in Stages
      PROVE  kid'[m][t].broken = kid[m][t].broken /\ (Running(m, t)' <=> Running(m, t))
  BY DEF Reaps, OnlyKid, Running
<1> QED BY <1>1 DEF Quiet, Reaps

LEMMA QuietGoes == ASSUME NEW l \in LineNos, NEW s \in Stages, GoesOn(l, s) PROVE Quiet
<1>1. ASSUME NEW m \in LineNos, NEW t \in Stages
      PROVE  kid'[m][t].broken = kid[m][t].broken /\ (Running(m, t)' <=> Running(m, t))
  BY DEF GoesOn, Going, OnlyKid, Running
<1> QED BY <1>1 DEF Quiet, GoesOn, Going

\* Who runs or is done stays so.
LEMMA QuietLives ==
  ASSUME Quiet
  PROVE  \A m \in LineNos, t \in Stages : (Done(m, t) => Done(m, t)') /\ (Lives(m, t) => Lives(m, t)')
  BY DEF Quiet, SameJobs, Done, Lives

LEMMA OutsQuiet == ASSUME Quiet, Outs PROVE Outs'
  BY SameStarted DEF Outs, Quiet, SameJobs

\* Nobody who is there for a writer leaves it alone.
LEMMA ReadersKept ==
  ASSUME BaseInv, ReadersLive, SameJobs, Outer' = Outer,
         \A m \in LineNos, t \in Stages : Running(m, t)' => Running(m, t),
         \A l \in LineNos, s \in Stages, m \in LineNos, t \in Stages :
           /\ Running(l, s)' /\ Lives(m, t) /\ Started(l, s) /\ Started(m, t)
           /\ \/ l = m /\ t = s + 1
              \/ \E o \in Outer : o.from = l /\ o.dest = m /\ IsLast(l, s) /\ t = 1
           => Lives(m, t)'
  PROVE  ReadersLive'
<1>1. ASSUME NEW l \in LineNos, NEW s \in Stages, NEW t \in Stages, t = s + 1,
             Started(l, t)', Running(l, s)'
      PROVE  Lives(l, t)'
  <2>1. Started(l, t) /\ Running(l, s) /\ Started(l, s)
    BY <1>1, SameStarted DEF Running, Started
  <2>2. Lives(l, t)
    BY <1>1, <2>1 DEF ReadersLive
  <2> QED BY <1>1, <2>1, <2>2
<1>2. ASSUME NEW o \in Outer, NEW s \in Stages, IsLast(o.from, s)', Running(o.from, s)',
             o.dest \in LineNos, Started(o.dest, 1)'
      PROVE  Lives(o.dest, 1)'
  <2>1. o.from \in LineNos /\ 1 \in Stages
    BY OuterFacts, Bounds DEF BaseInv
  <2>2. IsLast(o.from, s) /\ Started(o.dest, 1) /\ Running(o.from, s) /\ Started(o.from, s)
    BY <1>2, <2>1, SameStarted, SameLast DEF IsLast
  <2>3. Lives(o.dest, 1)
    BY <1>2, <2>2 DEF ReadersLive
  <2> QED BY <1>2, <2>1, <2>2, <2>3
<1> QED BY <1>1, <1>2 DEF ReadersLive

LEMMA ReadersQuiet ==
  ASSUME BaseInv, ReadersLive, Quiet, Outer' = Outer
  PROVE  ReadersLive'
  BY ReadersKept, QuietLives DEF Quiet

\* The reasons stay reasons.
LEMMA LostKept ==
  ASSUME BaseInv, SameJobs, Outer \subseteq Outer',
         \A m \in LineNos, t \in Stages : Done(m, t) => Done(m, t)',
         NEW l \in LineNos, NEW s \in Stages, Lost(l, s)
  PROVE  Lost(l, s)'
<1>1. CASE \E t \in Stages : t = s + 1 /\ Started(l, t) /\ Done(l, t)
  BY <1>1, SameStarted DEF Lost
<1>2. CASE /\ IsLast(l, s)
           /\ \E o \in Outer : /\ o.from = l /\ o.dest \in LineNos
                               /\ Started(o.dest, 1) /\ Done(o.dest, 1)
  <2>1. IsLast(l, s)' /\ 1 \in Stages
    BY <1>2, SameLast, Bounds
  <2>2. \E o \in Outer' : /\ o.from = l /\ o.dest \in LineNos
                          /\ Started(o.dest, 1)' /\ Done(o.dest, 1)'
    BY <1>2, <2>1, SameStarted
  <2> QED BY <2>1, <2>2 DEF Lost
<1> QED BY <1>1, <1>2 DEF Lost

LEMMA LossesQuiet ==
  ASSUME BaseInv, Quiet, Losses, Outer \subseteq Outer', [NpNext]_npVars,
         pc = "exited" => pc' = "exited"
  PROVE  Losses'
<1>1. client = "gone" => client' = "gone"
  BY DEF NpNext, npVars, netVars, SystemRuns, Main, Accept, Fork, CloseSocket, ShellRuns, HangUp,
         CommandRuns, Types, DieAtTty, Connect, Leave
<1>2. CASE client = "gone" \/ pc = "exited"
  BY <1>1, <1>2 DEF Losses
<1>3. CASE client # "gone" /\ pc # "exited"
  <2>1. ASSUME NEW l \in LineNos, NEW s \in Stages, kid'[l][s].broken = TRUE
        PROVE  Lost(l, s)'
    <3>1. Lost(l, s)
      BY <1>3, <2>1 DEF Losses, Quiet
    <3> QED BY <3>1, LostKept, QuietLives DEF Quiet
  <2> QED BY <2>1 DEF Losses
<1> QED BY <1>2, <1>3

\* The shell goes on.
LEMMA AheadKept ==
  ASSUME BaseInv, Ahead, SameJobs, Outer \subseteq Outer',
         \A l \in LineNos, s \in Stages : (Mid(l, s) => Mid(l, s)') /\ (Over(l) => Over(l)')
  PROVE  Ahead'
<1> SUFFICES ASSUME NEW l \in LineNos, NEW s \in Stages, Started(l, s)', kid'[l][s].out.end = "w"
             PROVE  \/ \E t \in Stages : t = s + 1 /\ Started(l, t)'
                    \/ Mid(l, s)'
                    \/ Over(l)' /\ IsLast(l, s)' /\ \E o \in Outer' : o.from = l
  BY DEF Ahead
<1>1. Started(l, s) /\ kid[l][s].out.end = "w"
  BY SameStarted DEF SameJobs
<1>2. CASE \E t \in Stages : t = s + 1 /\ Started(l, t)
  BY <1>2, SameStarted
<1>3. CASE Mid(l, s)
  BY <1>3
<1>4. CASE Over(l) /\ IsLast(l, s) /\ \E o \in Outer : o.from = l
  BY <1>4, SameLast
<1> QED BY <1>1, <1>2, <1>3, <1>4 DEF Ahead


LEMMA ServeQuiet ==
  ASSUME BaseInv, ServeInv, Quiet, Outer' = Outer, [NpNext]_npVars,
         pc = "exited" => pc' = "exited",
         \A l \in LineNos, s \in Stages : (Mid(l, s) => Mid(l, s)') /\ (Over(l) => Over(l)')
  PROVE  ServeInv'
<1>1. SameJobs
  BY DEF Quiet
<1>2. Outs' /\ Ahead' /\ ReadersLive' /\ Losses'
  BY <1>1, OutsQuiet, AheadKept, ReadersQuiet, LossesQuiet DEF ServeInv
<1> QED BY <1>2 DEF ServeInv

LEMMA ServeParser ==
  ASSUME BaseInv, ServeInv, NEW l \in Lines, Parser(l), [NpNext]_npVars
  PROVE  ServeInv'
<1>1. Reads(l)
  BY ParserSteps DEF BaseInv
<1>2. /\ pc = "prompt" /\ pc' = "stage" /\ line_no' = line_no + 1 /\ i' = 1 /\ kid' = kid
  BY <1>1 DEF Reads
<1>3. Quiet /\ SameJobs /\ ~Busy
  BY <1>2, QuietKid DEF Busy, Quiet
<1>4. \A m \in LineNos, s \in Stages : (Mid(m, s) => Mid(m, s)') /\ (Over(m) => Over(m)')
  BY <1>2, <1>3, LineNoFacts, Bounds DEF BaseInv, Mid, Over
<1>5. CASE NoPipe
  <2>1. Outer' = Outer
    BY <1>5 DEF NoPipe, Outer
  <2> QED BY <1>2, <1>3, <1>4, <2>1, ServeQuiet
<1>6. ASSUME NEW e \in Entry, Adds(e)
      PROVE  ServeInv'
  <2>1. Outer' = Outer \cup {e} /\ e.dest > line_no + 1
    BY <1>6, AppendOuter DEF Adds, BaseInv
  <2>2. Outs' /\ Ahead' /\ Losses'
    BY <1>2, <1>3, <1>4, <2>1, OutsQuiet, AheadKept, LossesQuiet DEF ServeInv
  <2>3. \A m \in LineNos : \A s, t \in Stages :
           t = s + 1 /\ Started(m, t)' /\ Running(m, s)' => Lives(m, t)'
    <3>1. \A m \in LineNos : \A s, t \in Stages :
           t = s + 1 /\ Started(m, t) /\ Running(m, s) => Lives(m, t)
      BY DEF ServeInv, ReadersLive
    <3> QED BY <1>3, <3>1, SameStarted, QuietLives DEF Quiet
  <2>4. ASSUME NEW o \in Outer', NEW s \in Stages, IsLast(o.from, s)', Running(o.from, s)',
               o.dest \in LineNos, Started(o.dest, 1)'
        PROVE  Lives(o.dest, 1)'
    <3>1. 1 \in Stages
      BY Bounds
    <3>2. Started(o.dest, 1)
      BY <1>3, <2>4, <3>1, SameStarted
    <3>3. o.dest <= line_no
      BY <2>4, <3>1, <3>2 DEF BaseInv, Queue
    <3>4. o # e
      BY <2>1, <3>3, <2>4, LineNoFacts, Bounds DEF BaseInv
    <3>5. o \in Outer /\ o.from \in LineNos
      BY <2>1, <3>4, OuterFacts DEF BaseInv
    <3>6. Lives(o.dest, 1)
      BY <1>3, <2>4, <3>2, <3>5, SameLast DEF ServeInv, ReadersLive, Quiet
    <3> QED BY <1>3, <2>4, <3>1, <3>6, QuietLives
  <2>5. ReadersLive'
    BY <2>3, <2>4 DEF ReadersLive
  <2> QED BY <2>2, <2>5 DEF ServeInv
<1> QED BY <1>5, <1>6, ParserSteps DEF BaseInv

LEMMA ServeClean ==
  ASSUME BaseInv, ServeInv, CleanUp, [NpNext]_npVars
  PROVE  ServeInv'
<1>1. /\ pc = "clean" /\ pc' = "wait" /\ UNCHANGED <<line_no, cmdline, i, outer, kid>>
  BY CleanSteps DEF Cleans, BaseInv
<1>2. Outer' = Outer /\ Quiet
  BY <1>1, QuietKid DEF Outer
<1>3. \A m \in LineNos, s \in Stages : (Mid(m, s) => Mid(m, s)') /\ (Over(m) => Over(m)')
  BY <1>1 DEF Mid, Over, Busy, Last
<1> QED BY <1>1, <1>2, <1>3, ServeQuiet

LEMMA ServeWait ==
  ASSUME BaseInv, ServeInv, WaitPrevious, [NpNext]_npVars
  PROVE  ServeInv'
<1>1. WaitsOver /\ (GoesToNext \/ GoesToEnd)
  BY WaitSteps DEF GoesToNext, GoesToEnd, BaseInv
<1>2. pc = "wait" /\ UNCHANGED <<line_no, cmdline, outer>> /\ Quiet
  BY <1>1, QuietKid, QuietReaps DEF WaitsOver
<1>3. Outer' = Outer
  BY <1>2 DEF Outer
<1>4. \A m \in LineNos, s \in Stages : (Mid(m, s) => Mid(m, s)') /\ (Over(m) => Over(m)')
  <2>1. CASE GoesToNext
    BY <1>2, <2>1 DEF GoesToNext, Mid, Over, Busy
  <2>2. CASE GoesToEnd
    BY <1>2, <2>2 DEF GoesToEnd, Mid, Over, Busy, Last
  <2> QED BY <1>1, <2>1, <2>2
<1> QED BY <1>2, <1>3, <1>4, ServeQuiet

LEMMA ServeWaitLast ==
  ASSUME BaseInv, ServeInv, WaitLast, [NpNext]_npVars
  PROVE  ServeInv'
<1>1. /\ pc = "waitlast" /\ pc' = "prompt" /\ Reaps(line_no, i)
      /\ UNCHANGED <<line_no, cmdline, i, outer>>
  BY WaitLastSteps DEF BaseInv
<1>2. Outer' = Outer /\ Quiet
  BY <1>1, QuietReaps DEF Outer
<1>3. \A m \in LineNos, s \in Stages : (Mid(m, s) => Mid(m, s)') /\ (Over(m) => Over(m)')
  BY <1>1 DEF Mid, Over, Busy
<1> QED BY <1>1, <1>2, <1>3, ServeQuiet

\* A filter that ends has nobody running that writes to it.
LEMMA FinishApart ==
  ASSUME NEW l \in LineNos, NEW s \in Stages, NEW m \in LineNos, NEW t \in Stages,
         Running(l, s), Pair(l, s, m, t), Finish(m, t)
  PROVE  kid[m][t].kind # "filter"
<1>1. PICK p \in Pipes : kid[l][s].out = W(p) /\ kid[m][t].in = R(p)
  BY DEF Pair
<1>2. Held(W(p)) /\ kid[m][t].in # Shut /\ kid[m][t].in.pipe = p
  BY <1>1, HeldByKid, EndFacts
<1> QED BY <1>2 DEF Finish

LEMMA ServeEnds ==
  ASSUME BaseInv, Joined, ServeInv, [NpNext]_npVars, NEW l \in LineNos, NEW s \in Stages,
         NEW d \in BOOLEAN, IsOver(l, s, d), d = FALSE => Finish(l, s),
         d = TRUE => DieWriting(l, s) \/ client = "gone"
  PROVE  ServeInv'
<1>1. /\ Running(l, s) /\ ShellSame /\ SameJobs /\ OnlyKid(l, s)
      /\ kid'[l][s].st = "zombie" /\ kid'[l][s].broken = d
  BY DEF IsOver, Going
<1>2. Outer' = Outer /\ pc' = pc
  BY <1>1 DEF Outer, ShellSame
<1>3. /\ \A m \in LineNos, t \in Stages : Running(m, t)' => Running(m, t)
      /\ ~Running(l, s)'
  BY <1>1 DEF OnlyKid, Running
<1>4. kid[l][s].broken # TRUE
  BY <1>1 DEF ServeInv, Outs, Running, Started
<1>5. Outs'
  <2>1. ASSUME NEW m \in LineNos, NEW t \in Stages, Started(m, t)'
        PROVE  /\ kid'[m][t].out # Shut /\ kid'[m][t].err \in {Tty, kid'[m][t].out}
               /\ kid'[m][t].broken = TRUE => ~Running(m, t)'
    <3>1. /\ kid[m][t].out # Shut /\ kid[m][t].err \in {Tty, kid[m][t].out}
          /\ kid[m][t].broken = TRUE => ~Running(m, t)
      BY <1>1, <2>1, SameStarted DEF ServeInv, Outs
    <3>2. CASE m = l /\ t = s
      BY <1>1, <1>3, <3>1, <3>2 DEF SameJobs
    <3>3. CASE m # l \/ t # s
      BY <1>1, <1>3, <3>1, <3>3 DEF SameJobs, OnlyKid
    <3> QED BY <3>2, <3>3
  <2> QED BY <2>1 DEF Outs
<1>6. \A m \in LineNos, t \in Stages : (Mid(m, t) => Mid(m, t)') /\ (Over(m) => Over(m)')
  BY <1>1 DEF ShellSame, Mid, Over, Busy, Last
<1>7. Ahead'
  BY <1>1, <1>2, <1>6, AheadKept DEF ServeInv
<1>8. \A m \in LineNos, t \in Stages : Done(m, t) => Done(m, t)'
  BY <1>1, <1>4 DEF Done, SameJobs, OnlyKid
<1>9. ReadersLive'
  <2>1. ASSUME NEW a \in LineNos, NEW b \in Stages, NEW m \in LineNos, NEW t \in Stages,
               Running(a, b)', Lives(m, t), Started(a, b), Started(m, t),
               \/ a = m /\ t = b + 1
               \/ \E o \in Outer : o.from = a /\ o.dest = m /\ IsLast(a, b) /\ t = 1
        PROVE  Lives(m, t)'
    <3>1. CASE m # l \/ t # s
      BY <1>1, <2>1, <3>1 DEF Lives, Done, Running, OnlyKid
    <3>2. CASE m = l /\ t = s /\ d = TRUE
      BY <1>1, <3>2 DEF Lives, Done
    <3>3. CASE m = l /\ t = s /\ d = FALSE
      <4>1. Pair(a, b, m, t)
        BY <2>1 DEF Joined, Paired
      <4>2. kid[m][t].kind # "filter"
        BY <1>3, <2>1, <3>3, <4>1, FinishApart
      <4> QED BY <1>1, <4>2 DEF Lives, Done, SameJobs
    <3> QED BY <3>1, <3>2, <3>3
  <2> QED BY <1>1, <1>2, <1>3, <2>1, ReadersKept DEF ServeInv
<1>10. Losses'
  <2>1. client = "gone" => client' = "gone"
    BY DEF NpNext, npVars, netVars, SystemRuns, Main, Accept, Fork, CloseSocket, ShellRuns, HangUp,
           CommandRuns, Types, DieAtTty, Connect, Leave
  <2>2. CASE client = "gone" \/ pc = "exited"
    BY <1>2, <2>1, <2>2 DEF Losses
  <2>3. CASE client # "gone" /\ pc # "exited"
    <3>1. ASSUME NEW m \in LineNos, NEW t \in Stages, kid'[m][t].broken = TRUE
          PROVE  Lost(m, t)'
      <4>1. CASE m # l \/ t # s
        <5>1. Lost(m, t)
          BY <1>1, <2>3, <3>1, <4>1 DEF ServeInv, Losses, OnlyKid
        <5> QED BY <1>1, <1>2, <1>8, <5>1, LostKept
      <4>2. CASE m = l /\ t = s
        <5>1. DieWriting(l, s)
          BY <1>1, <2>3, <3>1, <4>2
        <5>2. Lost(l, s)
          BY <2>3, <5>1, DieLost
        <5> QED BY <1>1, <1>2, <1>8, <4>2, <5>2, LostKept
      <4> QED BY <4>1, <4>2
    <3> QED BY <3>1 DEF Losses
  <2> QED BY <2>2, <2>3
<1> QED BY <1>5, <1>7, <1>9, <1>10 DEF ServeInv

LEMMA ServeCommands ==
  ASSUME BaseInv, Joined, ServeInv, [NpNext]_npVars, NEW l \in LineNos, NEW s \in Stages,
         Commands(l, s)
  PROVE  ServeInv'
<1>1. Typed
  BY DEF BaseInv
<1>2. CASE GoesOn(l, s)
  <2>1. Quiet /\ ShellSame
    BY <1>2, QuietGoes DEF GoesOn, Going
  <2>2. Outer' = Outer /\ pc' = pc
    BY <2>1 DEF Outer, ShellSame
  <2>3. \A m \in LineNos, t \in Stages : (Mid(m, t) => Mid(m, t)') /\ (Over(m) => Over(m)')
    BY <2>1 DEF ShellSame, Mid, Over, Busy, Last
  <2> QED BY <2>1, <2>2, <2>3, ServeQuiet
<1>3. CASE DieWriting(l, s) \/ DieAtTty(l, s)
  <2>1. IsOver(l, s, TRUE)
    BY <1>1, <1>3, EndingDies
  <2>2. DieWriting(l, s) \/ client = "gone"
    BY <1>3 DEF DieAtTty
  <2> QED BY <2>1, <2>2, ServeEnds
<1>4. CASE Finish(l, s)
  <2>1. IsOver(l, s, FALSE)
    BY <1>1, <1>4, EndingFinish
  <2> QED BY <1>4, <2>1, ServeEnds
<1> QED BY <1>1, <1>2, <1>3, <1>4, GoingWriteError, GoingProduce, GoingCopy
        DEF Commands, Command


LEMMA ServeFork ==
  ASSUME BaseInv, Joined, ServeInv, ForkProcess, [NpNext]_npVars
  PROVE  ServeInv'
<1>1. PICK k \in Proc : StartsLast(k) \/ StartsMore(k)
  BY ForkSteps DEF BaseInv
<1>2. Starts(k) /\ k.st = "run" /\ k.broken = FALSE /\ k.err \in {Tty, k.out}
  BY <1>1 DEF StartsLast, StartsMore, Young
<1>3. /\ pc = "stage" /\ pc' = "clean" /\ UNCHANGED <<line_no, cmdline, i, outer>>
      /\ line_no \in LineNos /\ i \in Stages
  BY <1>2 DEF Starts
<1>4. Outer' = Outer /\ Pending /\ (Last' <=> Last)
  BY <1>3 DEF Outer, Joined, Last
<1>5. /\ kid'[line_no][i] = k
      /\ \A l \in LineNos, s \in Stages : l # line_no \/ s # i => kid'[l][s] = kid[l][s]
      /\ \A l \in LineNos, s \in Stages :
              Started(l, s)' <=> (Started(l, s) \/ (l = line_no /\ s = i))
  BY <1>2, ForkStarts DEF BaseInv
<1>6. \A s \in Stages : Started(line_no, s) <=> s < i
  BY <1>3 DEF BaseInv, Queue, Busy
<1>7. \A l \in LineNos, s \in Stages : Started(l, s) => l # line_no \/ s # i
  BY <1>3, <1>6, Bounds
<1>8. \A l \in LineNos, s \in Stages : l # line_no => (IsLast(l, s)' <=> IsLast(l, s))
  BY <1>2, ForkLastOfLine DEF BaseInv
<1>9. IsLast(line_no, i)'
  <2>1. Started(line_no, i)'
    BY <1>3, <1>5
  <2>2. ASSUME i < MaxStages
        PROVE  ~Started(line_no, i + 1)'
    <3>1. i + 1 \in Stages /\ ~(i + 1 < i) /\ i + 1 # i
      BY <1>3, <2>2, Bounds DEF Stages
    <3> QED BY <1>3, <1>5, <1>6, <3>1
  <2> QED BY <1>3, <2>1, <2>2 DEF IsLast, Started
<1>10. k.out # Shut
  <2>1. CASE StartsMore(k)
    BY <2>1, EndFacts DEF StartsMore, Young
  <2>2. CASE StartsLast(k)
    <3>1. k.out = LastOut
      BY <2>2 DEF StartsLast, Young
    <3>2. CASE \E o \in Outer : o.from = line_no
      <4>1. PICK o \in Outer : o.from = line_no
        BY <3>2
      <4>2. Waiting(o.dest)
        <5>1. o.dest \in Nat /\ o.dest > line_no
          BY <4>1, LineNoFacts, OuterFacts, Bounds DEF BaseInv, Entries
        <5> QED BY <5>1, LaterWaits DEF BaseInv
      <4>3. fds[o.wr] # Shut
        BY <1>4, <4>2, EndFacts DEF Pending, HasPipe
      <4> QED BY <3>1, <4>1, <4>3, LastOutIs
    <3>3. CASE ~\E o \in Outer : o.from = line_no
      BY <3>1, <3>3, EndFacts DEF LastOut
    <3> QED BY <3>2, <3>3
  <2> QED BY <1>1, <2>1, <2>2
<1>11. Outs'
  <2>1. ASSUME NEW m \in LineNos, NEW t \in Stages, Started(m, t)'
        PROVE  /\ kid'[m][t].out # Shut /\ kid'[m][t].err \in {Tty, kid'[m][t].out}
               /\ kid'[m][t].broken = TRUE => ~Running(m, t)'
    <3>1. CASE m = line_no /\ t = i
      BY <1>2, <1>5, <1>10, <3>1
    <3>2. CASE m # line_no \/ t # i
      BY <1>5, <2>1, <3>2 DEF ServeInv, Outs, Running
    <3> QED BY <3>1, <3>2
  <2> QED BY <2>1 DEF Outs
<1>12. Ahead'
  <2> SUFFICES ASSUME NEW l \in LineNos, NEW s \in Stages, Started(l, s)', kid'[l][s].out.end = "w"
               PROVE  \/ \E t \in Stages : t = s + 1 /\ Started(l, t)'
                      \/ Mid(l, s)'
                      \/ Over(l)' /\ IsLast(l, s)' /\ \E o \in Outer' : o.from = l
    BY DEF Ahead
  <2>1. CASE l = line_no /\ s = i /\ ~Last
    BY <1>3, <1>4, <2>1 DEF Mid
  <2>2. CASE l = line_no /\ s = i /\ Last
    <3>1. StartsLast(k)
      BY <1>1, <2>2 DEF StartsMore
    <3>2. LastOut.end = "w"
      BY <1>5, <2>2, <3>1 DEF StartsLast, Young
    <3>3. \E o \in Outer : o.from = line_no
      BY <3>2, EndFacts DEF LastOut
    <3>4. Over(l)'
      BY <1>3, <1>4, <2>2 DEF Over
    <3>5. IsLast(l, s)'
      BY <1>3, <1>9, <2>2 DEF IsLast, Started
    <3> QED BY <1>4, <2>2, <3>3, <3>4, <3>5
  <2>3. CASE l # line_no \/ s # i
    <3>1. Started(l, s) /\ kid[l][s].out.end = "w"
      BY <1>5, <2>3
    <3>2. CASE \E t \in Stages : t = s + 1 /\ Started(l, t)
      BY <1>5, <3>2
    <3>3. CASE Mid(l, s)
      BY <1>3, <1>5, <3>3 DEF Mid
    <3>4. CASE Over(l) /\ IsLast(l, s) /\ \E o \in Outer : o.from = l
      <4>1. l < line_no /\ l # line_no
        BY <1>3, <3>4, Bounds DEF Over, Busy
      <4> QED BY <1>3, <1>4, <1>8, <3>4, <4>1 DEF Over
    <3> QED BY <3>1, <3>2, <3>3, <3>4 DEF ServeInv, Ahead
  <2> QED BY <2>1, <2>2, <2>3
<1>13. \A m \in LineNos, t \in Stages : Started(m, t) =>
         (Lives(m, t) => Lives(m, t)') /\ (Done(m, t) => Done(m, t)')
  BY <1>5, <1>7 DEF Lives, Done, Running
<1>14. ReadersLive'
  <2>1. ASSUME NEW l \in LineNos, NEW s \in Stages, NEW t \in Stages, t = s + 1,
               Started(l, t)', Running(l, s)'
        PROVE  Lives(l, t)'
    <3>1. CASE l = line_no /\ t = i
      BY <1>2, <1>3, <1>5, <3>1 DEF Lives, Running
    <3>2. CASE ~(l = line_no /\ t = i)
      <4>1. Started(l, t)
        BY <1>5, <2>1, <3>2
      <4>2. l # line_no \/ s # i
        <5>1. l = line_no => t < i
          BY <1>6, <4>1
        <5> QED BY <1>3, <2>1, <5>1, Bounds
      <4>3. Running(l, s)
        BY <1>5, <2>1, <4>2 DEF Running
      <4> QED BY <1>13, <2>1, <4>1, <4>3 DEF ServeInv, ReadersLive
    <3> QED BY <3>1, <3>2
  <2>2. ASSUME NEW o \in Outer, NEW s \in Stages, IsLast(o.from, s)', Running(o.from, s)',
               o.dest \in LineNos, Started(o.dest, 1)'
        PROVE  Lives(o.dest, 1)'
    <3>1. o.from \in LineNos /\ 1 \in Stages /\ o.from < o.dest
      BY OuterFacts, Bounds DEF BaseInv, Entries
    <3>2. CASE o.dest = line_no /\ i = 1
      BY <1>2, <1>3, <1>5, <3>2 DEF Lives, Running
    <3>3. CASE ~(o.dest = line_no /\ i = 1)
      <4>1. Started(o.dest, 1)
        BY <1>5, <2>2, <3>1, <3>3
      <4>2. o.from # line_no
        BY <2>2, <3>1, <4>1, Bounds, LineNoFacts DEF BaseInv, Queue
      <4>3. IsLast(o.from, s) /\ Running(o.from, s)
        BY <1>5, <1>8, <2>2, <3>1, <4>2 DEF Running
      <4>4. Lives(o.dest, 1)
        BY <2>2, <4>1, <4>3 DEF ServeInv, ReadersLive
      <4> QED BY <1>13, <2>2, <3>1, <4>1, <4>4
    <3> QED BY <3>2, <3>3
  <2> QED BY <1>4, <2>1, <2>2 DEF ReadersLive
<1>15. Losses'
  <2>1. client = "gone" => client' = "gone"
    BY DEF NpNext, npVars, netVars, SystemRuns, Main, Accept, Fork, CloseSocket, ShellRuns, HangUp,
           CommandRuns, Types, DieAtTty, Connect, Leave
  <2>2. CASE client = "gone"
    BY <2>1, <2>2 DEF Losses
  <2>3. CASE client # "gone"
    <3>1. ASSUME NEW l \in LineNos, NEW s \in Stages, kid'[l][s].broken = TRUE
          PROVE  Lost(l, s)'
      <4>1. l # line_no \/ s # i
        BY <1>2, <1>5, <3>1
      <4>2. Lost(l, s)
        BY <1>3, <1>5, <2>3, <3>1, <4>1 DEF ServeInv, Losses
      <4>3. CASE \E t \in Stages : t = s + 1 /\ Started(l, t) /\ Done(l, t)
        <5>1. PICK t \in Stages : t = s + 1 /\ Started(l, t) /\ Done(l, t)
          BY <4>3
        <5>2. Started(l, t)' /\ Done(l, t)'
          BY <1>5, <1>13, <5>1
        <5> QED BY <5>1, <5>2 DEF Lost
      <4>4. CASE /\ IsLast(l, s)
                 /\ \E o \in Outer : /\ o.from = l /\ o.dest \in LineNos
                                     /\ Started(o.dest, 1) /\ Done(o.dest, 1)
        <5>1. PICK o \in Outer : /\ o.from = l /\ o.dest \in LineNos
                                 /\ Started(o.dest, 1) /\ Done(o.dest, 1)
          BY <4>4
        <5>2. 1 \in Stages /\ o.from < o.dest
          BY Bounds DEF BaseInv, Entries
        <5>3. l # line_no
          BY <5>1, <5>2, Bounds, LineNoFacts DEF BaseInv, Queue
        <5>4. IsLast(l, s)'
          BY <1>8, <4>4, <5>3
        <5>5. Started(o.dest, 1)' /\ Done(o.dest, 1)'
          BY <1>5, <1>13, <5>1, <5>2
        <5> QED BY <1>4, <5>1, <5>4, <5>5 DEF Lost
      <4> QED BY <4>2, <4>3, <4>4 DEF Lost
    <3> QED BY <3>1 DEF Losses
  <2> QED BY <2>2, <2>3
<1> QED BY <1>11, <1>12, <1>14, <1>15 DEF ServeInv

LEMMA ServeOthers ==
  ASSUME BaseInv, ServeInv, [NpNext]_npVars, Rests \/ Quits \/ BuiltIns
  PROVE  ServeInv'
<1>1. Outer' = Outer /\ Quiet /\ (pc = "exited" => pc' = "exited")
  BY QuietKid DEF Rests, Quits, BuiltIns, Outer
<1>2. CASE Rests
  <2>1. \A m \in LineNos, s \in Stages : (Mid(m, s) => Mid(m, s)') /\ (Over(m) => Over(m)')
    BY <1>2 DEF Rests, Mid, Over, Busy, Last
  <2> QED BY <1>1, <2>1, ServeQuiet
<1>3. CASE Quits
  <2>1. \A m \in LineNos, s \in Stages : (Mid(m, s) => Mid(m, s)') /\ (Over(m) => Over(m)')
    BY <1>3 DEF Quits, Mid, Over, Busy, Last
  <2> QED BY <1>1, <2>1, ServeQuiet
<1>4. CASE BuiltIns
  <2>1. pc = "prompt" /\ pc' = "prompt" /\ line_no' = line_no + 1 /\ ~Busy
    BY <1>4 DEF BuiltIns, Busy
  <2>2. \A m \in LineNos, s \in Stages : (Mid(m, s) => Mid(m, s)') /\ (Over(m) => Over(m)')
    BY <2>1, LineNoFacts, Bounds DEF BaseInv, Mid, Over
  <2> QED BY <1>1, <2>2, ServeQuiet
<1> QED BY <1>2, <1>3, <1>4

LEMMA ServeStep ==
  ASSUME BaseInv, Joined, ServeInv, [NpNext]_npVars
  PROVE  ServeInv'
  BY NextCases, ServeOthers, ServeParser, ServeFork, ServeClean, ServeWait, ServeWaitLast,
     ServeCommands DEF BaseInv

LEMMA AlwaysServe == NpSpec /\ []NotStale => []ServeInv
<1>1. NpInit => ServeInv
  BY ServeInit
<1>2. BaseInv /\ Joined /\ ServeInv /\ [NpNext]_npVars => ServeInv'
  BY ServeStep
<1> QED BY <1>1, <1>2, AlwaysBase, AlwaysJoined, PTL DEF NpSpec

\* Nor does a command lose its output there, while the client is connected: if it dies of
\* what it writes, the command that is there to read does not read or died first, or
\* the shell has gone.
THEOREM OutputIsServed == NpSpec /\ []NotStale => []Served
  BY AlwaysBase, AlwaysJoined, AlwaysServe, ServeImplies, PTL
=============================================================================
