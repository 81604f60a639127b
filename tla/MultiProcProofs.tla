-------------------------- MODULE MultiProcProofs --------------------------
(***************************************************************************)
(* Proofs about the multi-process server, for any number of slots and      *)
(* processes.                                                              *)
(*                                                                         *)
(* The first half holds for every interleaving, with or without the        *)
(* assumption that clients type one at a time, and with or without the     *)
(* faults.  What two overlapping commands can break holds when the clients *)
(* take turns (TakeTurns), or when nothing fails besides (NothingFails);   *)
(* a command and the handlers it sets off still interleave.                *)
(***************************************************************************)
EXTENDS MultiProc, FiniteSetTheorems, TLAPS

\* A process has its id from the fork on, and my_id from the first prompt on; a
\* dead one may have got no further than its login.
HasId == \A p \in Procs :
  /\ ppc = "pick" /\ kid = p => pc[p] = "unborn"
  /\ pc[p] # "unborn" => hid[p] \in Slots
  /\ pc[p] # "gone" =>
       my_id[p] = IF pc[p] \in {"unborn", "login", "login_kill", "login_sleep"}
                    THEN 0 ELSE hid[p]

IInv == TypeOK /\ Mutex /\ HasId

USE NAssumption, ArgAssumption, OpsAssumption, FaultsAssumption
USE DEF Slots, OpNames, Labels, HoldsSem, HoldsClients, TypeOK, IInv,
        mainVars, parVars, procVars, tblVars, pipeVars, semVars, hndVars, sigVars

\* The command and the line of a process that runs none are typed.
LEMMA NoTypes == NoCmd \in CmdType /\ NoLine \in LineType
  BY DEF NoCmd, NoLine, Cmd, CmdType, LineType

\* Every line a client can type is typed.
LEMMA CommandTypes ==
  ASSUME NEW p, NEW c \in Commands(p) PROVE c \in CmdType
<1>1. CASE \E o \in {"who", "yell", "exit"} : c = Cmd(o, NoName, 0, 0)
  BY <1>1 DEF CmdType, Cmd
<1>2. CASE \E n \in Names : c = Cmd("name", n, 0, 0)
  BY <1>2 DEF CmdType, Cmd
<1>3. CASE \E i \in 1..MaxArg : c = Cmd("tell", NoName, 0, i)
  BY <1>3 DEF CmdType, Cmd
<1>4. CASE \E r, s \in 0..MaxArg : c = Cmd("line", NoName, r, s)
  BY <1>4 DEF CmdType, Cmd
<1> QED BY <1>1, <1>2, <1>3, <1>4 DEF Commands

\* Changing one entry of a table of two indices keeps its type.
LEMMA Except2 ==
  ASSUME NEW A, NEW B, NEW C, NEW f \in [A -> [B -> C]], NEW x \in C, NEW i, NEW j
  PROVE  [f EXCEPT ![i][j] = x] \in [A -> [B -> C]]
  OBVIOUS

\* mkfifo keeps the type of the table of FIFOs.
LEMMA MadeType ==
  ASSUME NEW f \in [Slots -> [Slots -> {"none", "made", "read"}]], NEW i, NEW j
  PROVE  Made(f, i, j) \in [Slots -> [Slots -> {"none", "made", "read"}]]
  BY DEF Made

\* The SIGUSR2 handler's loop (OpenPipes, StoreFd) keeps its variables' types.
LEMMA ScanTypes ==
  ASSUME NEW p \in Procs, NEW k \in Nat \ {0}, NEW fds, Scan(p, k, fds), PipeTypes, SignalTypes
  PROVE  /\ fifo' \in [Slots -> [Slots -> {"none", "made", "read"}]]
         /\ hnd' \in [Procs -> 0..N]
<1>1. CASE UNCHANGED fifo /\ hnd' = [hnd EXCEPT ![p] = 0]
  <2>1. 0 \in 0..N
    OBVIOUS
  <2>2. fifo' \in [Slots -> [Slots -> {"none", "made", "read"}]]
    BY <1>1 DEF PipeTypes
  <2>3. hnd' \in [Procs -> 0..N]
    BY <1>1, <2>1 DEF SignalTypes
  <2> QED BY <2>2, <2>3
<1>2. CASE \E i \in k..N : hnd' = [hnd EXCEPT ![p] = i] /\ fifo' = Made(fifo, i, my_id[p])
  <2>1. PICK i \in k..N : hnd' = [hnd EXCEPT ![p] = i] /\ fifo' = Made(fifo, i, my_id[p])
    BY <1>2
  <2>2. fifo' \in [Slots -> [Slots -> {"none", "made", "read"}]]
    BY <2>1, MadeType DEF PipeTypes
  <2>3. hnd' \in [Procs -> 0..N]
    BY <2>1 DEF SignalTypes
  <2> QED BY <2>2, <2>3
<1> QED BY <1>1, <1>2 DEF Scan, Pending

\* Storing the sender and the descriptor of <n keeps the type of `line'.
LEMMA LineExcept ==
  ASSUME NEW r \in LineType, NEW i \in Slots, NEW x \in Procs \cup {NoProc}
  PROVE  [r EXCEPT !.from = i, !.fd = x] \in LineType
<1>1. [r EXCEPT !.from = i] \in LineType
  BY DEF LineType
<1>2. ASSUME NEW q \in LineType PROVE [q EXCEPT !.fd = x] \in LineType
  BY DEF LineType
<1> QED BY <1>1, <1>2

\* The initial state is typed, and nobody holds a semaphore.
LEMMA InitIInv == Init => IInv
  BY NoTypes DEF Init, All, Pairs, ParentTypes, ShellTypes, TableTypes, PipeTypes, SignalTypes,
                 Mutex, HasId

\* The invariant is inductive: one step per action, one leaf per conjunct the
\* action can disturb.
LEMMA NextIInv == ASSUME IInv, [Next]_vars PROVE IInv'
<1>1. ASSUME PickAndFork
      PROVE  IInv'
  <2>1. TableTypes' /\ PipeTypes' /\ SignalTypes'
    BY <1>1 DEF PickAndFork, TableTypes, PipeTypes, SignalTypes
  <2>2. ParentTypes'
    BY <1>1 DEF PickAndFork, Goto, ParentTypes, ShellTypes
  <2>3. ShellTypes'
    BY <1>1 DEF PickAndFork, Goto, ShellTypes, ParentTypes
  <2>4. Mutex'
    BY <1>1 DEF PickAndFork, Goto, Mutex, ShellTypes, ParentTypes
  <2>5. HasId'
    BY <1>1 DEF PickAndFork, Goto, HasId, ShellTypes, ParentTypes
  <2> QED BY <2>1, <2>2, <2>3, <2>4, <2>5
<1>2. ASSUME Register
      PROVE  IInv'
  <2>1. ShellTypes' /\ PipeTypes' /\ SignalTypes' /\ Mutex' /\ HasId'
    BY <1>2 DEF Register, ShellTypes, PipeTypes, SignalTypes, Mutex, HasId
  <2>2. ParentTypes'
    BY <1>2 DEF Register, ParentTypes, ShellTypes
  <2>3. TableTypes'
    BY <1>2 DEF Register, TableTypes, ShellTypes, ParentTypes
  <2> QED BY <2>1, <2>2, <2>3
<1>3. ASSUME NEW p \in Procs, Accept(p)
      PROVE  IInv'
  <2>1. ShellTypes' /\ TableTypes' /\ PipeTypes' /\ SignalTypes' /\ Mutex' /\ HasId'
    BY <1>3 DEF Accept, ShellTypes, TableTypes, PipeTypes, SignalTypes, Mutex, HasId
  <2>2. ParentTypes'
    BY <1>3 DEF Accept, ParentTypes, ShellTypes
  <2> QED BY <2>1, <2>2
<1>4. ASSUME NEW p \in Procs, Reap(p)
      PROVE  IInv'
  <2>1. ParentTypes' /\ TableTypes' /\ PipeTypes' /\ SignalTypes'
    BY <1>4 DEF Reap, ParentTypes, TableTypes, PipeTypes, SignalTypes
  <2>2. ShellTypes'
    BY <1>4, NoTypes DEF Reap, Goto, ShellTypes
  <2>3. Mutex'
    BY <1>4 DEF Reap, Goto, Mutex, ShellTypes
  <2>4. HasId'
    BY <1>4 DEF Reap, Goto, HasId, ShellTypes
  <2> QED BY <2>1, <2>2, <2>3, <2>4
<1>5. ASSUME NEW p \in Procs, NEW c \in Commands(p), ReadLine(p, c)
      PROVE  IInv'
  <2>1. ParentTypes' /\ TableTypes' /\ PipeTypes' /\ SignalTypes'
    BY <1>5 DEF ReadLine, ParentTypes, TableTypes, PipeTypes, SignalTypes
  <2>2. ShellTypes'
    BY <1>5, CommandTypes DEF ReadLine, At, Goto, ShellTypes
  <2>3. Mutex'
    BY <1>5 DEF ReadLine, At, Goto, Mutex, ShellTypes
  <2>4. HasId'
    BY <1>5 DEF ReadLine, At, Goto, HasId, ShellTypes
  <2> QED BY <2>1, <2>2, <2>3, <2>4
<1>6. ASSUME NEW p \in Procs, LoginBuffer(p)
      PROVE  IInv'
  <2>1. ParentTypes' /\ PipeTypes' /\ SignalTypes'
    BY <1>6 DEF LoginBuffer, ParentTypes, PipeTypes, SignalTypes
  <2>2. ShellTypes'
    BY <1>6 DEF LoginBuffer, At, Goto, ShellTypes
  <2>3. TableTypes'
    BY <1>6 DEF LoginBuffer, At, Goto, TableTypes, ShellTypes
  <2>4. Mutex'
    BY <1>6 DEF LoginBuffer, At, Goto, Mutex, ShellTypes
  <2>5. HasId'
    BY <1>6 DEF LoginBuffer, At, Goto, HasId, ShellTypes
  <2> QED BY <2>1, <2>2, <2>3, <2>4, <2>5
<1>7. ASSUME NEW p \in Procs, LoginKill(p)
      PROVE  IInv'
  <2>1. ParentTypes' /\ TableTypes' /\ PipeTypes'
    BY <1>7 DEF LoginKill, ParentTypes, TableTypes, PipeTypes
  <2>2. ShellTypes'
    BY <1>7 DEF LoginKill, At, Goto, Signal1, ShellTypes
  <2>3. SignalTypes'
    BY <1>7 DEF LoginKill, At, Goto, Signal1, SignalTypes, ShellTypes
  <2>4. Mutex'
    BY <1>7 DEF LoginKill, At, Goto, Signal1, Mutex, ShellTypes
  <2>5. HasId'
    BY <1>7 DEF LoginKill, At, Goto, Signal1, HasId, ShellTypes
  <2> QED BY <2>1, <2>2, <2>3, <2>4, <2>5
<1>8. ASSUME NEW p \in Procs, LoginDone(p)
      PROVE  IInv'
  <2>1. ParentTypes' /\ PipeTypes' /\ SignalTypes'
    BY <1>8 DEF LoginDone, ParentTypes, PipeTypes, SignalTypes
  <2>2. ShellTypes'
    BY <1>8 DEF LoginDone, At, Goto, ShellTypes
  <2>3. TableTypes'
    BY <1>8 DEF LoginDone, At, Goto, TableTypes, ShellTypes, Mutex
  <2>4. Mutex'
    BY <1>8 DEF LoginDone, At, Goto, Mutex, ShellTypes
  <2>5. HasId'
    BY <1>8 DEF LoginDone, At, Goto, HasId, ShellTypes
  <2> QED BY <2>1, <2>2, <2>3, <2>4, <2>5
<1>9. ASSUME NEW p \in Procs, Who(p)
      PROVE  IInv'
  <2>1. ParentTypes' /\ TableTypes' /\ PipeTypes' /\ SignalTypes'
    BY <1>9 DEF Who, ParentTypes, TableTypes, PipeTypes, SignalTypes
  <2>2. ShellTypes'
    BY <1>9, NoTypes DEF Who, Enter, At, Return, Goto, ShellTypes
  <2>3. Mutex'
    BY <1>9 DEF Who, Enter, At, Return, Goto, Mutex, ShellTypes
  <2>4. HasId'
    BY <1>9 DEF Who, Enter, At, Return, Goto, HasId, ShellTypes
  <2> QED BY <2>1, <2>2, <2>3, <2>4
<1>10. ASSUME NEW p \in Procs, Name(p)
      PROVE  IInv'
  <2>1. ParentTypes' /\ PipeTypes' /\ SignalTypes'
    BY <1>10 DEF Name, ParentTypes, PipeTypes, SignalTypes
  <2>2. ShellTypes'
    BY <1>10, NoTypes DEF Name, Enter, At, Return, Goto, ShellTypes
  <2>3. TableTypes'
    <3>1. cmd[p].name \in Names \cup {NoName}
      BY DEF ShellTypes, CmdType
    <3> QED BY <1>10, <3>1 DEF Name, Enter, At, Return, Goto, TableTypes, Mutex
  <2>4. Mutex'
    BY <1>10 DEF Name, Enter, At, Return, Goto, Mutex, ShellTypes
  <2>5. HasId'
    BY <1>10 DEF Name, Enter, At, Return, Goto, HasId, ShellTypes
  <2> QED BY <2>1, <2>2, <2>3, <2>4, <2>5
<1>11. ASSUME NEW p \in Procs, Tell(p)
      PROVE  IInv'
  <2>1. ParentTypes' /\ PipeTypes'
    BY <1>11 DEF Tell, ParentTypes, PipeTypes
  <2>2. ShellTypes'
    BY <1>11, NoTypes DEF Tell, Enter, At, Return, Goto, Die, ShellTypes
  <2>3. TableTypes'
    BY <1>11 DEF Tell, Enter, At, Return, Goto, Die, TableTypes, ShellTypes
  <2>4. SignalTypes'
    BY <1>11 DEF Tell, Enter, At, Return, Goto, Die, SignalTypes, ShellTypes
  <2>5. Mutex'
    BY <1>11 DEF Tell, Enter, At, Return, Goto, Die, Mutex, ShellTypes
  <2>6. HasId'
    BY <1>11 DEF Tell, Enter, At, Return, Goto, Die, HasId, ShellTypes
  <2> QED BY <2>1, <2>2, <2>3, <2>4, <2>5, <2>6
<1>12. ASSUME NEW p \in Procs, Yell(p)
      PROVE  IInv'
  <2>1. ParentTypes' /\ PipeTypes' /\ SignalTypes'
    BY <1>12 DEF Yell, ParentTypes, PipeTypes, SignalTypes
  <2>2. ShellTypes'
    BY <1>12 DEF Yell, Enter, At, Goto, ShellTypes
  <2>3. TableTypes'
    BY <1>12 DEF Yell, Enter, At, Goto, TableTypes, ShellTypes
  <2>4. Mutex'
    BY <1>12 DEF Yell, Enter, At, Goto, Mutex, ShellTypes
  <2>5. HasId'
    BY <1>12 DEF Yell, Enter, At, Goto, HasId, ShellTypes
  <2> QED BY <2>1, <2>2, <2>3, <2>4, <2>5
<1>13. ASSUME NEW p \in Procs, Exit(p)
      PROVE  IInv'
  <2>1. ParentTypes' /\ SignalTypes'
    BY <1>13 DEF Exit, ParentTypes, SignalTypes
  <2>2. ShellTypes'
    BY <1>13 DEF Exit, Enter, At, Goto, ShellTypes
  <2>3. TableTypes'
    <3>1. cpid' \in [Slots -> Procs \cup {NoProc}] /\ cname' \in [Slots -> Names \cup {NoName, Anon}]
      BY <1>13 DEF Exit, FreeSlot, TableTypes
    <3> QED BY <1>13, <3>1 DEF Exit, TableTypes
  <2>4. PipeTypes'
    <3>1. receive' \in [Slots -> [Slots -> BOOLEAN]]
      BY <1>13 DEF Exit, PipeTypes
    <3>2. rfd' \in [Slots -> [Slots -> Procs \cup {NoProc}]]
      BY <1>13 DEF Exit, PipeTypes
    <3>3. fifo' \in [Slots -> [Slots -> {"none", "made", "read"}]]
      BY <1>13 DEF Exit, PipeTypes
    <3> QED BY <3>1, <3>2, <3>3 DEF PipeTypes
  <2>5. Mutex'
    BY <1>13 DEF Exit, Enter, At, Goto, Mutex, ShellTypes
  <2>6. HasId'
    BY <1>13 DEF Exit, Enter, At, Goto, HasId, ShellTypes
  <2> QED BY <2>1, <2>2, <2>3, <2>4, <2>5, <2>6
<1>14. ASSUME NEW p \in Procs, TakeBuffer(p)
      PROVE  IInv'
  <2>1. ParentTypes' /\ PipeTypes'
    BY <1>14 DEF TakeBuffer, ParentTypes, PipeTypes
  <2>2. ShellTypes'
    BY <1>14 DEF TakeBuffer, At, Goto, Signal1, ShellTypes
  <2>3. TableTypes'
    BY <1>14 DEF TakeBuffer, At, Goto, Signal1, TableTypes, ShellTypes
  <2>4. SignalTypes'
    BY <1>14 DEF TakeBuffer, At, Goto, Signal1, SignalTypes, ShellTypes
  <2>5. Mutex'
    BY <1>14 DEF TakeBuffer, At, Goto, Signal1, Mutex, ShellTypes
  <2>6. HasId'
    BY <1>14 DEF TakeBuffer, At, Goto, Signal1, HasId, ShellTypes
  <2> QED BY <2>1, <2>2, <2>3, <2>4, <2>5, <2>6
<1>15. ASSUME NEW p \in Procs, PostBuffer(p)
      PROVE  IInv'
  <2>1. ParentTypes' /\ PipeTypes' /\ SignalTypes'
    BY <1>15 DEF PostBuffer, ParentTypes, PipeTypes, SignalTypes
  <2>2. ShellTypes'
    BY <1>15 DEF PostBuffer, At, Goto, ShellTypes
  <2>3. TableTypes'
    BY <1>15 DEF PostBuffer, At, Goto, TableTypes, ShellTypes, Mutex
  <2>4. Mutex'
    BY <1>15 DEF PostBuffer, At, Goto, Mutex, ShellTypes
  <2>5. HasId'
    BY <1>15 DEF PostBuffer, At, Goto, HasId, ShellTypes
  <2> QED BY <2>1, <2>2, <2>3, <2>4, <2>5
<1>16. ASSUME NEW p \in Procs, PostClients(p)
      PROVE  IInv'
  <2>1. ParentTypes' /\ PipeTypes'
    BY <1>16 DEF PostClients, ParentTypes, PipeTypes
  <2>2. ShellTypes'
    BY <1>16, NoTypes DEF PostClients, At, Goto, Die, Return, ShellTypes
  <2>3. TableTypes'
    BY <1>16 DEF PostClients, At, Goto, Die, Return, TableTypes, ShellTypes, Mutex
  <2>4. SignalTypes'
    BY <1>16 DEF PostClients, At, Goto, Die, Return, SignalTypes, ShellTypes
  <2>5. Mutex'
    BY <1>16 DEF PostClients, At, Goto, Die, Return, Mutex, ShellTypes
  <2>6. HasId'
    BY <1>16 DEF PostClients, At, Goto, Die, Return, HasId, ShellTypes
  <2> QED BY <2>1, <2>2, <2>3, <2>4, <2>5, <2>6
<1>17. ASSUME NEW p \in Procs, ParseRecv(p)
      PROVE  IInv'
  <2>1. ParentTypes' /\ PipeTypes'
    BY <1>17 DEF ParseRecv, ParentTypes, PipeTypes
  <2>2. ShellTypes'
    <3>1. cmd' \in [Procs -> CmdType]
      <4>1. [cmd[p] EXCEPT !.recv = 0] \in CmdType
        BY DEF ShellTypes, CmdType
      <4>2. cmd' = cmd \/ cmd' = [cmd EXCEPT ![p] = [cmd[p] EXCEPT !.recv = 0]]
        BY <1>17 DEF ParseRecv, RecvParsed
      <4> QED BY <4>1, <4>2 DEF ShellTypes
    <3>2. line' \in [Procs -> LineType]
      <4>1. CASE UNCHANGED line
        BY <4>1 DEF ShellTypes
      <4>2. CASE \E n \in Slots : /\ receive[n][my_id[p]]
                                 /\ line' = [line EXCEPT ![p] = [@ EXCEPT !.from = n, !.fd = rfd[n][my_id[p]]]]
        <5>1. PICK n \in Slots : line' = [line EXCEPT ![p] = [@ EXCEPT !.from = n, !.fd = rfd[n][my_id[p]]]]
          BY <4>2
        <5>2. my_id[p] \in Slots
          BY <1>17 DEF ParseRecv, Enter, At, HasId
        <5>3. rfd[n][my_id[p]] \in Procs \cup {NoProc} /\ line[p] \in LineType
          BY <5>2 DEF PipeTypes, ShellTypes
        <5>4. [line[p] EXCEPT !.from = n, !.fd = rfd[n][my_id[p]]] \in LineType
          BY <5>3, LineExcept
        <5> QED BY <5>1, <5>4 DEF ShellTypes
      <4> QED BY <1>17, <4>1, <4>2 DEF ParseRecv
    <3> QED BY <1>17, <3>1, <3>2 DEF ParseRecv, Enter, At, Goto, Die, ShellTypes
  <2>3. TableTypes'
    BY <1>17 DEF ParseRecv, Enter, At, RecvParsed, Goto, Die, TableTypes, ShellTypes
  <2>4. SignalTypes'
    BY <1>17 DEF ParseRecv, Enter, At, RecvParsed, Goto, Die, SignalTypes, ShellTypes
  <2>5. Mutex'
    BY <1>17 DEF ParseRecv, Enter, At, RecvParsed, Goto, Die, Mutex, ShellTypes
  <2>6. HasId'
    BY <1>17 DEF ParseRecv, Enter, At, RecvParsed, Goto, Die, HasId, ShellTypes
  <2> QED BY <2>1, <2>2, <2>3, <2>4, <2>5, <2>6
<1>18. ASSUME NEW p \in Procs, ParseSend(p)
      PROVE  IInv'
  <2>1. ParentTypes'
    BY <1>18 DEF ParseSend, ParentTypes
  <2>2. ShellTypes'
    <3>1. cmd' \in [Procs -> CmdType]
      <4>1. [cmd[p] EXCEPT !.send = 0] \in CmdType
        BY DEF ShellTypes, CmdType
      <4>2. cmd' = cmd \/ cmd' = [cmd EXCEPT ![p] = [cmd[p] EXCEPT !.send = 0]]
        BY <1>18 DEF ParseSend, SendParsed
      <4> QED BY <4>1, <4>2 DEF ShellTypes
    <3> QED BY <1>18, <3>1 DEF ParseSend, Enter, At, Goto, Die, ShellTypes
  <2>3. TableTypes'
    BY <1>18 DEF ParseSend, Enter, At, SendParsed, Goto, Die, TableTypes, ShellTypes
  <2>4. PipeTypes'
    <3>1. receive' \in [Slots -> [Slots -> BOOLEAN]]
      <4>1. \/ UNCHANGED receive
            \/ \E n \in Slots : receive' = [receive EXCEPT ![my_id[p]][n] = TRUE]
        BY <1>18 DEF ParseSend
      <4>2. ASSUME NEW n \in Slots PROVE [receive EXCEPT ![my_id[p]][n] = TRUE] \in [Slots -> [Slots -> BOOLEAN]]
        BY DEF PipeTypes
      <4> QED BY <4>1, <4>2 DEF PipeTypes
    <3> QED BY <1>18, <3>1 DEF ParseSend, PipeTypes
  <2>5. SignalTypes'
    BY <1>18 DEF ParseSend, Signal2, SendParsed, Goto, Die, SignalTypes, ShellTypes
  <2>6. Mutex'
    BY <1>18 DEF ParseSend, Enter, At, SendParsed, Goto, Die, Mutex, ShellTypes
  <2>7. HasId'
    BY <1>18 DEF ParseSend, Enter, At, SendParsed, Goto, Die, HasId, ShellTypes
  <2> QED BY <2>1, <2>2, <2>3, <2>4, <2>5, <2>6, <2>7
<1>19. ASSUME NEW p \in Procs, MkFifo(p)
      PROVE  IInv'
  <2>1. ParentTypes' /\ TableTypes' /\ SignalTypes'
    BY <1>19 DEF MkFifo, ParentTypes, TableTypes, SignalTypes
  <2>2. ShellTypes'
    BY <1>19 DEF MkFifo, At, Goto, ShellTypes
  <2>3. PipeTypes'
    BY <1>19, MadeType DEF MkFifo, At, Goto, PipeTypes, ShellTypes
  <2>4. Mutex'
    BY <1>19 DEF MkFifo, At, Goto, Mutex, ShellTypes
  <2>5. HasId'
    BY <1>19 DEF MkFifo, At, Goto, HasId, ShellTypes
  <2> QED BY <2>1, <2>2, <2>3, <2>4, <2>5
<1>20. ASSUME NEW p \in Procs, OpenWrite(p)
      PROVE  IInv'
  <2>1. ParentTypes' /\ PipeTypes' /\ SignalTypes'
    BY <1>20 DEF OpenWrite, ParentTypes, PipeTypes, SignalTypes
  <2>2. ShellTypes'
    <3>1. cmd' \in [Procs -> CmdType]
      <4>1. [cmd[p] EXCEPT !.send = 0] \in CmdType
        BY DEF ShellTypes, CmdType
      <4> QED BY <1>20, <4>1 DEF OpenWrite, SendParsed, ShellTypes
    <3>2. line' \in [Procs -> LineType]
      <4>1. cmd[p].send \in 0..MaxArg /\ line[p] \in LineType
        BY DEF ShellTypes, CmdType
      <4>2. PICK b \in BOOLEAN : line' = [line EXCEPT ![p] = [@ EXCEPT !.to = cmd[p].send, !.wr = b]]
        BY <1>20 DEF OpenWrite
      <4>3. [line[p] EXCEPT !.to = cmd[p].send, !.wr = b] \in LineType
        BY <4>1 DEF LineType
      <4> QED BY <4>2, <4>3 DEF ShellTypes
    <3> QED BY <1>20, <3>1, <3>2 DEF OpenWrite, At, Goto, ShellTypes
  <2>3. TableTypes'
    BY <1>20 DEF OpenWrite, At, Goto, SendParsed, TableTypes, ShellTypes, Mutex
  <2>4. Mutex'
    BY <1>20 DEF OpenWrite, At, Goto, SendParsed, Mutex, ShellTypes
  <2>5. HasId'
    BY <1>20 DEF OpenWrite, At, Goto, SendParsed, HasId, ShellTypes
  <2> QED BY <2>1, <2>2, <2>3, <2>4, <2>5
<1>21. ASSUME NEW p \in Procs, EndParse(p)
      PROVE  IInv'
  <2>1. ParentTypes' /\ TableTypes' /\ PipeTypes' /\ SignalTypes'
    BY <1>21 DEF EndParse, ParentTypes, TableTypes, PipeTypes, SignalTypes
  <2>2. ShellTypes'
    BY <1>21 DEF EndParse, At, Goto, ShellTypes
  <2>3. Mutex'
    BY <1>21 DEF EndParse, At, Goto, Mutex, ShellTypes
  <2>4. HasId'
    BY <1>21 DEF EndParse, At, Goto, HasId, ShellTypes
  <2> QED BY <2>1, <2>2, <2>3, <2>4
<1>22. ASSUME NEW p \in Procs, PipeBuffer(p)
      PROVE  IInv'
  <2>1. ParentTypes' /\ PipeTypes' /\ SignalTypes'
    BY <1>22 DEF PipeBuffer, ParentTypes, PipeTypes, SignalTypes
  <2>2. ShellTypes'
    BY <1>22 DEF PipeBuffer, At, Goto, ShellTypes
  <2>3. TableTypes'
    BY <1>22 DEF PipeBuffer, At, Goto, TableTypes, ShellTypes
  <2>4. Mutex'
    BY <1>22 DEF PipeBuffer, At, Goto, Mutex, ShellTypes
  <2>5. HasId'
    BY <1>22 DEF PipeBuffer, At, Goto, HasId, ShellTypes
  <2> QED BY <2>1, <2>2, <2>3, <2>4, <2>5
<1>23. ASSUME NEW p \in Procs, PipeKill(p)
      PROVE  IInv'
  <2>1. ParentTypes' /\ TableTypes' /\ PipeTypes'
    BY <1>23 DEF PipeKill, ParentTypes, TableTypes, PipeTypes
  <2>2. ShellTypes'
    BY <1>23 DEF PipeKill, At, Goto, Signal1, ShellTypes
  <2>3. SignalTypes'
    BY <1>23 DEF PipeKill, At, Goto, Signal1, SignalTypes, ShellTypes
  <2>4. Mutex'
    BY <1>23 DEF PipeKill, At, Goto, Signal1, Mutex, ShellTypes
  <2>5. HasId'
    BY <1>23 DEF PipeKill, At, Goto, Signal1, HasId, ShellTypes
  <2> QED BY <2>1, <2>2, <2>3, <2>4, <2>5
<1>24. ASSUME NEW p \in Procs, PipePost(p)
      PROVE  IInv'
  <2>1. ParentTypes' /\ PipeTypes' /\ SignalTypes'
    BY <1>24 DEF PipePost, ParentTypes, PipeTypes, SignalTypes
  <2>2. ShellTypes'
    BY <1>24 DEF PipePost, At, Goto, ShellTypes
  <2>3. TableTypes'
    BY <1>24 DEF PipePost, At, Goto, TableTypes, ShellTypes, Mutex
  <2>4. Mutex'
    BY <1>24 DEF PipePost, At, Goto, Mutex, ShellTypes
  <2>5. HasId'
    BY <1>24 DEF PipePost, At, Goto, HasId, ShellTypes
  <2> QED BY <2>1, <2>2, <2>3, <2>4, <2>5
<1>25. ASSUME NEW p \in Procs, Run(p)
      PROVE  IInv'
  <2>1. ParentTypes' /\ TableTypes' /\ PipeTypes' /\ SignalTypes'
    BY <1>25 DEF Run, ParentTypes, TableTypes, PipeTypes, SignalTypes
  <2>2. ShellTypes'
    BY <1>25 DEF Run, At, Goto, ShellTypes
  <2>3. Mutex'
    BY <1>25 DEF Run, At, Goto, Mutex, ShellTypes
  <2>4. HasId'
    BY <1>25 DEF Run, At, Goto, HasId, ShellTypes
  <2> QED BY <2>1, <2>2, <2>3, <2>4
<1>26. ASSUME NEW p \in Procs, RemoveReceive(p)
      PROVE  IInv'
  <2>1. ParentTypes' /\ TableTypes' /\ SignalTypes'
    BY <1>26 DEF RemoveReceive, ParentTypes, TableTypes, SignalTypes
  <2>2. ShellTypes'
    BY <1>26 DEF RemoveReceive, At, Goto, ShellTypes
  <2>3. PipeTypes'
    BY <1>26 DEF RemoveReceive, At, Goto, PipeTypes, ShellTypes
  <2>4. Mutex'
    BY <1>26 DEF RemoveReceive, At, Goto, Mutex, ShellTypes
  <2>5. HasId'
    BY <1>26 DEF RemoveReceive, At, Goto, HasId, ShellTypes
  <2> QED BY <2>1, <2>2, <2>3, <2>4, <2>5
<1>27. ASSUME NEW p \in Procs, RemoveFd(p)
      PROVE  IInv'
  <2>1. ParentTypes' /\ TableTypes' /\ SignalTypes'
    BY <1>27 DEF RemoveFd, ParentTypes, TableTypes, SignalTypes
  <2>2. ShellTypes'
    BY <1>27 DEF RemoveFd, At, Goto, ShellTypes
  <2>3. PipeTypes'
    BY <1>27 DEF RemoveFd, At, Goto, PipeTypes, ShellTypes
  <2>4. Mutex'
    BY <1>27 DEF RemoveFd, At, Goto, Mutex, ShellTypes
  <2>5. HasId'
    BY <1>27 DEF RemoveFd, At, Goto, HasId, ShellTypes
  <2> QED BY <2>1, <2>2, <2>3, <2>4, <2>5
<1>28. ASSUME NEW p \in Procs, Unlink(p)
      PROVE  IInv'
  <2>1. ParentTypes' /\ TableTypes' /\ SignalTypes'
    BY <1>28 DEF Unlink, ParentTypes, TableTypes, SignalTypes
  <2>2. ShellTypes'
    BY <1>28 DEF Unlink, At, ShellTypes
  <2>3. PipeTypes'
    BY <1>28 DEF Unlink, At, PipeTypes, ShellTypes
  <2>4. Mutex'
    BY <1>28 DEF Unlink, At, Mutex, ShellTypes
  <2>5. HasId'
    BY <1>28 DEF Unlink, At, HasId, ShellTypes
  <2> QED BY <2>1, <2>2, <2>3, <2>4, <2>5
<1>29. ASSUME NEW p \in Procs, ResetFlag(p)
      PROVE  IInv'
  <2>1. ParentTypes' /\ TableTypes' /\ PipeTypes' /\ SignalTypes'
    BY <1>29 DEF ResetFlag, ParentTypes, TableTypes, PipeTypes, SignalTypes
  <2>2. ShellTypes'
    BY <1>29, NoTypes DEF ResetFlag, At, Goto, Return, ShellTypes
  <2>3. Mutex'
    BY <1>29 DEF ResetFlag, At, Goto, Return, Mutex, ShellTypes
  <2>4. HasId'
    BY <1>29 DEF ResetFlag, At, Goto, Return, HasId, ShellTypes
  <2> QED BY <2>1, <2>2, <2>3, <2>4
<1>30. ASSUME NEW p \in Procs, PrintBuffer(p)
      PROVE  IInv'
  <2>1. ParentTypes' /\ TableTypes' /\ PipeTypes'
    BY <1>30 DEF PrintBuffer, ParentTypes, TableTypes, PipeTypes
  <2>2. ShellTypes'
    BY <1>30 DEF PrintBuffer, Restart, ShellTypes
  <2>3. SignalTypes'
    BY <1>30 DEF PrintBuffer, Restart, SignalTypes, ShellTypes
  <2>4. Mutex'
    BY <1>30 DEF PrintBuffer, Restart, Mutex, ShellTypes
  <2>5. HasId'
    BY <1>30 DEF PrintBuffer, Restart, HasId, ShellTypes
  <2> QED BY <2>1, <2>2, <2>3, <2>4, <2>5
<1>31. ASSUME NEW p \in Procs, OpenPipes(p)
      PROVE  IInv'
  <2>1. ParentTypes' /\ TableTypes'
    BY <1>31 DEF OpenPipes, ParentTypes, TableTypes
  <2>2. ShellTypes'
    BY <1>31 DEF OpenPipes, Restart, Scan, Made, ShellTypes
  <2>3. PipeTypes' /\ SignalTypes'
    <3>1. Scan(p, 1, rfd)
      BY <1>31 DEF OpenPipes
    <3>2. /\ fifo' \in [Slots -> [Slots -> {"none", "made", "read"}]]
          /\ hnd' \in [Procs -> 0..N]
      BY <3>1, ScanTypes
    <3> QED BY <1>31, <3>2 DEF OpenPipes, PipeTypes, SignalTypes
  <2>4. Mutex'
    BY <1>31 DEF OpenPipes, Restart, Scan, Made, Mutex, ShellTypes
  <2>5. HasId'
    BY <1>31 DEF OpenPipes, Restart, Scan, Made, HasId, ShellTypes
  <2> QED BY <2>1, <2>2, <2>3, <2>4, <2>5
<1>32. ASSUME NEW p \in Procs, OpenRead(p)
      PROVE  IInv'
  <2>1. ParentTypes' /\ ShellTypes' /\ TableTypes' /\ Mutex' /\ HasId'
    BY <1>32 DEF OpenRead, ParentTypes, ShellTypes, TableTypes, Mutex, HasId
  <2>2. PipeTypes'
    BY <1>32 DEF OpenRead, PipeTypes, ShellTypes
  <2>3. SignalTypes'
    BY <1>32 DEF OpenRead, SignalTypes, ShellTypes
  <2> QED BY <2>1, <2>2, <2>3
<1>33. ASSUME NEW p \in Procs, StoreFd(p)
      PROVE  IInv'
  <2>1. ParentTypes' /\ ShellTypes' /\ TableTypes' /\ Mutex' /\ HasId'
    BY <1>33 DEF StoreFd, ParentTypes, ShellTypes, TableTypes, Mutex, HasId
  <2>2. PipeTypes' /\ SignalTypes'
    <3>1. Scan(p, hnd[p] + 1, rfd') /\ hnd[p] + 1 \in Nat \ {0}
      BY <1>33 DEF StoreFd, SignalTypes
    <3>2. /\ fifo' \in [Slots -> [Slots -> {"none", "made", "read"}]]
          /\ hnd' \in [Procs -> 0..N]
      BY <3>1, ScanTypes
    <3>3. rfd' \in [Slots -> [Slots -> Procs \cup {NoProc}]]
      BY <1>33, Except2 DEF StoreFd, PipeTypes, SignalTypes
    <3> QED BY <1>33, <3>2, <3>3 DEF StoreFd, PipeTypes, SignalTypes
  <2> QED BY <2>1, <2>2
<1>34. ASSUME NEW p \in Procs, Close(p)
      PROVE  IInv'
  <2>1. ShellTypes' /\ TableTypes' /\ PipeTypes' /\ SignalTypes' /\ Mutex' /\ HasId'
    BY <1>34 DEF Close, ShellTypes, TableTypes, PipeTypes, SignalTypes, Mutex, HasId
  <2>2. ParentTypes'
    BY <1>34 DEF Close, ParentTypes
  <2> QED BY <2>1, <2>2
<1>35. ASSUME NEW p \in Procs, Hangup(p)
      PROVE  IInv'
  <2>1. PipeTypes'
    BY <1>35 DEF Hangup, PipeTypes
  <2>2. ParentTypes'
    <3>1. lost' \subseteq {"sem", "semc"}
      BY <1>35 DEF Hangup, Held, ParentTypes
    <3> QED BY <1>35, <3>1 DEF Hangup, ParentTypes
  <2>3. ShellTypes'
    BY <1>35 DEF Hangup, Die, Goto, ShellTypes
  <2>4. TableTypes'
    BY <1>35 DEF Hangup, TableTypes
  <2>5. SignalTypes'
    BY <1>35 DEF Hangup, Die, SignalTypes
  <2>6. Mutex'
    BY <1>35 DEF Hangup, Die, Goto, Mutex, ShellTypes
  <2>7. HasId'
    BY <1>35 DEF Hangup, Die, Goto, Alive, HasId, ShellTypes
  <2> QED BY <2>1, <2>2, <2>3, <2>4, <2>5, <2>6, <2>7
<1>36. ASSUME Restarts, sem' \in 0..1, semc' \in 0..1, lost' \subseteq {"sem", "semc"}
      PROVE  IInv'
  <2>1. ParentTypes'
    BY <1>36 DEF Restarts, All, ParentTypes
  <2>2. ShellTypes'
    BY <1>36, NoTypes DEF Restarts, All, ShellTypes
  <2>3. TableTypes'
    BY <1>36 DEF Restarts, TableTypes
  <2>4. PipeTypes'
    BY <1>36 DEF Restarts, Pairs, PipeTypes
  <2>5. SignalTypes'
    BY <1>36 DEF Restarts, All, SignalTypes
  <2>6. Mutex' /\ HasId'
    BY <1>36 DEF Restarts, All, Mutex, HasId
  <2> QED BY <2>1, <2>2, <2>3, <2>4, <2>5, <2>6
<1>37. CASE Kill \/ Interrupt
  BY <1>36, <1>37 DEF Kill, Interrupt, Unlinked, TableTypes
<1>90. CASE UNCHANGED vars
  BY <1>90 DEF vars, ParentTypes, ShellTypes, TableTypes, PipeTypes, SignalTypes, Mutex,
               HasId
<1> QED
  BY <1>1, <1>2, <1>3, <1>4, <1>5, <1>6, <1>7, <1>8, <1>9, <1>10, <1>11, <1>12,
     <1>13, <1>14, <1>15, <1>16, <1>17, <1>18, <1>19, <1>20, <1>21, <1>22, <1>23,
     <1>24, <1>25, <1>26, <1>27, <1>28, <1>29, <1>30, <1>31, <1>32, <1>33, <1>34, <1>35,
     <1>37, <1>90
        DEF Next, Shell, Handler

\* The inductive invariant holds in every reachable state.
LEMMA Invariant == Spec => []IInv
  BY InitIInv, NextIInv, PTL DEF Spec

\* Every variable keeps its type; the semaphores never exceed 1.
THEOREM TypeCorrect == Spec => []TypeOK
  BY Invariant, PTL DEF IInv

\* Each semaphore's critical sections exclude each other, although sem and
\* sem_clients are nested in both orders.
THEOREM MutualExclusion == Spec => []Mutex
  BY Invariant, PTL DEF IInv

-----------------------------------------------------------------------------
(* The buffer.                                                             *)

\* The three actions that fill the buffer, the actions that give sem back, and
\* what every other step does to the two; after a restart nobody has sem.
LEMMA BufferSteps ==
  ASSUME IInv, [Next]_vars
  PROVE  \/ \E p \in Procs : HoldsSem(p)' /\ buffer' = p
         \/ /\ buffer' = buffer
            /\ \A p \in Procs : HoldsSem(p)' => HoldsSem(p)
         \/ \A p \in Procs : ~HoldsSem(p)'
<1> DEFINE Goal == \/ \E p \in Procs : HoldsSem(p)' /\ buffer' = p
                   \/ /\ buffer' = buffer
                      /\ \A p \in Procs : HoldsSem(p)' => HoldsSem(p)
                   \/ \A p \in Procs : ~HoldsSem(p)'
<1> USE DEF ShellTypes
<1>1. ASSUME NEW p \in Procs, LoginBuffer(p) \/ PipeBuffer(p) \/ TakeBuffer(p)
      PROVE  Goal
  BY <1>1 DEF LoginBuffer, PipeBuffer, TakeBuffer, Goto
<1>2. ASSUME NEW p \in Procs,
             \/ LoginKill(p) \/ LoginDone(p) \/ PostBuffer(p) \/ PostClients(p)
             \/ PipeKill(p) \/ PipePost(p)
      PROVE  Goal
  BY <1>2 DEF LoginKill, LoginDone, PostBuffer, PostClients, PipeKill, PipePost, At,
              Goto, Return, Die
<1>3. ASSUME NEW p \in Procs,
             \/ Who(p) \/ Name(p) \/ Tell(p) \/ Yell(p) \/ Exit(p) \/ ParseRecv(p)
             \/ ParseSend(p) \/ MkFifo(p) \/ OpenWrite(p) \/ EndParse(p)
      PROVE  Goal
  BY <1>3 DEF Who, Name, Tell, Yell, Exit, ParseRecv, ParseSend, MkFifo, OpenWrite,
              EndParse, Goto, Return, Die
<1>4. ASSUME NEW p \in Procs,
             \/ Run(p) \/ RemoveReceive(p) \/ RemoveFd(p) \/ Unlink(p)
             \/ ResetFlag(p) \/ PrintBuffer(p) \/ OpenPipes(p) \/ OpenRead(p)
             \/ StoreFd(p)
      PROVE  Goal
  BY <1>4 DEF Run, RemoveReceive, RemoveFd, Unlink, ResetFlag, PrintBuffer, OpenPipes,
              OpenRead, StoreFd, Goto, Return, Restart
<1>5. ASSUME NEW p \in Procs,
             Accept(p) \/ Reap(p) \/ \E c \in Commands(p) : ReadLine(p, c)
      PROVE  Goal
  BY <1>5 DEF Accept, Reap, ReadLine, Goto
<1>6. CASE PickAndFork \/ Register
  BY <1>6 DEF PickAndFork, Register, Goto, ParentTypes
<1>7. ASSUME NEW p \in Procs, Close(p) \/ Hangup(p)
      PROVE  Goal
  BY <1>7 DEF Close, Hangup, Die, Goto
<1>8. CASE Kill \/ Interrupt
  BY <1>8 DEF Kill, Interrupt, Restarts, All
<1>9. CASE UNCHANGED vars
  BY <1>9 DEF vars
<1> QED BY <1>1, <1>2, <1>3, <1>4, <1>5, <1>6, <1>7, <1>8, <1>9 DEF Next, Shell, Handler

\* While a process is between filling the buffer and giving sem back, the buffer
\* holds its message: nobody can print a mixture or another's text for it.
THEOREM BufferStaysIntact == Spec => []BufferIntact
<1>1. Init => BufferIntact
  BY DEF Init, All, BufferIntact
<1>2. IInv /\ IInv' /\ BufferIntact /\ [Next]_vars => BufferIntact'
  BY BufferSteps DEF BufferIntact, Mutex
<1> QED BY <1>1, <1>2, Invariant, PTL DEF Spec

-----------------------------------------------------------------------------
(* What a death leaves behind.                                             *)

\* A step that keeps `sem', its holders and what is lost, or takes or posts it.
KeepsSem == /\ sem' = 0 => sem = 0 \/ \E p \in Procs : HoldsSem(p)'
            /\ sem' = 0 => \A p \in Procs : HoldsSem(p) => HoldsSem(p)' \/ "sem" \in lost'
            /\ lost \subseteq lost'

\* The same of sem_clients, where somebody may also die in it.
KeepsClients ==
  /\ semc' = 0 => semc = 0 \/ "semc" \in lost' \/ \E p \in Procs : HoldsClients(p)'
  /\ semc' = 0 => \A p \in Procs : HoldsClients(p) => HoldsClients(p)' \/ "semc" \in lost'
  /\ lost \subseteq lost'

\* Such steps lose no semaphore without an account of it.
LEMMA AccountKept == ASSUME Accounted, KeepsSem, KeepsClients PROVE Accounted'
  BY DEF Accounted, KeepsSem, KeepsClients

\* Every step accounts for the semaphores: it posts what it took, or somebody
\* died with it; after SIGINT both are new.
LEMMA AccountedInductive ==
  ASSUME IInv, IInv', Accounted, [Next]_vars PROVE Accounted'
<1> DEFINE Goal == KeepsSem /\ KeepsClients
<1> USE DEF ShellTypes, TableTypes
<1>1. ASSUME NEW p \in Procs, LoginBuffer(p) \/ PipeBuffer(p) \/ TakeBuffer(p)
      PROVE  Goal
  BY <1>1 DEF LoginBuffer, PipeBuffer, TakeBuffer, At, Goto, KeepsSem, KeepsClients
<1>2. ASSUME NEW p \in Procs,
             \/ LoginKill(p) \/ LoginDone(p) \/ PostBuffer(p) \/ PostClients(p)
             \/ PipeKill(p) \/ PipePost(p) \/ OpenWrite(p)
      PROVE  Goal
  <2> USE DEF At, Goto, KeepsSem, KeepsClients
  <2>1. CASE LoginKill(p) \/ LoginDone(p)
    BY <2>1 DEF LoginKill, LoginDone
  <2>2. CASE PostBuffer(p)
    BY <2>2 DEF PostBuffer, Return, Die
  <2>3. CASE PostClients(p)
    BY <2>3 DEF PostClients, Return, Die
  <2>4. CASE PipeKill(p) \/ PipePost(p)
    BY <2>4 DEF PipeKill, PipePost
  <2>5. CASE OpenWrite(p)
    BY <2>5 DEF OpenWrite
  <2> QED BY <1>2, <2>1, <2>2, <2>3, <2>4, <2>5
<1>3. ASSUME NEW p \in Procs,
             \/ Who(p) \/ Name(p) \/ Tell(p) \/ Yell(p) \/ Exit(p) \/ ParseRecv(p)
             \/ ParseSend(p)
      PROVE  Goal
  <2> USE DEF At, Goto, KeepsSem, KeepsClients
  <2>1. CASE Who(p) \/ Name(p)
    BY <2>1 DEF Who, Name, Enter, Return
  <2>2. CASE Tell(p)
    BY <2>2 DEF Tell, Enter, Return, Die
  <2>3. CASE Yell(p) \/ Exit(p)
    BY <2>3 DEF Yell, Exit, Enter
  <2>4. CASE ParseRecv(p)
    BY <2>4 DEF ParseRecv, Enter, Die
  <2>5. CASE ParseSend(p)
    BY <2>5 DEF ParseSend, Enter, Die
  <2> QED BY <1>3, <2>1, <2>2, <2>3, <2>4, <2>5
<1>4. ASSUME NEW p \in Procs,
             \/ MkFifo(p) \/ EndParse(p) \/ Run(p) \/ RemoveReceive(p) \/ RemoveFd(p)
             \/ Unlink(p) \/ ResetFlag(p) \/ Handler(p)
      PROVE  Goal
  <2>1. UNCHANGED <<sem, semc, lost>>
    BY <1>4 DEF MkFifo, EndParse, Run, RemoveReceive, RemoveFd, Unlink, ResetFlag,
                Handler, PrintBuffer, OpenPipes, OpenRead, StoreFd
  <2>2. ASSUME NEW q \in Procs
        PROVE  (HoldsSem(q) => HoldsSem(q)') /\ (HoldsClients(q) => HoldsClients(q)')
    <3>1. CASE MkFifo(p) \/ EndParse(p) \/ Run(p) \/ RemoveReceive(p) \/ RemoveFd(p)
               \/ ResetFlag(p)
      BY <3>1 DEF MkFifo, EndParse, Run, RemoveReceive, RemoveFd, ResetFlag, At, Goto,
                  Return
    <3>2. CASE Unlink(p)
      BY <3>2 DEF Unlink, At
    <3>3. CASE PrintBuffer(p) \/ OpenPipes(p)
      BY <3>3 DEF PrintBuffer, OpenPipes, Restart
    <3>4. CASE OpenRead(p) \/ StoreFd(p)
      BY <3>4 DEF OpenRead, StoreFd
    <3> QED BY <1>4, <3>1, <3>2, <3>3, <3>4 DEF Handler
  <2> QED BY <2>1, <2>2 DEF KeepsSem, KeepsClients
<1>5. ASSUME NEW p \in Procs,
             \/ Accept(p) \/ Reap(p) \/ Close(p)
             \/ \E c \in Commands(p) : ReadLine(p, c)
      PROVE  Goal
  BY <1>5 DEF Accept, Reap, Close, ReadLine, At, Goto, KeepsSem, KeepsClients
<1>6. ASSUME PickAndFork \/ Register
      PROVE  Goal
  <2>1. UNCHANGED <<sem, semc, lost>>
    BY <1>6 DEF PickAndFork, Register
  <2>2. ASSUME NEW q \in Procs
        PROVE  (HoldsSem(q) => HoldsSem(q)') /\ (HoldsClients(q) => HoldsClients(q)')
    <3>1. CASE PickAndFork
      <4>1. kid \in Procs /\ pc[kid] = "unborn"
        BY <3>1 DEF PickAndFork, ParentTypes, HasId
      <4>2. pc' = pc \/ pc' = [pc EXCEPT ![kid] = "login"]
        BY <3>1 DEF PickAndFork, Goto
      <4> QED BY <4>1, <4>2
    <3>2. CASE Register
      BY <3>2 DEF Register
    <3> QED BY <1>6, <3>1, <3>2
  <2> QED BY <2>1, <2>2 DEF KeepsSem, KeepsClients
<1>7. ASSUME NEW p \in Procs, Hangup(p)
      PROVE  Goal
  BY <1>7 DEF Hangup, Held, Die, Goto, KeepsSem, KeepsClients
<1>8. CASE Kill \/ Interrupt
  BY <1>8 DEF Kill, Interrupt, Unlinked, Accounted
<1>9. ASSUME UNCHANGED vars
      PROVE  Goal
  <2>1. UNCHANGED <<sem, semc, lost, pc>>
    BY <1>9 DEF vars
  <2>2. \A q \in Procs : (HoldsSem(q) => HoldsSem(q)') /\ (HoldsClients(q) => HoldsClients(q)')
    BY <2>1
  <2> QED BY <2>1, <2>2 DEF KeepsSem, KeepsClients
<1> QED BY <1>1, <1>2, <1>3, <1>4, <1>5, <1>6, <1>7, <1>8, <1>9, AccountKept
        DEF Next, Shell

\* A semaphore that is taken is being used, or somebody died with it: apart from
\* deaths nothing locks the others out, and Ctrl-C undoes the deaths.
THEOREM SemaphoresAccounted == Spec => []Accounted
<1>1. Init => Accounted
  BY DEF Init, Accounted
<1> QED BY <1>1, AccountedInductive, Invariant, PTL DEF Spec

-----------------------------------------------------------------------------
(* Nicknames.                                                              *)

\* The table of names changes at one place per step: to "(no name)", to the
\* empty name, or to a name nobody has; a restart empties it.
LEMMA NameSteps ==
  ASSUME IInv, [Next]_vars
  PROVE  \/ UNCHANGED cname
         \/ \E i, x : /\ cname' = [cname EXCEPT ![i] = x]
                      /\ x \in {Anon, NoName} \/ \A j \in Slots : cname[j] # x
         \/ cname' = [i \in Slots |-> NoName]
<1>1. CASE Register
  BY <1>1 DEF Register
<1>2. ASSUME NEW p \in Procs, Name(p)
      PROVE  \/ UNCHANGED cname
             \/ \E i, x : /\ cname' = [cname EXCEPT ![i] = x]
                          /\ \A j \in Slots : cname[j] # x
  BY <1>2 DEF Name, NameTaken
<1>3. ASSUME NEW p \in Procs, Exit(p)
      PROVE  \E i : cname' = [cname EXCEPT ![i] = NoName]
  BY <1>3 DEF Exit, FreeSlot
<1>4. ASSUME NEW p \in Procs, Shell(p), ~Name(p), ~Exit(p)
      PROVE  UNCHANGED cname
  BY <1>4 DEF Shell, LoginBuffer, LoginKill, LoginDone, Who, Tell, Yell, TakeBuffer,
     PostBuffer, PostClients, ParseRecv, ParseSend, MkFifo, OpenWrite, EndParse,
     PipeBuffer, PipeKill, PipePost, Run, RemoveReceive, RemoveFd, Unlink, ResetFlag
<1>5. ASSUME NEW p \in Procs,
             \/ Accept(p) \/ Reap(p) \/ Handler(p) \/ Close(p) \/ Hangup(p)
             \/ \E c \in Commands(p) : ReadLine(p, c)
      PROVE  UNCHANGED cname
  BY <1>5 DEF Accept, Reap, Handler, ReadLine, PrintBuffer, OpenPipes, OpenRead, StoreFd,
              Close, Hangup
<1>6. CASE PickAndFork \/ UNCHANGED vars
  BY <1>6 DEF PickAndFork, vars
<1>7. CASE Kill \/ Interrupt
  BY <1>7 DEF Kill, Interrupt, Restarts
<1> QED BY <1>1, <1>2, <1>3, <1>4, <1>5, <1>6, <1>7 DEF Next

\* Two users never have the same nickname, however name commands, logins and
\* logouts interleave.
THEOREM NamesStayUnique == Spec => []UniqueNames
<1>1. Init => UniqueNames
  BY DEF Init, UniqueNames
<1>2. IInv /\ UniqueNames /\ [Next]_vars => UniqueNames'
  BY NameSteps DEF UniqueNames, TableTypes
<1> QED BY <1>1, <1>2, Invariant, PTL DEF Spec

-----------------------------------------------------------------------------
(* Ids.                                                                    *)

\* Why ids do not clash: a process online is the one the table names in its
\* slot, or the child the parent is about to enter there; and that slot is free.
Owned ==
  /\ ppc = "reg" => cpid[nid] = NoProc
  /\ \A p \in Procs : Online(p) =>
       \/ cpid[hid[p]] = p
       \/ ppc = "reg" /\ kid = p /\ nid = hid[p]

\* When every online process owns its slot, no two have one id.
LEMMA OwnedIsUnique == ASSUME IInv, Owned PROVE OneUserPerId
  BY NoProcAssumption DEF Owned, OneUserPerId

\* Steps that change neither the table nor the parent: nobody comes online.
LEMMA OwnedKept ==
  ASSUME IInv, Owned, UNCHANGED <<mainVars, cpid>>,
         \A p \in Procs : Online(p)' => Online(p) /\ hid'[p] = hid[p]
  PROVE  Owned'
  BY DEF Owned

\* Every step keeps the slots owned: only Register and FreeSlot change owners.
LEMMA OwnedInductive == ASSUME IInv, Owned, [Next]_vars PROVE Owned'
<1> USE DEF ShellTypes, ParentTypes, TableTypes
<1>1. CASE PickAndFork
  <2>1. CASE ppc' = "overrun"
    BY <1>1, <2>1 DEF PickAndFork, Owned, Online, Alive, Goto
  <2>2. CASE ppc' = "reg"
    <3>1. PICK i \in Slots : /\ cpid[i] = NoProc /\ nid' = i
                            /\ hid' = [hid EXCEPT ![kid] = i]
      BY <1>1, <2>2 DEF PickAndFork, FirstFree
    <3>2. /\ kid \in Procs /\ kid' = kid /\ cpid' = cpid /\ cmd' = cmd /\ ppc = "pick"
          /\ pc' = [pc EXCEPT ![kid] = "login"]
      BY <1>1, <2>2 DEF PickAndFork, Goto
    <3>3. ASSUME NEW p \in Procs, Online(p)', p # kid
          PROVE  cpid'[hid'[p]] = p
      <4>1. Online(p) /\ hid'[p] = hid[p]
        BY <3>1, <3>2, <3>3 DEF Online, Alive
      <4> QED BY <3>2, <4>1 DEF Owned
    <3> QED BY <2>2, <3>1, <3>2, <3>3 DEF Owned
  <2> QED BY <1>1, <2>1, <2>2 DEF PickAndFork
<1>2. CASE Register
  <2>1. ASSUME NEW p \in Procs, Online(p)'
        PROVE  cpid'[hid'[p]] = p
    <3>1. Online(p) /\ hid'[p] = hid[p] /\ hid[p] \in Slots
      BY <1>2, <2>1 DEF Register, Online, Alive, HasId
    <3>2. /\ cpid' = [cpid EXCEPT ![nid] = kid] /\ ppc = "reg"
          /\ cpid[nid] = NoProc /\ p # NoProc
      BY <1>2, NoProcAssumption DEF Register, Owned
    <3>3. CASE cpid[hid[p]] = p
      BY <3>1, <3>2, <3>3
    <3>4. CASE kid = p /\ nid = hid[p]
      BY <3>1, <3>2, <3>4
    <3> QED BY <3>1, <3>3, <3>4 DEF Owned
  <2> QED BY <1>2, <2>1 DEF Register, Owned
<1>3. ASSUME NEW p \in Procs, Accept(p) PROVE Owned'
  <2>1. ppc' = "pick" /\ ppc # "reg"
    BY <1>3 DEF Accept
  <2>2. \A q \in Procs : Online(q)' => Online(q) /\ hid'[q] = hid[q]
    BY <1>3 DEF Accept, Online, Alive
  <2> QED BY <1>3, <2>1, <2>2 DEF Accept, Owned
<1>4. ASSUME NEW p \in Procs, Reap(p) PROVE Owned'
  <2>1. \A q \in Procs : Online(q)' => Online(q) /\ hid'[q] = hid[q]
    BY <1>4 DEF Reap, Online, Alive, Goto
  <2> QED BY <1>4, <2>1, OwnedKept DEF Reap
<1>5. ASSUME NEW p \in Procs, NEW c \in Commands(p), ReadLine(p, c) PROVE Owned'
  <2>1. \A q \in Procs : Online(q)' => Online(q) /\ hid'[q] = hid[q]
    BY <1>5 DEF ReadLine, At, Online, Alive, Goto
  <2> QED BY <1>5, <2>1, OwnedKept DEF ReadLine
<1>6. ASSUME NEW p \in Procs, Exit(p) PROVE Owned'
  <2>1. /\ cpid' = [cpid EXCEPT ![my_id[p]] = NoProc] /\ UNCHANGED <<mainVars, hid, cmd>>
        /\ pc' = [pc EXCEPT ![p] = "buf"] /\ pc[p] = "cmd" /\ cmd[p].op = "exit"
    BY <1>6 DEF Exit, FreeSlot, Enter, At, Goto
  <2>2. Online(p) /\ my_id[p] = hid[p] /\ hid[p] \in Slots
    BY <2>1 DEF Online, Alive, HasId
  <2>3. ASSUME NEW q \in Procs, Online(q)'
        PROVE  Online(q) /\ q # p
    BY <2>1, <2>3 DEF Online, Alive
  <2>4. ASSUME NEW q \in Procs, Online(q)'
        PROVE  hid[q] # hid[p]
    BY <2>2, <2>3, <2>4, OwnedIsUnique DEF OneUserPerId
  <2> QED BY <2>1, <2>2, <2>3, <2>4 DEF Owned, HasId
<1>7. ASSUME NEW p \in Procs,
             \/ LoginBuffer(p) \/ LoginKill(p) \/ LoginDone(p) \/ PipeBuffer(p)
             \/ PipeKill(p) \/ PipePost(p) \/ TakeBuffer(p) \/ PostBuffer(p)
      PROVE  Owned'
  <2>1. UNCHANGED <<mainVars, cpid>>
    BY <1>7 DEF LoginBuffer, LoginKill, LoginDone, PipeBuffer, PipeKill, PipePost,
                TakeBuffer, PostBuffer
  <2>2. \A q \in Procs : Online(q)' => Online(q) /\ hid'[q] = hid[q]
    BY <1>7 DEF LoginBuffer, LoginKill, LoginDone, PipeBuffer, PipeKill, PipePost,
                TakeBuffer, PostBuffer, At, Goto, Online, Alive
  <2> QED BY <2>1, <2>2, OwnedKept
<1>8. ASSUME NEW p \in Procs,
             Who(p) \/ Name(p) \/ Tell(p) \/ Yell(p) \/ PostClients(p) \/ ResetFlag(p)
      PROVE  Owned'
  <2>1. UNCHANGED <<mainVars, cpid>>
    BY <1>8 DEF Who, Name, Tell, Yell, PostClients, ResetFlag
  <2>2. \A q \in Procs : Online(q)' => Online(q) /\ hid'[q] = hid[q]
    BY <1>8 DEF Who, Name, Tell, Yell, PostClients, ResetFlag, Enter, At, Goto, Return,
                Die, NoCmd, Cmd, Online, Alive
  <2> QED BY <2>1, <2>2, OwnedKept
<1>9. ASSUME NEW p \in Procs,
             \/ ParseRecv(p) \/ ParseSend(p) \/ MkFifo(p) \/ OpenWrite(p)
             \/ EndParse(p) \/ Run(p) \/ RemoveReceive(p) \/ RemoveFd(p) \/ Unlink(p)
      PROVE  Owned'
  <2>1. UNCHANGED <<mainVars, cpid>>
    BY <1>9 DEF ParseRecv, ParseSend, MkFifo, OpenWrite, EndParse, Run, RemoveReceive,
                RemoveFd, Unlink
  <2>2. \A q \in Procs : Online(q)' => Online(q) /\ hid'[q] = hid[q]
    BY <1>9 DEF ParseRecv, ParseSend, MkFifo, OpenWrite, EndParse, Run, RemoveReceive,
                RemoveFd, Unlink, Enter, At, Goto, Die, RecvParsed, SendParsed, Online,
                Alive
  <2> QED BY <2>1, <2>2, OwnedKept
<1>10. ASSUME NEW p \in Procs, Handler(p) PROVE Owned'
  <2>1. UNCHANGED <<mainVars, cpid>>
    BY <1>10 DEF Handler, PrintBuffer, OpenPipes, OpenRead, StoreFd
  <2>2. \A q \in Procs : Online(q)' => Online(q) /\ hid'[q] = hid[q]
    BY <1>10 DEF Handler, PrintBuffer, OpenPipes, OpenRead, StoreFd, Restart, Online,
                 Alive
  <2> QED BY <2>1, <2>2, OwnedKept
<1>11. ASSUME NEW p \in Procs, Close(p) \/ Hangup(p) PROVE Owned'
  <2>1. UNCHANGED <<mainVars, cpid>>
    BY <1>11 DEF Close, Hangup
  <2>2. \A q \in Procs : Online(q)' => Online(q) /\ hid'[q] = hid[q]
    BY <1>11 DEF Close, Hangup, Die, Goto, Online, Alive
  <2> QED BY <2>1, <2>2, OwnedKept
<1>12. CASE Kill \/ Interrupt
  <2>1. ppc' = "accept" /\ \A p \in Procs : pc'[p] = "unborn"
    <3>1. Restarts
      BY <1>12 DEF Kill, Interrupt
    <3> QED BY <3>1 DEF Restarts, All
  <2> QED BY <2>1 DEF Owned, Online, Alive
<1>13. CASE UNCHANGED vars
  BY <1>13 DEF vars, Owned, Online, Alive
<1> QED BY <1>1, <1>2, <1>3, <1>4, <1>5, <1>6, <1>7, <1>8, <1>9, <1>10, <1>11,
           <1>12, <1>13
        DEF Next, Shell

\* No two processes that are online ever work under the same id, whatever the
\* order in which the parent registers, the children run and users leave.
THEOREM IdsNeverClash == Spec => []OneUserPerId
<1>1. Init => Owned
  BY DEF Init, All, Owned, Online, Alive
<1>2. Spec => []Owned
  BY <1>1, Invariant, OwnedInductive, PTL DEF Spec
<1> QED BY <1>2, Invariant, OwnedIsUnique, PTL

-----------------------------------------------------------------------------
(* The ends of user pipes.                                                 *)

\* The child that is being registered has the id the parent chose, and nobody,
\* dead or alive, has another my_id than the one it was forked with.
TrueIds == /\ ppc = "reg" => hid[kid] = nid
           /\ \A p \in Procs : my_id[p] \in {0, hid[p]}

\* Steps of the processes that give or take no id.
Elsewhere(p) ==
  \/ Who(p) \/ Name(p) \/ Tell(p) \/ Yell(p) \/ LoginBuffer(p) \/ LoginKill(p)
  \/ TakeBuffer(p) \/ PostBuffer(p) \/ PostClients(p) \/ ParseRecv(p) \/ MkFifo(p)
  \/ OpenWrite(p) \/ EndParse(p) \/ PipeBuffer(p) \/ PipeKill(p) \/ PipePost(p)
  \/ Run(p) \/ RemoveFd(p) \/ Unlink(p) \/ ResetFlag(p) \/ Handler(p) \/ Close(p)
  \/ Hangup(p) \/ \E c \in Commands(p) : ReadLine(p, c)

\* They leave the parent, the ids, the pids in the table and the marks as they are.
LEMMA ElsewhereKeeps ==
  ASSUME NEW p \in Procs, Elsewhere(p)
  PROVE  UNCHANGED <<mainVars, hid, my_id, cpid, receive>>
<1>1. CASE Who(p) \/ Name(p) \/ Tell(p) \/ Yell(p) \/ LoginBuffer(p) \/ LoginKill(p)
  BY <1>1 DEF Who, Name, Tell, Yell, LoginBuffer, LoginKill
<1>2. CASE TakeBuffer(p) \/ PostBuffer(p) \/ PostClients(p) \/ ParseRecv(p) \/ MkFifo(p)
  BY <1>2 DEF TakeBuffer, PostBuffer, PostClients, ParseRecv, MkFifo
<1>3. CASE OpenWrite(p) \/ EndParse(p) \/ PipeBuffer(p) \/ PipeKill(p) \/ PipePost(p)
  BY <1>3 DEF OpenWrite, EndParse, PipeBuffer, PipeKill, PipePost
<1>4. CASE Run(p) \/ RemoveFd(p) \/ Unlink(p) \/ ResetFlag(p)
  BY <1>4 DEF Run, RemoveFd, Unlink, ResetFlag
<1>5. CASE Handler(p)
  BY <1>5 DEF Handler, PrintBuffer, OpenPipes, OpenRead, StoreFd
<1>6. CASE Close(p) \/ Hangup(p) \/ \E c \in Commands(p) : ReadLine(p, c)
  BY <1>6 DEF Close, Hangup, ReadLine
<1> QED BY <1>1, <1>2, <1>3, <1>4, <1>5, <1>6 DEF Elsewhere

\* The steps.
LEMMA IdSteps ==
  ASSUME [Next]_vars
  PROVE  \/ PickAndFork \/ Register \/ Kill \/ Interrupt \/ UNCHANGED vars
         \/ \E p \in Procs : \/ Accept(p) \/ Reap(p) \/ LoginDone(p) \/ Exit(p)
                             \/ ParseSend(p) \/ RemoveReceive(p) \/ Elsewhere(p)
  BY DEF Next, Shell, Elsewhere

\* Every step keeps the ids true.
LEMMA TrueIdsInductive == ASSUME IInv, TrueIds, [Next]_vars PROVE TrueIds'
<1> USE DEF ShellTypes, ParentTypes
<1>1. CASE PickAndFork
  <2>1. kid \in Procs /\ pc[kid] = "unborn" /\ my_id' = my_id /\ kid' = kid
    BY <1>1 DEF PickAndFork, HasId
  <2>2. my_id[kid] = 0
    BY <2>1 DEF HasId
  <2>3. \/ ppc' = "overrun" /\ hid' = hid
        \/ \E i \in Slots : nid' = i /\ hid' = [hid EXCEPT ![kid] = i]
    BY <1>1 DEF PickAndFork
  <2> QED BY <2>1, <2>2, <2>3 DEF TrueIds
<1>2. CASE Register
  BY <1>2 DEF Register, TrueIds
<1>3. ASSUME NEW p \in Procs, Accept(p) PROVE TrueIds'
  BY <1>3 DEF Accept, TrueIds
<1>4. ASSUME NEW p \in Procs, Reap(p) PROVE TrueIds'
  BY <1>4 DEF Reap, TrueIds
<1>5. ASSUME NEW p \in Procs, LoginDone(p) PROVE TrueIds'
  BY <1>5 DEF LoginDone, TrueIds
<1>6. ASSUME NEW p \in Procs, Exit(p) \/ ParseSend(p) \/ RemoveReceive(p) PROVE TrueIds'
  BY <1>6 DEF Exit, ParseSend, RemoveReceive, TrueIds
<1>7. ASSUME NEW p \in Procs, Elsewhere(p) PROVE TrueIds'
  BY <1>7, ElsewhereKeeps DEF TrueIds
<1>8. CASE Kill \/ Interrupt
  <2>1. Restarts
    BY <1>8 DEF Kill, Interrupt
  <2> QED BY <2>1 DEF Restarts, All, TrueIds
<1>9. CASE UNCHANGED vars
  BY <1>9 DEF vars, TrueIds
<1> QED BY <1>1, <1>2, <1>3, <1>4, <1>5, <1>6, <1>7, <1>8, <1>9, IdSteps

\* Steps that mark no pipe, change no user of the table and take no id away.
LEMMA EndsKept ==
  ASSUME PipesHaveEnds, UNCHANGED <<ppc, kid, cpid>>,
         \A i, j \in Slots : receive'[i][j] => receive[i][j],
         \A p \in Procs : my_id[p] # 0 => my_id'[p] = my_id[p]
  PROVE  PipesHaveEnds'
  BY DEF PipesHaveEnds

\* Every step leaves the marked pipes with a sender and a receiver.
LEMMA EndsInductive ==
  ASSUME IInv, Owned, TrueIds, PipesHaveEnds, [Next]_vars PROVE PipesHaveEnds'
<1> USE DEF ShellTypes, ParentTypes, TableTypes, PipeTypes
<1>1. CASE PickAndFork
  <2>1. UNCHANGED <<kid, cpid, receive, my_id>> /\ ppc = "pick"
    BY <1>1 DEF PickAndFork
  <2> QED BY <2>1 DEF PipesHaveEnds
<1>2. CASE Register
  <2>1. /\ ppc = "reg" /\ cpid[nid] = NoProc /\ kid \in Procs /\ UNCHANGED <<receive, my_id>>
        /\ \A i \in Slots : cpid'[i] = IF i = nid THEN kid ELSE cpid[i]
    BY <1>2 DEF Register, Owned
  <2>2. kid # NoProc
    BY <2>1, NoProcAssumption
  <2> SUFFICES ASSUME NEW i \in Slots, NEW j \in Slots, receive[i][j]
               PROVE  cpid'[j] # NoProc /\ \E p \in Procs : my_id[p] = i /\ cpid'[i] = p
    BY <2>1 DEF PipesHaveEnds
  <2>3. cpid'[j] # NoProc
    BY <2>1, <2>2 DEF PipesHaveEnds
  <2>4. PICK p \in Procs : my_id[p] = i /\ (cpid[i] = p \/ (ppc = "reg" /\ kid = p))
    BY DEF PipesHaveEnds
  <2>5. CASE cpid[i] = p
    BY <2>1, <2>3, <2>4, <2>5, NoProcAssumption
  <2>6. CASE kid = p
    <3>1. i = nid
      <4>1. hid[kid] = nid /\ my_id[kid] \in {0, hid[kid]}
        BY <2>1 DEF TrueIds
      <4>2. my_id[kid] = i /\ i # 0
        BY <2>4, <2>6
      <4> QED BY <4>1, <4>2
    <3> QED BY <2>1, <2>3, <2>4, <2>6, <3>1
  <2> QED BY <2>4, <2>5, <2>6
<1>3. ASSUME NEW p \in Procs, Accept(p) PROVE PipesHaveEnds'
  BY <1>3 DEF Accept, PipesHaveEnds
<1>4. ASSUME NEW p \in Procs, Reap(p) PROVE PipesHaveEnds'
  <2>1. /\ UNCHANGED <<ppc, kid, cpid, receive>> /\ kid # p /\ \A i \in Slots : cpid[i] # p
        /\ \A q \in Procs : q # p => my_id'[q] = my_id[q]
    BY <1>4, NoProcAssumption DEF Reap, Registered
  <2> SUFFICES ASSUME NEW i \in Slots, NEW j \in Slots, receive[i][j]
               PROVE  cpid[j] # NoProc /\ \E q \in Procs : my_id'[q] = i /\ (cpid[i] = q \/ (ppc = "reg" /\ kid = q))
    BY <2>1 DEF PipesHaveEnds
  <2>2. cpid[j] # NoProc
    BY DEF PipesHaveEnds
  <2>3. PICK q \in Procs : my_id[q] = i /\ (cpid[i] = q \/ (ppc = "reg" /\ kid = q))
    BY DEF PipesHaveEnds
  <2>4. my_id'[q] = i
    BY <2>1, <2>3
  <2> QED BY <2>2, <2>3, <2>4
<1>5. ASSUME NEW p \in Procs, LoginDone(p) PROVE PipesHaveEnds'
  <2>1. UNCHANGED <<ppc, kid, cpid, receive>> /\ my_id[p] = 0
    BY <1>5 DEF LoginDone, At, HasId
  <2>2. \A q \in Procs : my_id[q] # 0 => my_id'[q] = my_id[q]
    BY <1>5, <2>1 DEF LoginDone
  <2> QED BY <2>1, <2>2, EndsKept
<1>6. ASSUME NEW p \in Procs, Exit(p) PROVE PipesHaveEnds'
  <2> DEFINE m == my_id[p]
  <2>1. /\ UNCHANGED <<ppc, kid, my_id>>
        /\ \A i \in Slots : i # m => cpid'[i] = cpid[i]
        /\ \A i, j \in Slots : receive'[i][j] => i # m /\ j # m /\ receive[i][j]
    BY <1>6 DEF Exit, FreeSlot, Involves
  <2> HIDE DEF m
  <2> SUFFICES ASSUME NEW i \in Slots, NEW j \in Slots, receive'[i][j]
               PROVE  /\ cpid'[j] # NoProc
                      /\ \E q \in Procs : my_id'[q] = i /\ (cpid'[i] = q \/ (ppc' = "reg" /\ kid' = q))
    BY DEF PipesHaveEnds
  <2>2. receive[i][j] /\ cpid'[i] = cpid[i] /\ cpid'[j] = cpid[j]
    BY <2>1
  <2>3. cpid[j] # NoProc /\ \E q \in Procs : my_id[q] = i /\ (cpid[i] = q \/ (ppc = "reg" /\ kid = q))
    BY <2>2 DEF PipesHaveEnds
  <2> QED BY <2>1, <2>2, <2>3
<1>7. ASSUME NEW p \in Procs, ParseSend(p) PROVE PipesHaveEnds'
  <2>1. UNCHANGED <<ppc, kid, cpid, my_id>>
    BY <1>7 DEF ParseSend
  <2>2. CASE UNCHANGED receive
    BY <2>1, <2>2, EndsKept
  <2>3. CASE \E n \in Slots : cpid[n] # NoProc /\ receive' = [receive EXCEPT ![my_id[p]][n] = TRUE]
    <3>1. PICK n \in Slots : cpid[n] # NoProc /\ receive' = [receive EXCEPT ![my_id[p]][n] = TRUE]
      BY <2>3
    <3>2. Online(p) /\ my_id[p] = hid[p] /\ hid[p] \in Slots
      BY <1>7 DEF ParseSend, Enter, At, Online, Alive, HasId
    <3>3. cpid[my_id[p]] = p \/ (ppc = "reg" /\ kid = p)
      BY <3>2 DEF Owned
    <3>4. \A i, j \in Slots : receive'[i][j] => receive[i][j] \/ (i = my_id[p] /\ j = n)
      BY <3>1, <3>2
    <3> QED BY <2>1, <3>1, <3>2, <3>3, <3>4 DEF PipesHaveEnds
  <2> QED BY <1>7, <2>2, <2>3 DEF ParseSend
<1>8. ASSUME NEW p \in Procs, RemoveReceive(p) PROVE PipesHaveEnds'
  <2>1. /\ UNCHANGED <<ppc, kid, cpid, my_id>>
        /\ \A i, j \in Slots : receive'[i][j] => receive[i][j]
    BY <1>8 DEF RemoveReceive
  <2> QED BY <2>1, EndsKept
<1>9. ASSUME NEW p \in Procs, Elsewhere(p) PROVE PipesHaveEnds'
  BY <1>9, ElsewhereKeeps, EndsKept
<1>10. CASE Kill \/ Interrupt
  <2>1. Restarts
    BY <1>10 DEF Kill, Interrupt
  <2> QED BY <2>1 DEF Restarts, Pairs, PipesHaveEnds
<1>11. CASE UNCHANGED vars
  BY <1>11 DEF vars, PipesHaveEnds
<1> QED BY <1>1, <1>2, <1>3, <1>4, <1>5, <1>6, <1>7, <1>8, <1>9, <1>10, <1>11, IdSteps

\* A marked user pipe has its receiver in the table and its sender there or about to
\* be entered, whatever runs, dies or restarts: no user inherits a pipe of the one
\* who had the id before.
THEOREM PipesKeepEnds == Spec => []PipesHaveEnds
<1>1. Init => Owned /\ TrueIds /\ PipesHaveEnds
  BY DEF Init, All, Pairs, Owned, Online, Alive, TrueIds, PipesHaveEnds
<1> QED BY <1>1, Invariant, OwnedInductive, TrueIdsInductive, EndsInductive, PTL DEF Spec

-----------------------------------------------------------------------------
(* When the clients take turns.                                            *)

\* One command or connection at a time, and no restart of the server; clients may
\* still close their connections.
TakeTurns == Serial /\ Faults \subseteq {"close"}

LoggingIn == {"login", "login_kill", "login_sleep"}
Busy(p)   == pc[p] \notin {"unborn", "prompt", "gone"}

\* One process at most is busy, nobody while the parent looks for an id, and while
\* the parent is not waiting for a client it is one that logs in.
Turns == /\ \A p, q \in Procs : Busy(p) /\ Busy(q) => p = q
         /\ ppc = "pick" => \A p \in Procs : ~Busy(p)
         /\ ppc # "accept" => \A p \in Procs : Busy(p) => pc[p] \in LoggingIn

\* Steps of a process that make nobody busy and lead to no other place of the login.
LEMMA TurnsKept ==
  ASSUME Turns, UNCHANGED ppc,
         \A p \in Procs : Busy(p)' => Busy(p) /\ (pc[p] \in LoggingIn => pc'[p] \in LoggingIn)
  PROVE  Turns'
<1>1. \A p, q \in Procs : Busy(p)' /\ Busy(q)' => p = q
  BY DEF Turns
<1>2. ppc' = "pick" => \A p \in Procs : ~Busy(p)'
  BY DEF Turns
<1>3. ppc' # "accept" => \A p \in Procs : Busy(p)' => pc'[p] \in LoggingIn
  BY DEF Turns
<1> QED BY <1>1, <1>2, <1>3 DEF Turns

\* A process that runs its shell does not come back to the login.
LEMMA ShellStays ==
  ASSUME ShellTypes, NEW p \in Procs, Shell(p) \/ Handler(p) \/ Close(p) \/ Hangup(p)
  PROVE  \A q \in Procs : Busy(q)' => Busy(q) /\ (pc[q] \in LoggingIn => pc'[q] \in LoggingIn)
<1> USE DEF ShellTypes, Busy, LoggingIn
<1>1. CASE LoginBuffer(p) \/ LoginKill(p) \/ LoginDone(p)
  BY <1>1 DEF LoginBuffer, LoginKill, LoginDone, At, Goto
<1>2. CASE Who(p) \/ Name(p) \/ Tell(p) \/ Yell(p) \/ Exit(p)
  BY <1>2 DEF Who, Name, Tell, Yell, Exit, Enter, At, Goto, Return, Die
<1>3. CASE TakeBuffer(p) \/ PostBuffer(p) \/ PostClients(p)
  BY <1>3 DEF TakeBuffer, PostBuffer, PostClients, At, Goto, Return, Die
<1>4. CASE ParseRecv(p) \/ ParseSend(p) \/ MkFifo(p) \/ OpenWrite(p) \/ EndParse(p)
  BY <1>4 DEF ParseRecv, ParseSend, MkFifo, OpenWrite, EndParse, Enter, At, Goto, Die
<1>5. CASE PipeBuffer(p) \/ PipeKill(p) \/ PipePost(p) \/ Run(p)
  BY <1>5 DEF PipeBuffer, PipeKill, PipePost, Run, At, Goto
<1>6. CASE RemoveReceive(p) \/ RemoveFd(p) \/ ResetFlag(p)
  BY <1>6 DEF RemoveReceive, RemoveFd, ResetFlag, At, Goto, Return
<1>7. CASE Unlink(p)
  BY <1>7 DEF Unlink, At
<1>8. CASE Handler(p)
  BY <1>8 DEF Handler, PrintBuffer, OpenPipes, OpenRead, StoreFd, Restart
<1>9. CASE Close(p) \/ Hangup(p)
  BY <1>9 DEF Close, Hangup, Die, Goto
<1> QED BY <1>1, <1>2, <1>3, <1>4, <1>5, <1>6, <1>7, <1>8, <1>9 DEF Shell

\* The parent does not move when a process does.
LEMMA ShellAlone ==
  ASSUME NEW p \in Procs, Shell(p) \/ Handler(p) \/ Close(p) \/ Hangup(p)
  PROVE  UNCHANGED mainVars
<1>1. CASE LoginDone(p) \/ Exit(p) \/ ParseSend(p) \/ RemoveReceive(p)
  BY <1>1 DEF LoginDone, Exit, ParseSend, RemoveReceive
<1>2. CASE Elsewhere(p)
  BY <1>2, ElsewhereKeeps
<1> QED BY <1>1, <1>2 DEF Shell, Elsewhere

\* Every step keeps the turns.
LEMMA TurnsInductive == ASSUME TakeTurns, IInv, Turns, [Next]_vars PROVE Turns'
<1> USE DEF ParentTypes, ShellTypes
<1>1. CASE PickAndFork
  <2>1. kid \in Procs /\ \A q \in Procs : ~Busy(q)
    BY <1>1 DEF PickAndFork, Turns
  <2>2. \/ ppc' = "overrun" /\ pc' = pc
        \/ ppc' = "reg" /\ pc' = [pc EXCEPT ![kid] = "login"]
    BY <1>1 DEF PickAndFork, Goto
  <2> QED BY <2>1, <2>2 DEF Turns, Busy, LoggingIn
<1>2. CASE Register
  BY <1>2 DEF Register, Turns, Busy
<1>3. ASSUME NEW p \in Procs, Accept(p) PROVE Turns'
  <2>1. \A q \in Procs : ~Busy(q) /\ pc'[q] = pc[q]
    BY <1>3 DEF Accept, TakeTurns, Quiet, Busy
  <2> QED BY <2>1 DEF Turns, Busy
<1>4. ASSUME NEW p \in Procs, Reap(p) PROVE Turns'
  <2>1. UNCHANGED ppc /\ pc' = [pc EXCEPT ![p] = "unborn"]
    BY <1>4 DEF Reap, Goto
  <2> QED BY <2>1, TurnsKept DEF Busy
<1>5. ASSUME NEW p \in Procs, NEW c \in Commands(p), ReadLine(p, c) PROVE Turns'
  <2>1. /\ ppc' = "accept" /\ pc' = [pc EXCEPT ![p] = "cmd"]
        /\ \A q \in Procs : ~Busy(q)
    BY <1>5 DEF ReadLine, TakeTurns, Quiet, Goto, Busy
  <2> QED BY <2>1 DEF Turns, Busy
<1>6. ASSUME NEW p \in Procs, Shell(p) \/ Handler(p) \/ Close(p) \/ Hangup(p) PROVE Turns'
  BY <1>6, ShellStays, ShellAlone, TurnsKept
<1>7. ~Kill /\ ~Interrupt
  BY DEF TakeTurns, Kill, Interrupt
<1>8. CASE UNCHANGED vars
  BY <1>8 DEF vars, Turns, Busy
<1> QED BY <1>1, <1>2, <1>3, <1>4, <1>5, <1>6, <1>7, <1>8 DEF Next

\* Of them only name changes a nickname.
LEMMA ElsewhereNames ==
  ASSUME NEW p \in Procs, Elsewhere(p), ~Name(p)
  PROVE  UNCHANGED cname
<1>1. CASE Who(p) \/ Tell(p) \/ Yell(p) \/ LoginBuffer(p) \/ LoginKill(p)
  BY <1>1 DEF Who, Tell, Yell, LoginBuffer, LoginKill
<1>2. CASE TakeBuffer(p) \/ PostBuffer(p) \/ PostClients(p) \/ ParseRecv(p) \/ MkFifo(p)
  BY <1>2 DEF TakeBuffer, PostBuffer, PostClients, ParseRecv, MkFifo
<1>3. CASE OpenWrite(p) \/ EndParse(p) \/ PipeBuffer(p) \/ PipeKill(p) \/ PipePost(p)
  BY <1>3 DEF OpenWrite, EndParse, PipeBuffer, PipeKill, PipePost
<1>4. CASE Run(p) \/ RemoveFd(p) \/ Unlink(p) \/ ResetFlag(p)
  BY <1>4 DEF Run, RemoveFd, Unlink, ResetFlag
<1>5. CASE Handler(p)
  BY <1>5 DEF Handler, PrintBuffer, OpenPipes, OpenRead, StoreFd
<1>6. CASE Close(p) \/ Hangup(p) \/ \E c \in Commands(p) : ReadLine(p, c)
  BY <1>6 DEF Close, Hangup, ReadLine
<1> QED BY <1>1, <1>2, <1>3, <1>4, <1>5, <1>6 DEF Elsewhere

\* The names in the table are those of the pids there, and the ids below the one
\* that the parent has chosen are used.
Rows == /\ \A i \in Slots : cname[i] = NoName <=> cpid[i] = NoProc
        /\ ppc = "reg" => \A j \in 1..(nid - 1) : cpid[j] # NoProc

Sending == {"cmd", "mkfifo", "open", "orphaned"}

\* name carries a name and tell a number, a line never sends to its own user, and
\* only lines send.
CmdOk == \A p \in Procs :
  /\ cmd[p].op = "name" => cmd[p].name \in Names
  /\ cmd[p].op = "tell" => cmd[p].send # 0
  /\ pc[p] \in Sending /\ cmd[p].op = "line" => cmd[p].send # my_id[p]
  /\ pc[p] \in Sending \ {"cmd"} => cmd[p].op = "line"

Lines == {"cmd", "mkfifo", "open", "orphaned", "bc", "bc_kill", "bc_sleep", "run", "rm_receive",
          "rm_fd", "unlink", "reset"}

\* The pipe that a line receives from stays marked until the line removes it.
LineOk == \A p \in Procs : line[p].from # 0 =>
  /\ pc[p] \in Lines \cup {"gone"}
  /\ pc[p] # "gone" => cmd[p].op = "line"
  /\ pc[p] \in Lines \ {"rm_fd", "unlink", "reset"} => receive[line[p].from][my_id[p]]

\* Who executes a command is alone, and its slot is its own.
LEMMA Acting ==
  ASSUME IInv, Owned, Turns, NEW p \in Procs, Online(p), Busy(p), pc[p] \notin LoggingIn
  PROVE  /\ ppc = "accept" /\ my_id[p] = hid[p] /\ my_id[p] \in Slots
         /\ cpid[my_id[p]] = p /\ p # NoProc
         /\ \A q \in Procs : Busy(q) => q = p
<1>1. pc[p] \notin {"unborn", "gone"} /\ my_id[p] = hid[p] /\ hid[p] \in Slots
  BY DEF HasId, Busy, LoggingIn
<1>2. ppc = "accept" /\ \A q \in Procs : Busy(q) => q = p
  BY DEF Turns
<1>3. cpid[hid[p]] = p
  BY <1>2 DEF Owned
<1> QED BY <1>1, <1>2, <1>3, NoProcAssumption

\* Every step keeps the rows whole.
LEMMA RowsInductive ==
  ASSUME TakeTurns, IInv, Owned, Turns, CmdOk, Rows, [Next]_vars PROVE Rows'
<1> USE DEF ParentTypes, TableTypes
<1>1. CASE PickAndFork
  <2>1. UNCHANGED tblVars
    BY <1>1 DEF PickAndFork
  <2>2. ppc' = "reg" => nid' \in Slots /\ FirstFree(nid')
    BY <1>1 DEF PickAndFork
  <2>3. ppc' = "reg" => \A j \in 1..(nid' - 1) : cpid[j] # NoProc
    BY <2>2 DEF FirstFree
  <2> QED BY <2>1, <2>3 DEF Rows
<1>2. CASE Register
  <2>1. /\ cpid' = [cpid EXCEPT ![nid] = kid] /\ cname' = [cname EXCEPT ![nid] = Anon]
        /\ ppc' = "accept" /\ kid # NoProc /\ nid \in Slots
    BY <1>2, NoProcAssumption DEF Register
  <2> QED BY <2>1, NamesAssumption DEF Rows
<1>3. ASSUME NEW p \in Procs, Accept(p) \/ Reap(p)
      PROVE  Rows'
  BY <1>3 DEF Accept, Reap, Rows
<1>4. ASSUME NEW p \in Procs, Exit(p)
      PROVE  Rows'
  <2>1. Online(p) /\ Busy(p) /\ pc[p] \notin LoggingIn
    BY <1>4 DEF Exit, Enter, At, Online, Alive, Busy, LoggingIn
  <2>2. ppc = "accept" /\ my_id[p] \in Slots
    BY <2>1, Acting
  <2>3. /\ cpid' = [cpid EXCEPT ![my_id[p]] = NoProc] /\ ppc' = ppc
        /\ cname' = [cname EXCEPT ![my_id[p]] = NoName]
    BY <1>4 DEF Exit, FreeSlot
  <2> QED BY <2>2, <2>3 DEF Rows
<1>5. ASSUME NEW p \in Procs, Name(p)
      PROVE  Rows'
  <2>1. Online(p) /\ Busy(p) /\ pc[p] \notin LoggingIn
    BY <1>5 DEF Name, Enter, At, Online, Alive, Busy, LoggingIn
  <2>2. my_id[p] \in Slots /\ cpid[my_id[p]] # NoProc
    BY <2>1, Acting
  <2>3. UNCHANGED <<mainVars, cpid>> /\ (cname' = cname \/ cname' = [cname EXCEPT ![my_id[p]] = cmd[p].name])
    BY <1>5 DEF Name
  <2>4. cmd[p].name # NoName
    BY <1>5, NamesAssumption DEF Name, Enter, CmdOk
  <2> QED BY <2>2, <2>3, <2>4 DEF Rows
<1>6. ASSUME NEW p \in Procs, LoginDone(p) \/ ParseSend(p) \/ RemoveReceive(p)
      PROVE  Rows'
  BY <1>6 DEF LoginDone, ParseSend, RemoveReceive, Rows
<1>7. ASSUME NEW p \in Procs, Elsewhere(p), ~Name(p)
      PROVE  Rows'
  <2>1. UNCHANGED <<mainVars, cpid>>
    BY <1>7, ElsewhereKeeps
  <2>2. UNCHANGED cname
    BY <1>7, ElsewhereNames
  <2> QED BY <2>1, <2>2 DEF Rows
<1>8. ~Kill /\ ~Interrupt
  BY DEF TakeTurns, Kill, Interrupt
<1>9. CASE UNCHANGED vars
  BY <1>9 DEF vars, Rows
<1> QED BY <1>1, <1>2, <1>3, <1>4, <1>5, <1>6, <1>7, <1>8, <1>9, IdSteps

\* The parts of a command.
LEMMA CmdParts ==
  ASSUME NEW c \in CmdType
  PROVE  /\ [c EXCEPT !.recv = 0].op = c.op /\ [c EXCEPT !.recv = 0].name = c.name
         /\ [c EXCEPT !.recv = 0].send = c.send
         /\ [c EXCEPT !.send = 0].op = c.op /\ [c EXCEPT !.send = 0].name = c.name
         /\ [c EXCEPT !.send = 0].send = 0
  BY DEF CmdType

\* What a client can type.
LEMMA TypedOk ==
  ASSUME NEW p \in Procs, NEW c \in Commands(p), my_id[p] # 0
  PROVE  /\ c.op = "name" => c.name \in Names
         /\ c.op = "tell" => c.send # 0
         /\ c.op = "line" => c.send # my_id[p]
<1>1. CASE \E o \in {"who", "yell", "exit"} : c = Cmd(o, NoName, 0, 0)
  BY <1>1 DEF Cmd
<1>2. CASE \E n \in Names : c = Cmd("name", n, 0, 0)
  BY <1>2 DEF Cmd
<1>3. CASE \E i \in 1..MaxArg : c = Cmd("tell", NoName, 0, i)
  BY <1>3 DEF Cmd
<1>4. CASE \E r, s \in 0..MaxArg \ {my_id[p]} : c = Cmd("line", NoName, r, s)
  BY <1>4 DEF Cmd
<1> QED BY <1>1, <1>2, <1>3, <1>4 DEF Commands

\* A command that nobody has in hand any more.
Forgets(p) == cmd' = cmd \/ cmd' = [cmd EXCEPT ![p] = NoCmd]

\* Those who read, parse or forget a command; the others leave it alone.
LEMMA CommandSteps ==
  ASSUME NEW p \in Procs, \/ Shell(p) \/ Handler(p) \/ Close(p) \/ Hangup(p)
  PROVE  Forgets(p) \/ ParseRecv(p) \/ ParseSend(p) \/ OpenWrite(p)
<1> USE DEF Forgets
<1>1. CASE LoginBuffer(p) \/ LoginKill(p) \/ LoginDone(p)
  BY <1>1 DEF LoginBuffer, LoginKill, LoginDone
<1>2. CASE Who(p) \/ Name(p) \/ Tell(p) \/ Yell(p) \/ Exit(p)
  BY <1>2 DEF Who, Name, Tell, Yell, Exit, Return
<1>3. CASE TakeBuffer(p) \/ PostBuffer(p) \/ PostClients(p)
  BY <1>3 DEF TakeBuffer, PostBuffer, PostClients, Return
<1>4. CASE MkFifo(p) \/ EndParse(p)
  BY <1>4 DEF MkFifo, EndParse
<1>5. CASE PipeBuffer(p) \/ PipeKill(p) \/ PipePost(p) \/ Run(p)
  BY <1>5 DEF PipeBuffer, PipeKill, PipePost, Run
<1>6. CASE RemoveReceive(p) \/ RemoveFd(p) \/ Unlink(p) \/ ResetFlag(p)
  BY <1>6 DEF RemoveReceive, RemoveFd, Unlink, ResetFlag, Return
<1>7. CASE Handler(p)
  BY <1>7 DEF Handler, PrintBuffer, OpenPipes, OpenRead, StoreFd
<1>8. CASE Close(p) \/ Hangup(p)
  BY <1>8 DEF Close, Hangup
<1> QED BY <1>1, <1>2, <1>3, <1>4, <1>5, <1>6, <1>7, <1>8 DEF Shell

\* Nobody comes to a place of Sending from elsewhere but by ReadLine, and nobody
\* leaves "cmd" for another one but a line.
LEMMA SendingStays ==
  ASSUME ShellTypes, NEW p \in Procs, Shell(p) \/ Handler(p) \/ Close(p) \/ Hangup(p)
  PROVE  \A q \in Procs : pc'[q] \in Sending =>
           pc[q] \in Sending /\ (pc'[q] = "cmd" \/ pc[q] # "cmd" \/ cmd[q].op = "line")
<1> USE DEF ShellTypes, Sending
<1>1. CASE LoginBuffer(p) \/ LoginKill(p) \/ LoginDone(p)
  BY <1>1 DEF LoginBuffer, LoginKill, LoginDone, At, Goto
<1>2. CASE Who(p) \/ Name(p) \/ Tell(p) \/ Yell(p) \/ Exit(p)
  BY <1>2 DEF Who, Name, Tell, Yell, Exit, Enter, At, Goto, Return, Die
<1>3. CASE TakeBuffer(p) \/ PostBuffer(p) \/ PostClients(p)
  BY <1>3 DEF TakeBuffer, PostBuffer, PostClients, At, Goto, Return, Die
<1>4. CASE ParseRecv(p) \/ ParseSend(p) \/ MkFifo(p) \/ OpenWrite(p) \/ EndParse(p)
  BY <1>4 DEF ParseRecv, ParseSend, MkFifo, OpenWrite, EndParse, Enter, At, Goto, Die
<1>5. CASE PipeBuffer(p) \/ PipeKill(p) \/ PipePost(p) \/ Run(p)
  BY <1>5 DEF PipeBuffer, PipeKill, PipePost, Run, At, Goto
<1>6. CASE RemoveReceive(p) \/ RemoveFd(p) \/ ResetFlag(p)
  BY <1>6 DEF RemoveReceive, RemoveFd, ResetFlag, At, Goto, Return
<1>7. CASE Unlink(p)
  BY <1>7 DEF Unlink, At
<1>8. CASE Handler(p)
  BY <1>8 DEF Handler, PrintBuffer, OpenPipes, OpenRead, StoreFd, Restart
<1>9. CASE Close(p) \/ Hangup(p)
  BY <1>9 DEF Close, Hangup, Die, Goto
<1> QED BY <1>1, <1>2, <1>3, <1>4, <1>5, <1>6, <1>7, <1>8, <1>9 DEF Shell

\* Every step keeps the commands sound.
LEMMA CmdOkInductive == ASSUME TakeTurns, IInv, CmdOk, [Next]_vars PROVE CmdOk'
<1> USE DEF ShellTypes, ParentTypes, Sending
<1>0. NoCmd.op = "line" /\ NoCmd.send = 0
  BY DEF NoCmd, Cmd
<1>1. CASE PickAndFork
  BY <1>1 DEF PickAndFork, Goto, CmdOk
<1>2. CASE Register
  BY <1>2 DEF Register, CmdOk
<1>3. ASSUME NEW p \in Procs, Accept(p) PROVE CmdOk'
  BY <1>3 DEF Accept, CmdOk
<1>4. ASSUME NEW p \in Procs, Reap(p) PROVE CmdOk'
  BY <1>0, <1>4 DEF Reap, Goto, CmdOk
<1>5. ASSUME NEW p \in Procs, NEW c \in Commands(p), ReadLine(p, c) PROVE CmdOk'
  <2>1. my_id[p] # 0 /\ my_id' = my_id /\ pc' = [pc EXCEPT ![p] = "cmd"] /\ cmd' = [cmd EXCEPT ![p] = c]
    BY <1>5 DEF ReadLine, At, Goto, HasId
  <2> QED BY <2>1, TypedOk DEF CmdOk
<1>6. ASSUME NEW p \in Procs, Shell(p) \/ Handler(p) \/ Close(p) \/ Hangup(p)
      PROVE  CmdOk'
  <2>1. \A q \in Procs : pc'[q] \in Sending =>
          pc[q] \in Sending /\ (pc'[q] = "cmd" \/ pc[q] # "cmd" \/ cmd[q].op = "line")
    BY <1>6, SendingStays
  <2>2. \A q \in Procs : pc[q] \in Sending => my_id'[q] = my_id[q] /\ my_id[q] # 0
    <3>1. \A q \in Procs : pc[q] \in Sending => my_id[q] # 0
      BY DEF HasId
    <3>2. CASE LoginDone(p)
      BY <3>1, <3>2 DEF LoginDone, At
    <3>3. CASE ~LoginDone(p)
      BY <1>6, <3>1, <3>3, ElsewhereKeeps DEF Shell, Elsewhere, Exit, ParseSend, RemoveReceive
    <3> QED BY <3>2, <3>3
  <2>3. CASE Forgets(p)
    BY <1>0, <2>1, <2>2, <2>3 DEF CmdOk, Forgets
  <2>4. CASE ParseRecv(p)
    <3>1. UNCHANGED <<my_id>> /\ (cmd' = cmd \/ cmd' = [cmd EXCEPT ![p] = [cmd[p] EXCEPT !.recv = 0]])
      BY <2>4 DEF ParseRecv, RecvParsed
    <3>2. /\ \A q \in Procs : cmd'[q].op = cmd[q].op /\ cmd'[q].name = cmd[q].name
          /\ \A q \in Procs : cmd'[q].send = cmd[q].send
      <4> DEFINE x == [cmd[p] EXCEPT !.recv = 0]
      <4>1. cmd[p] \in CmdType /\ cmd \in [Procs -> CmdType]
        OBVIOUS
      <4>2. x.op = cmd[p].op /\ x.name = cmd[p].name /\ x.send = cmd[p].send
        BY <4>1, CmdParts
      <4>3. \A q \in Procs : cmd'[q] = cmd[q] \/ (q = p /\ cmd'[q] = x)
        BY <3>1
      <4> HIDE DEF x
      <4> QED BY <4>2, <4>3
    <3> QED BY <2>1, <3>1, <3>2 DEF CmdOk
  <2>5. CASE ParseSend(p) \/ OpenWrite(p)
    <3>0. cmd[p].op = "line"
      BY <2>5 DEF ParseSend, OpenWrite, Enter, At, CmdOk
    <3>1. UNCHANGED <<my_id>> /\ (cmd' = cmd \/ cmd' = [cmd EXCEPT ![p] = [cmd[p] EXCEPT !.send = 0]])
      BY <2>5 DEF ParseSend, OpenWrite, SendParsed
    <3>2. /\ \A q \in Procs : cmd'[q].op = cmd[q].op /\ cmd'[q].name = cmd[q].name
          /\ \A q \in Procs : cmd'[q].send = cmd[q].send \/ (q = p /\ cmd'[q].send = 0)
      <4> DEFINE x == [cmd[p] EXCEPT !.send = 0]
      <4>1. cmd[p] \in CmdType /\ cmd \in [Procs -> CmdType]
        OBVIOUS
      <4>2. x.op = cmd[p].op /\ x.name = cmd[p].name /\ x.send = 0
        BY <4>1, CmdParts
      <4>3. \A q \in Procs : cmd'[q] = cmd[q] \/ (q = p /\ cmd'[q] = x)
        BY <3>1
      <4> HIDE DEF x
      <4> QED BY <4>2, <4>3
    <3> QED BY <2>1, <2>2, <3>0, <3>1, <3>2 DEF CmdOk
  <2> QED BY <1>6, <2>3, <2>4, <2>5, CommandSteps
<1>7. ~Kill /\ ~Interrupt
  BY DEF TakeTurns, Kill, Interrupt
<1>8. CASE UNCHANGED vars
  BY <1>8 DEF vars, CmdOk
<1> QED BY <1>1, <1>2, <1>3, <1>4, <1>5, <1>6, <1>7, <1>8 DEF Next

\* The parts of a line.
LEMMA LineParts ==
  ASSUME NEW r \in LineType, NEW i, NEW x, NEW b
  PROVE  /\ [r EXCEPT !.from = i, !.fd = x].from = i
         /\ [r EXCEPT !.to = i, !.wr = b].from = r.from
  BY DEF LineType

\* A shell's step is one of a busy process, and touches the line of no other.
LEMMA ShellBusy ==
  ASSUME ShellTypes, NEW p \in Procs, Shell(p)
  PROVE  /\ Busy(p)
         /\ \A q \in Procs : q # p => line'[q] = line[q] /\ (pc[q] = "gone" => pc'[q] = "gone")
<1> USE DEF ShellTypes, Busy
<1>1. CASE LoginBuffer(p) \/ LoginKill(p) \/ LoginDone(p)
  BY <1>1 DEF LoginBuffer, LoginKill, LoginDone, At, Goto
<1>2. CASE Who(p) \/ Name(p) \/ Tell(p) \/ Yell(p) \/ Exit(p)
  BY <1>2 DEF Who, Name, Tell, Yell, Exit, Enter, At, Goto, Return, Die
<1>3. CASE TakeBuffer(p) \/ PostBuffer(p) \/ PostClients(p)
  BY <1>3 DEF TakeBuffer, PostBuffer, PostClients, At, Goto, Return, Die
<1>4. CASE ParseRecv(p) \/ ParseSend(p) \/ MkFifo(p) \/ OpenWrite(p) \/ EndParse(p)
  BY <1>4 DEF ParseRecv, ParseSend, MkFifo, OpenWrite, EndParse, Enter, At, Goto, Die
<1>5. CASE PipeBuffer(p) \/ PipeKill(p) \/ PipePost(p) \/ Run(p)
  BY <1>5 DEF PipeBuffer, PipeKill, PipePost, Run, At, Goto
<1>6. CASE RemoveReceive(p) \/ RemoveFd(p) \/ ResetFlag(p)
  BY <1>6 DEF RemoveReceive, RemoveFd, ResetFlag, At, Goto, Return
<1>7. CASE Unlink(p)
  BY <1>7 DEF Unlink, At
<1> QED BY <1>1, <1>2, <1>3, <1>4, <1>5, <1>6, <1>7 DEF Shell

\* Who has something to receive has an id.
LEMMA LineHasId ==
  ASSUME IInv, LineOk, NEW q \in Procs, line[q].from # 0, pc[q] # "gone"
  PROVE  line[q].from \in Slots /\ my_id[q] \in Slots
<1>1. pc[q] \in Lines /\ line[q] \in LineType
  BY DEF LineOk, ShellTypes
<1>2. line[q].from \in Slots
  BY <1>1 DEF LineType
<1>3. my_id[q] \in Slots
  BY <1>1 DEF HasId, Lines
<1> QED BY <1>2, <1>3

\* A step of p's shell leaves p's line sound.
LEMMA OwnLine ==
  ASSUME IInv, LineOk, NEW p \in Procs, Shell(p), line'[p].from # 0
  PROVE  /\ pc'[p] \in Lines \cup {"gone"}
         /\ pc'[p] # "gone" => cmd'[p].op = "line"
         /\ pc'[p] \in Lines \ {"rm_fd", "unlink", "reset"} => receive'[line'[p].from][my_id'[p]]
<1> USE DEF ShellTypes, Lines
<1>1. CASE LoginBuffer(p) \/ LoginKill(p) \/ LoginDone(p)
  BY <1>1 DEF LoginBuffer, LoginKill, LoginDone, At, LineOk
<1>2. CASE Who(p) \/ Name(p) \/ Tell(p) \/ Yell(p) \/ Exit(p)
  BY <1>2 DEF Who, Name, Tell, Yell, Exit, Enter, At, LineOk
<1>3. CASE TakeBuffer(p) \/ PostBuffer(p) \/ PostClients(p)
  BY <1>3 DEF TakeBuffer, PostBuffer, PostClients, At, LineOk
<1>4. CASE ParseRecv(p)
  <2> DEFINE n == cmd[p].recv
  <2>1. pc[p] = "cmd" /\ cmd[p].op = "line" /\ UNCHANGED <<my_id, receive>>
    BY <1>4 DEF ParseRecv, Enter, At
  <2>2. pc'[p] # "gone" => cmd'[p].op = "line"
    BY <1>4, <2>1, CmdParts DEF ParseRecv, RecvParsed, Die, Goto
  <2>3. CASE UNCHANGED <<pc, line>>
    BY <2>1, <2>2, <2>3 DEF LineOk
  <2>4. CASE pc' = pc /\ receive[n][my_id[p]] /\ \E x : line' = [line EXCEPT ![p] = [line[p] EXCEPT !.from = n, !.fd = x]]
    <3>1. line[p] \in LineType
      OBVIOUS
    <3>2. PICK x : line' = [line EXCEPT ![p] = [line[p] EXCEPT !.from = n, !.fd = x]]
      BY <2>4
    <3> DEFINE r == [line[p] EXCEPT !.from = n, !.fd = x]
    <3>3. r.from = n
      BY <3>1, LineParts
    <3>4. line'[p] = r
      BY <3>2
    <3> HIDE DEF r
    <3> QED BY <2>1, <2>2, <2>4, <3>3, <3>4
  <2>5. CASE pc'[p] = "gone"
    BY <2>5
  <2>6. CASE pc'[p] = "bc" /\ UNCHANGED line
    BY <2>1, <2>2, <2>6 DEF LineOk
  <2> QED BY <1>4, <2>3, <2>4, <2>5, <2>6 DEF ParseRecv, Die, Goto
<1>5. CASE ParseSend(p)
  <2>1. pc[p] = "cmd" /\ cmd[p].op = "line" /\ UNCHANGED <<my_id, line>>
    BY <1>5 DEF ParseSend, Enter, At
  <2>2. \A i, j \in Slots : receive[i][j] => receive'[i][j]
    <3>1. receive' = receive \/ \E n : receive' = [receive EXCEPT ![my_id[p]][n] = TRUE]
      BY <1>5 DEF ParseSend
    <3>2. ASSUME NEW n, receive' = [receive EXCEPT ![my_id[p]][n] = TRUE], NEW i \in Slots, NEW j \in Slots,
                 receive[i][j]
          PROVE  receive'[i][j]
      BY <3>2 DEF PipeTypes
    <3> QED BY <3>1, <3>2
  <2>3. pc'[p] \in {"cmd", "mkfifo", "open", "gone"}
    BY <1>5 DEF ParseSend, Enter, At, Goto, Die
  <2>4. cmd'[p].op = "line"
    <3>1. cmd[p] \in CmdType /\ (cmd' = cmd \/ cmd' = [cmd EXCEPT ![p] = [cmd[p] EXCEPT !.send = 0]])
      BY <1>5 DEF ParseSend, SendParsed
    <3>2. [cmd[p] EXCEPT !.send = 0].op = "line"
      BY <2>1, <3>1, CmdParts
    <3> QED BY <2>1, <3>1, <3>2
  <2> QED BY <2>1, <2>2, <2>3, <2>4, LineHasId DEF LineOk
<1>6. CASE OpenWrite(p)
  <2>1. pc[p] = "open" /\ pc'[p] = "cmd" /\ UNCHANGED <<my_id, receive>>
    BY <1>6 DEF OpenWrite, At, Goto
  <2>2. line'[p].from = line[p].from
    <3>1. PICK j, b : line' = [line EXCEPT ![p] = [line[p] EXCEPT !.to = j, !.wr = b]]
      BY <1>6 DEF OpenWrite
    <3> DEFINE r == [line[p] EXCEPT !.to = j, !.wr = b]
    <3>2. r.from = line[p].from
      BY LineParts
    <3>3. line'[p] = r
      BY <3>1
    <3> HIDE DEF r
    <3> QED BY <3>2, <3>3
  <2>3. cmd'[p].op = cmd[p].op
    <3>1. cmd[p] \in CmdType /\ cmd'[p] = [cmd[p] EXCEPT !.send = 0]
      BY <1>6 DEF OpenWrite, SendParsed
    <3> QED BY <3>1, CmdParts
  <2> QED BY <2>1, <2>2, <2>3 DEF LineOk
<1>7. CASE MkFifo(p) \/ EndParse(p) \/ PipeBuffer(p) \/ PipeKill(p) \/ PipePost(p) \/ Run(p)
  BY <1>7 DEF MkFifo, EndParse, PipeBuffer, PipeKill, PipePost, Run, At, Goto, LineOk
<1>8. CASE RemoveReceive(p) \/ RemoveFd(p)
  BY <1>8 DEF RemoveReceive, RemoveFd, At, Goto, LineOk
<1>9. CASE Unlink(p)
  BY <1>9 DEF Unlink, At, LineOk
<1>10. CASE ResetFlag(p)
  BY <1>10 DEF ResetFlag, NoLine
<1> QED BY <1>1, <1>2, <1>3, <1>4, <1>5, <1>6, <1>7, <1>8, <1>9, <1>10 DEF Shell

\* Every step keeps the lines sound.
LEMMA LineOkInductive ==
  ASSUME TakeTurns, IInv, Turns, LineOk, [Next]_vars PROVE LineOk'
<1> USE DEF ShellTypes, ParentTypes
<1>1. ASSUME NEW p \in Procs, Shell(p) PROVE LineOk'
  <2>1. /\ \A q \in Procs : Busy(q) => q = p
        /\ \A q \in Procs : q # p => line'[q] = line[q] /\ (pc[q] = "gone" => pc'[q] = "gone")
    BY <1>1, ShellBusy DEF Turns
  <2>2. \A q \in Procs : line'[q].from # 0 => q = p \/ pc'[q] = "gone"
    BY <2>1 DEF LineOk, Lines, Busy
  <2>3. line'[p].from # 0 =>
          /\ pc'[p] \in Lines \cup {"gone"}
          /\ pc'[p] # "gone" => cmd'[p].op = "line"
          /\ pc'[p] \in Lines \ {"rm_fd", "unlink", "reset"} => receive'[line'[p].from][my_id'[p]]
    BY <1>1, OwnLine
  <2> QED BY <2>2, <2>3 DEF LineOk, Lines
<1>2. ASSUME UNCHANGED <<line, cmd, my_id, receive>>,
             \A q \in Procs : \/ pc'[q] \in {pc[q], "gone"}
                              \/ pc[q] = "orphaned" /\ pc'[q] = "open"
                              \/ pc[q] = "unborn"
      PROVE  LineOk'
  BY <1>2 DEF LineOk, Lines
<1>3. CASE PickAndFork
  BY <1>2, <1>3 DEF PickAndFork, Goto, HasId
<1>4. CASE Register
  BY <1>2, <1>4 DEF Register
<1>5. ASSUME NEW p \in Procs, Accept(p) \/ Handler(p) \/ Close(p) \/ Hangup(p)
      PROVE  LineOk'
  BY <1>2, <1>5 DEF Accept, Handler, PrintBuffer, OpenPipes, OpenRead, StoreFd, Restart, Close,
                    Hangup, Die, Goto
<1>6. ASSUME NEW p \in Procs, Reap(p)
      PROVE  LineOk'
  <2>1. /\ receive' = receive /\ pc' = [pc EXCEPT ![p] = "unborn"] /\ cmd' = [cmd EXCEPT ![p] = NoCmd]
        /\ line' = [line EXCEPT ![p] = NoLine] /\ my_id' = [my_id EXCEPT ![p] = 0]
    BY <1>6 DEF Reap, Goto
  <2>2. line'[p].from = 0
    BY <2>1 DEF NoLine
  <2>3. \A q \in Procs : q # p => line'[q] = line[q] /\ cmd'[q] = cmd[q] /\ pc'[q] = pc[q] /\ my_id'[q] = my_id[q]
    BY <2>1
  <2> QED BY <2>1, <2>2, <2>3 DEF LineOk
<1>7. ASSUME NEW p \in Procs, NEW c \in Commands(p), ReadLine(p, c)
      PROVE  LineOk'
  <2>1. /\ UNCHANGED <<line, my_id, receive>> /\ pc[p] = "prompt"
        /\ \A q \in Procs : q # p => pc'[q] = pc[q] /\ cmd'[q] = cmd[q]
    BY <1>7 DEF ReadLine, At, Goto
  <2>2. line[p].from = 0
    BY <2>1 DEF LineOk, Lines
  <2> QED BY <2>1, <2>2 DEF LineOk
<1>8. ~Kill /\ ~Interrupt
  BY DEF TakeTurns, Kill, Interrupt
<1>9. CASE UNCHANGED vars
  BY <1>2, <1>9 DEF vars
<1> QED BY <1>1, <1>3, <1>4, <1>5, <1>6, <1>7, <1>8, <1>9 DEF Next

\* Steps that change no nickname and no mark.
LEMMA RoomRests == ASSUME UNCHANGED <<cname, receive>> PROVE UNCHANGED Room!vars
  BY DEF Room!vars, Marked

\* The marked pipes after a step.
LEMMA MarkedAfter ==
  ASSUME PipeTypes, NEW i \in Slots, NEW j \in Slots
  PROVE  /\ <<i, j>> \in Marked <=> receive[i][j]
         /\ receive' = [receive EXCEPT ![i][j] = TRUE] => Marked' = Marked \cup {<<i, j>>}
         /\ receive' = [receive EXCEPT ![i][j] = FALSE] => Marked' = Marked \ {<<i, j>>}
<1>1. <<i, j>> \in Marked <=> receive[i][j]
  BY DEF Marked
<1>2. ASSUME NEW b \in BOOLEAN, receive' = [receive EXCEPT ![i][j] = b]
      PROVE  /\ \A d \in Slots \X Slots : d \in Marked' <=> (IF d = <<i, j>> THEN b ELSE d \in Marked)
             /\ Marked \subseteq Slots \X Slots /\ Marked' \subseteq Slots \X Slots
             /\ <<i, j>> \in Slots \X Slots
  <2>1. \A k, l \in Slots : receive'[k][l] = IF k = i /\ l = j THEN b ELSE receive[k][l]
    BY <1>2 DEF PipeTypes
  <2>2. \A d \in Slots \X Slots : /\ d = <<d[1], d[2]>> /\ d[1] \in Slots /\ d[2] \in Slots
                                  /\ d \in Marked <=> receive[d[1]][d[2]]
                                  /\ d \in Marked' <=> receive'[d[1]][d[2]]
    BY DEF Marked
  <2>3. \A d \in Slots \X Slots : d = <<i, j>> <=> d[1] = i /\ d[2] = j
    BY <2>2
  <2> QED BY <2>1, <2>2, <2>3 DEF Marked
<1>3. receive' = [receive EXCEPT ![i][j] = TRUE] => Marked' = Marked \cup {<<i, j>>}
  BY <1>2
<1>4. receive' = [receive EXCEPT ![i][j] = FALSE] => Marked' = Marked \ {<<i, j>>}
  BY <1>2
<1> QED BY <1>1, <1>3, <1>4

\* The places where a shell has the semaphores or waits for something are in use by
\* their process.
LEMMA Acts ==
  ASSUME NEW p \in Procs, Name(p) \/ Exit(p) \/ ParseSend(p) \/ RemoveReceive(p)
  PROVE  Online(p) /\ Busy(p) /\ pc[p] \notin LoggingIn
<1>1. pc[p] \in {"cmd", "rm_receive"}
  BY DEF Name, Exit, ParseSend, RemoveReceive, Enter, At
<1> QED BY <1>1 DEF Online, Alive, Busy, LoggingIn

\* Every step of the server is one of the chat room, or none.
LEMMA RoomSteps ==
  ASSUME TakeTurns, IInv, Owned, Turns, Rows, CmdOk, LineOk, [Next]_vars
  PROVE  [Room!Next]_Room!vars
<1> USE DEF ParentTypes, TableTypes, Room!Ids
<1>1. CASE PickAndFork
  BY <1>1, RoomRests DEF PickAndFork
<1>2. CASE Register
  <2>1. /\ nid \in Slots /\ cname' = [cname EXCEPT ![nid] = Anon] /\ receive' = receive
        /\ ppc = "reg" /\ cpid[nid] = NoProc
    BY <1>2 DEF Register, Owned
  <2>2. ~Room!Here(nid) /\ \A j \in 1..(nid - 1) : Room!Here(j)
    BY <2>1 DEF Room!Here, Rows
  <2>3. Room!Login(nid)
    BY <2>1, <2>2 DEF Room!Login, Marked
  <2> QED BY <2>1, <2>3 DEF Room!Next
<1>3. ASSUME NEW p \in Procs, Accept(p) \/ Reap(p)
      PROVE  UNCHANGED Room!vars
  BY <1>3, RoomRests DEF Accept, Reap
<1>4. ASSUME NEW p \in Procs, Exit(p)
      PROVE  Room!Next
  <2> DEFINE m == my_id[p]
  <2>1. m \in Slots /\ cpid[m] # NoProc
    BY <1>4, Acts, Acting
  <2>2. /\ cname' = [cname EXCEPT ![m] = NoName]
        /\ \A i, j \in Slots : receive'[i][j] <=> receive[i][j] /\ i # m /\ j # m
    BY <1>4 DEF Exit, FreeSlot, Involves, PipeTypes
  <2>3. Marked' = Marked \ Room!About(m)
    <3>1. \A d \in Slots \X Slots : /\ d[1] \in Slots /\ d[2] \in Slots
                                    /\ d \in Marked' <=> receive'[d[1]][d[2]]
                                    /\ d \in Marked <=> receive[d[1]][d[2]]
      BY DEF Marked
    <3>2. Marked \subseteq Slots \X Slots /\ Marked' \subseteq Slots \X Slots
      BY DEF Marked
    <3>3. Room!About(m) = {d \in Marked : m \in {d[1], d[2]}}
      BY DEF Room!About
    <3> HIDE DEF m
    <3>4. \A d \in Slots \X Slots : d \in Marked' <=> d \in Marked /\ d[1] # m /\ d[2] # m
      <4> SUFFICES ASSUME NEW d \in Slots \X Slots
                   PROVE  d \in Marked' <=> d \in Marked /\ d[1] # m /\ d[2] # m
        OBVIOUS
      <4>1. receive'[d[1]][d[2]] <=> receive[d[1]][d[2]] /\ d[1] # m /\ d[2] # m
        BY <2>2, <3>1
      <4> QED BY <3>1, <4>1
    <3> QED BY <3>2, <3>3, <3>4
  <2>4. Room!Here(m)
    BY <2>1 DEF Room!Here, Rows
  <2>5. Room!Leave(m)
    BY <2>2, <2>3, <2>4 DEF Room!Leave
  <2> QED BY <2>1, <2>5 DEF Room!Next
<1>5. ASSUME NEW p \in Procs, Name(p)
      PROVE  [Room!Next]_Room!vars
  <2> DEFINE m == my_id[p]
  <2>1. m \in Slots /\ cpid[m] # NoProc /\ cmd[p].name \in Names
    BY <1>5, Acts, Acting DEF Name, Enter, CmdOk
  <2>2. receive' = receive
    BY <1>5 DEF Name
  <2>3. CASE UNCHANGED cname
    BY <2>2, <2>3, RoomRests
  <2>4. CASE ~NameTaken(cmd[p].name) /\ cname' = [cname EXCEPT ![m] = cmd[p].name]
    <3>1. Room!Here(m) /\ Room!Free(cmd[p].name)
      BY <2>1, <2>4 DEF Room!Here, Room!Free, NameTaken, Rows
    <3>2. Room!Rename(m, cmd[p].name)
      BY <2>2, <2>4, <3>1 DEF Room!Rename, Marked
    <3> QED BY <2>1, <3>2 DEF Room!Next
  <2> QED BY <1>5, <2>3, <2>4 DEF Name
<1>6. ASSUME NEW p \in Procs, ParseSend(p)
      PROVE  [Room!Next]_Room!vars
  <2> DEFINE m == my_id[p]
             n == cmd[p].send
  <2>1. m \in Slots /\ cpid[m] # NoProc
    BY <1>6, Acts, Acting
  <2>2. n # m /\ cname' = cname
    BY <1>6 DEF ParseSend, Enter, At, CmdOk, Sending
  <2>3. CASE UNCHANGED receive
    BY <2>2, <2>3, RoomRests
  <2>4. CASE /\ n \in Slots /\ cpid[n] # NoProc /\ ~receive[m][n]
             /\ receive' = [receive EXCEPT ![m][n] = TRUE]
    <3>1. Room!Here(m) /\ Room!Here(n)
      BY <2>1, <2>4 DEF Room!Here, Rows
    <3>2. <<m, n>> \notin Marked /\ Marked' = Marked \cup {<<m, n>>}
      BY <2>1, <2>4, MarkedAfter
    <3>3. Room!Send(m, n)
      BY <2>2, <3>1, <3>2 DEF Room!Send
    <3> QED BY <2>1, <2>4, <3>3 DEF Room!Next
  <2> QED BY <1>6, <2>3, <2>4 DEF ParseSend
<1>7. ASSUME NEW p \in Procs, RemoveReceive(p)
      PROVE  [Room!Next]_Room!vars
  <2> DEFINE m == my_id[p]
             i == line[p].from
  <2>1. receive' = [receive EXCEPT ![i][m] = FALSE] /\ cname' = cname /\ pc[p] = "rm_receive"
    BY <1>7 DEF RemoveReceive, At
  <2>2. m \in Slots
    BY <1>7, Acts, Acting
  <2>3. CASE i = 0
    <3>1. receive' = receive
      BY <2>1, <2>3 DEF PipeTypes
    <3> QED BY <2>1, <3>1, RoomRests
  <2>4. CASE i # 0
    <3>1. i \in Slots /\ receive[i][m]
      BY <2>1, <2>4, LineHasId DEF LineOk, Lines
    <3>2. <<i, m>> \in Marked /\ Marked' = Marked \ {<<i, m>>}
      BY <2>1, <2>2, <3>1, MarkedAfter
    <3>3. Room!Receive(i, m)
      BY <2>1, <3>2 DEF Room!Receive
    <3> QED BY <2>2, <3>1, <3>3 DEF Room!Next
  <2> QED BY <2>3, <2>4
<1>8. ASSUME NEW p \in Procs, Elsewhere(p), ~Name(p)
      PROVE  UNCHANGED Room!vars
  BY <1>8, ElsewhereKeeps, ElsewhereNames, RoomRests
<1>9. ASSUME NEW p \in Procs, LoginDone(p)
      PROVE  UNCHANGED Room!vars
  BY <1>9, RoomRests DEF LoginDone
<1>10. ~Kill /\ ~Interrupt
  BY DEF TakeTurns, Kill, Interrupt
<1>11. CASE UNCHANGED vars
  BY <1>11, RoomRests DEF vars
<1> QED BY <1>1, <1>2, <1>3, <1>4, <1>5, <1>6, <1>7, <1>8, <1>9, <1>10, <1>11, IdSteps

\* What holds in every state when clients take turns.
TurnsInv == Owned /\ TrueIds /\ Turns /\ Rows /\ CmdOk /\ LineOk

LEMMA TurnsInvInit == Init => TurnsInv
<1> SUFFICES ASSUME Init PROVE TurnsInv
  OBVIOUS
<1>1. ppc = "accept" /\ \A p \in Procs : pc[p] = "unborn" /\ my_id[p] = 0
  BY DEF Init, All
<1>2. Owned /\ TrueIds /\ Turns
  BY <1>1 DEF Owned, Online, Alive, TrueIds, Turns, Busy
<1>3. Rows
  BY DEF Init, Rows
<1>4. \A p \in Procs : cmd[p].op = "line" /\ line[p].from = 0
  BY DEF Init, All, NoCmd, NoLine, Cmd
<1> QED BY <1>1, <1>2, <1>3, <1>4 DEF TurnsInv, CmdOk, Sending, LineOk

LEMMA TurnsInvKept == ASSUME TakeTurns PROVE IInv /\ TurnsInv /\ [Next]_vars => TurnsInv'
  BY OwnedInductive, TrueIdsInductive, TurnsInductive, RowsInductive, CmdOkInductive,
     LineOkInductive DEF TurnsInv

LEMMA TurnsInvHolds == ASSUME TakeTurns PROVE Spec => []TurnsInv
  BY TurnsInvInit, TurnsInvKept, Invariant, PTL DEF Spec

\* When the clients take turns the processes together are a chat room: Register is a
\* login, exit a leave, >n a send and remove_userpipe a receive, and no step does
\* anything else to ids, nicknames and pipes, whoever closes the connection when.
THEOREM ImplementsRoom == ASSUME TakeTurns PROVE Spec => RoomSpec
<1>1. Init => Room!Init
  BY DEF Init, Pairs, Room!Init, Room!Ids, Marked
<1>2. IInv /\ TurnsInv /\ [Next]_vars => [Room!Next]_Room!vars
  BY RoomSteps DEF TurnsInv
<1> QED BY <1>1, <1>2, Invariant, TurnsInvHolds, PTL DEF Spec, RoomSpec, Room!Spec

\* What a shell's step leaves alone, unless it is exit's.
LEMMA ShellKeeps ==
  ASSUME NEW p \in Procs, Shell(p), ~Exit(p)
  PROVE  UNCHANGED <<mainVars, cpid, hid, closed>>
<1>1. CASE LoginBuffer(p) \/ LoginKill(p) \/ LoginDone(p)
  BY <1>1 DEF LoginBuffer, LoginKill, LoginDone
<1>2. CASE Who(p) \/ Name(p) \/ Tell(p) \/ Yell(p)
  BY <1>2 DEF Who, Name, Tell, Yell
<1>3. CASE TakeBuffer(p) \/ PostBuffer(p) \/ PostClients(p)
  BY <1>3 DEF TakeBuffer, PostBuffer, PostClients
<1>4. CASE ParseRecv(p) \/ ParseSend(p) \/ MkFifo(p) \/ OpenWrite(p) \/ EndParse(p)
  BY <1>4 DEF ParseRecv, ParseSend, MkFifo, OpenWrite, EndParse
<1>5. CASE PipeBuffer(p) \/ PipeKill(p) \/ PipePost(p) \/ Run(p)
  BY <1>5 DEF PipeBuffer, PipeKill, PipePost, Run
<1>6. CASE RemoveReceive(p) \/ RemoveFd(p) \/ Unlink(p) \/ ResetFlag(p)
  BY <1>6 DEF RemoveReceive, RemoveFd, Unlink, ResetFlag
<1> QED BY <1>1, <1>2, <1>3, <1>4, <1>5, <1>6 DEF Shell

-----------------------------------------------------------------------------
(* When nothing fails besides.                                             *)

\* Nobody closes a connection without exit or types a number past the table.
NothingFails == Serial /\ Faults = {} /\ MaxArg = N

\* Whoever is in the table is online under that id, as is the child that is about to
\* be entered, and a free slot is there when the parent looks for one.
Exact == /\ ppc # "overrun"
         /\ ppc = "pick" => \E i \in Slots : cpid[i] = NoProc
         /\ ppc = "reg" => Online(kid)
         /\ \A i \in Slots : cpid[i] # NoProc => Online(cpid[i]) /\ hid[cpid[i]] = i
         /\ \A p \in Procs : ~closed[p]

\* Steps that leave the parent and the table, with everybody online in their places.
LEMMA ExactKept ==
  ASSUME TableTypes, ParentTypes, Exact, UNCHANGED <<mainVars, cpid, hid, closed>>,
         \A p \in Procs : Online(p) => Online(p)'
  PROVE  Exact'
<1>1. ppc = "reg" => kid \in Procs
  BY DEF ParentTypes
<1>2. \A i \in Slots : cpid[i] # NoProc => cpid[i] \in Procs
  BY DEF TableTypes
<1> QED BY <1>1, <1>2 DEF Exact

\* Nobody goes offline but by exit.
LEMMA StaysOnline ==
  ASSUME NothingFails, IInv, CmdOk, NEW p \in Procs, Shell(p), ~Exit(p)
  PROVE  \A q \in Procs : Online(q) => Online(q)'
<1> USE DEF ShellTypes, Online, Alive
<1>0. NoCmd.op = "line"
  BY DEF NoCmd, Cmd
<1>1. CASE LoginBuffer(p) \/ LoginKill(p) \/ LoginDone(p)
  BY <1>1 DEF LoginBuffer, LoginKill, LoginDone, At, Goto
<1>2. CASE Who(p) \/ Name(p) \/ Yell(p)
  BY <1>2 DEF Who, Name, Yell, Enter, At, Goto, Return
<1>3. CASE Tell(p)
  <2>1. cmd[p].op = "tell" /\ cmd[p] \in CmdType /\ pc[p] = "cmd"
    BY <1>3 DEF Tell, Enter, At
  <2>2. cmd[p].send \in Slots
    BY <2>1 DEF NothingFails, CmdOk, CmdType
  <2> QED BY <1>3, <2>1, <2>2 DEF Tell, Goto, Return
<1>4. CASE TakeBuffer(p) \/ PostBuffer(p)
  BY <1>4 DEF TakeBuffer, PostBuffer, At, Goto
<1>5. CASE PostClients(p)
  BY <1>0, <1>5 DEF PostClients, At, Goto, Return, Die
<1>6. CASE ParseRecv(p) \/ ParseSend(p)
  <2>1. cmd[p].recv \in 0..N /\ cmd[p].send \in 0..N /\ pc[p] = "cmd"
    BY <1>6 DEF ParseRecv, ParseSend, Enter, At, CmdType, NothingFails
  <2>2. pc'[p] \in {"cmd", "mkfifo"} /\ \A q \in Procs : q # p => pc'[q] = pc[q] /\ cmd'[q] = cmd[q]
    BY <1>6, <2>1 DEF ParseRecv, ParseSend, RecvParsed, SendParsed, Goto
  <2> QED BY <2>2
<1>7. CASE MkFifo(p) \/ OpenWrite(p) \/ EndParse(p)
  BY <1>7 DEF MkFifo, OpenWrite, SendParsed, EndParse, At, Goto
<1>8. CASE PipeBuffer(p) \/ PipeKill(p) \/ PipePost(p) \/ Run(p)
  BY <1>8 DEF PipeBuffer, PipeKill, PipePost, Run, At, Goto
<1>9. CASE RemoveReceive(p) \/ RemoveFd(p) \/ ResetFlag(p)
  BY <1>9 DEF RemoveReceive, RemoveFd, ResetFlag, At, Goto, Return
<1>10. CASE Unlink(p)
  BY <1>10 DEF Unlink, At
<1> QED BY <1>1, <1>2, <1>3, <1>4, <1>5, <1>6, <1>7, <1>8, <1>9, <1>10 DEF Shell

\* If every slot is taken, N processes are alive between commands.
LEMMA FullHouse ==
  ASSUME IInv, Owned, Exact, Quiet, \A i \in Slots : cpid[i] # NoProc
  PROVE  Cardinality({q \in Procs : Alive(q)}) = N
<1> DEFINE A == {q \in Procs : Alive(q)}
<1>1. \A i \in Slots : cpid[i] \in A /\ hid[cpid[i]] = i
  BY DEF Exact, Online, TableTypes
<1>2. ASSUME NEW q \in A
      PROVE  \E i \in Slots : cpid[i] = q
  <2>1. Online(q) /\ hid[q] \in Slots
    BY <1>2 DEF Quiet, Online, Alive, HasId
  <2> QED BY <2>1 DEF Owned, Quiet
<1>3. cpid \in Bijection(1..N, A)
  <2>1. cpid \in [1..N -> A]
    BY <1>1 DEF TableTypes
  <2>2. cpid \in Injection(1..N, A)
    BY <1>1, <2>1 DEF Injection, IsInjective
  <2>3. cpid \in Surjection(1..N, A)
    BY <1>2, <2>1 DEF Surjection
  <2> QED BY <2>2, <2>3 DEF Bijection
<1>4. ExistsBijection(1..N, A)
  BY <1>3 DEF ExistsBijection
<1> HIDE DEF A
<1>5. Cardinality(A) = N
  BY <1>4, FS_CountingElements
<1> QED BY <1>5 DEF A

\* Every step keeps the table exact.
LEMMA ExactInductive ==
  ASSUME NothingFails, IInv, TurnsInv, Exact, [Next]_vars PROVE Exact'
<1> USE DEF ParentTypes, TableTypes
<1>1. CASE PickAndFork
  <2>1. ppc = "pick" /\ kid \in Procs /\ pc[kid] = "unborn" /\ UNCHANGED <<kid, cpid, cmd, closed>>
    BY <1>1 DEF PickAndFork, HasId
  <2>2. /\ ppc' = "reg" /\ pc' = [pc EXCEPT ![kid] = "login"]
        /\ \E i \in Slots : hid' = [hid EXCEPT ![kid] = i]
    BY <1>1, <2>1 DEF PickAndFork, Goto, Exact
  <2>3. Online(kid)'
    BY <2>1, <2>2 DEF Online, Alive, ShellTypes
  <2>4. ASSUME NEW q \in Procs, Online(q)
        PROVE  q # kid /\ Online(q)' /\ hid'[q] = hid[q]
    BY <2>1, <2>2, <2>4 DEF Online, Alive, ShellTypes
  <2> QED BY <2>1, <2>2, <2>3, <2>4 DEF Exact
<1>2. CASE Register
  <2>1. /\ cpid' = [cpid EXCEPT ![nid] = kid] /\ ppc' = "accept" /\ UNCHANGED <<closed, pc, cmd, hid>>
        /\ ppc = "reg" /\ kid \in Procs
    BY <1>2 DEF Register
  <2>2. \A q \in Procs : Online(q)' <=> Online(q)
    BY <2>1 DEF Online, Alive
  <2>3. Online(kid) /\ hid[kid] = nid
    BY <2>1 DEF Exact, TurnsInv, TrueIds
  <2>4. ASSUME NEW i \in Slots, cpid'[i] # NoProc
        PROVE  cpid'[i] \in Procs /\ Online(cpid'[i]) /\ hid[cpid'[i]] = i
    BY <2>1, <2>3, <2>4 DEF Exact
  <2> QED BY <2>1, <2>2, <2>4 DEF Exact
<1>3. ASSUME NEW p \in Procs, Accept(p)
      PROVE  Exact'
  <2>1. /\ Quiet /\ Cardinality({q \in Procs : Alive(q)}) < N /\ ppc' = "pick"
        /\ UNCHANGED <<cpid, pc, cmd, hid, closed>>
    BY <1>3 DEF Accept, NothingFails
  <2>2. \E i \in Slots : cpid[i] = NoProc
    BY <2>1, FullHouse DEF TurnsInv
  <2>3. \A q : Online(q)' <=> Online(q)
    BY <2>1 DEF Online, Alive
  <2> QED BY <2>1, <2>2, <2>3 DEF Exact
<1>4. ASSUME NEW p \in Procs, Reap(p)
      PROVE  Exact'
  <2>1. /\ pc[p] = "gone" /\ p \notin Registered /\ kid # p /\ UNCHANGED <<mainVars, cpid>>
        /\ pc' = [pc EXCEPT ![p] = "unborn"] /\ hid' = [hid EXCEPT ![p] = 0]
        /\ cmd' = [cmd EXCEPT ![p] = NoCmd] /\ closed' = [closed EXCEPT ![p] = FALSE]
    BY <1>4 DEF Reap, Goto
  <2>2. \A q \in Procs : q # p => (Online(q) => Online(q)') /\ hid'[q] = hid[q]
    BY <2>1 DEF Online, Alive, ShellTypes
  <2>3. \A i \in Slots : cpid[i] # p
    BY <2>1, NoProcAssumption DEF Registered
  <2> QED BY <2>1, <2>2, <2>3 DEF Exact
<1>5. ASSUME NEW p \in Procs, NEW c \in Commands(p), ReadLine(p, c)
      PROVE  Exact'
  <2>1. \A q \in Procs : Online(q) => Online(q)'
    BY <1>5 DEF ReadLine, At, Goto, Online, Alive, ShellTypes
  <2> QED BY <1>5, <2>1, ExactKept DEF ReadLine
<1>6. ASSUME NEW p \in Procs, Exit(p)
      PROVE  Exact'
  <2>1. /\ cpid' = [cpid EXCEPT ![my_id[p]] = NoProc] /\ UNCHANGED <<mainVars, hid, closed>>
        /\ \A q \in Procs : q # p => pc'[q] = pc[q] /\ cmd'[q] = cmd[q]
    BY <1>6 DEF Exit, FreeSlot, Goto, ShellTypes
  <2>2. ppc = "accept" /\ my_id[p] = hid[p] /\ my_id[p] \in Slots
    BY <1>6, Acts, Acting DEF TurnsInv
  <2>3. ASSUME NEW i \in Slots, cpid'[i] # NoProc
        PROVE  cpid[i] \in Procs /\ cpid[i] # p /\ cpid'[i] = cpid[i]
    BY <2>1, <2>2, <2>3 DEF Exact
  <2>4. \A q \in Procs : q # p /\ Online(q) => Online(q)'
    BY <2>1 DEF Online, Alive
  <2> QED BY <2>1, <2>2, <2>3, <2>4 DEF Exact
<1>7. ASSUME NEW p \in Procs, Shell(p), ~Exit(p)
      PROVE  Exact'
  <2>1. \A q \in Procs : Online(q) => Online(q)'
    BY <1>7, StaysOnline DEF TurnsInv
  <2>2. UNCHANGED <<mainVars, cpid, hid, closed>>
    BY <1>7, ShellKeeps
  <2> QED BY <2>1, <2>2, ExactKept
<1>8. ASSUME NEW p \in Procs, Handler(p)
      PROVE  Exact'
  <2>1. UNCHANGED <<mainVars, cpid, hid, cmd, closed>>
    BY <1>8 DEF Handler, PrintBuffer, OpenPipes, OpenRead, StoreFd
  <2>2. \A q \in Procs : Online(q) => Online(q)'
    BY <1>8, <2>1 DEF Handler, PrintBuffer, OpenPipes, OpenRead, StoreFd, Restart, Online, Alive,
                      ShellTypes
  <2> QED BY <2>1, <2>2, ExactKept
<1>9. ~Kill /\ ~Interrupt /\ \A p \in Procs : ~Close(p) /\ ~Hangup(p)
  BY DEF NothingFails, Kill, Interrupt, Close, Hangup, Exact
<1>10. CASE UNCHANGED vars
  BY <1>10, ExactKept DEF vars, Online, Alive
<1> QED BY <1>1, <1>2, <1>3, <1>4, <1>5, <1>6, <1>7, <1>8, <1>9, <1>10 DEF Next

LEMMA ExactInit == Init => Exact
  BY NoProcAssumption DEF Init, All, Exact

LEMMA ExactHolds == ASSUME NothingFails PROVE Spec => []Exact
<1>1. TakeTurns
  BY DEF NothingFails, TakeTurns
<1> QED BY <1>1, ExactInit, ExactInductive, TurnsInvHolds, Invariant, PTL DEF Spec

\* If nothing fails, with at most N clients the scan for an id never runs past the
\* table: by the time a client is accepted those before it have given up their slots.
THEOREM ScanFindsSlot == ASSUME NothingFails PROVE Spec => []NoOverrun
<1>1. Exact => NoOverrun
  BY DEF Exact, NoOverrun
<1> QED BY <1>1, ExactHolds, PTL

\* If nothing fails, the table lists between commands exactly the processes at their
\* prompt, each under its own id.
THEOREM TableStaysExact == ASSUME NothingFails PROVE Spec => []TableIsExact
<1>1. IInv /\ TurnsInv /\ Exact => TableIsExact
  <2> SUFFICES ASSUME IInv, TurnsInv, Exact, Quiet, NEW i \in Slots, NEW p \in Procs
               PROVE  cpid[i] = p <=> pc[p] = "prompt" /\ my_id[p] = i
    BY DEF TableIsExact
  <2>1. ASSUME cpid[i] = p
        PROVE  pc[p] = "prompt" /\ my_id[p] = i
    <3>1. Online(p) /\ hid[p] = i
      BY <2>1, NoProcAssumption DEF Exact
    <3>2. pc[p] = "prompt"
      BY <3>1 DEF Online, Alive, Quiet
    <3> QED BY <3>1, <3>2 DEF HasId
  <2>2. ASSUME pc[p] = "prompt", my_id[p] = i
        PROVE  cpid[i] = p
    <3>1. Online(p) /\ ppc = "accept" /\ hid[p] = i
      BY <2>2 DEF Online, Alive, Quiet, HasId
    <3> QED BY <3>1 DEF TurnsInv, Owned
  <2> QED BY <2>1, <2>2
<1>2. TakeTurns
  BY DEF NothingFails, TakeTurns
<1> QED BY <1>1, <1>2, ExactHolds, TurnsInvHolds, Invariant, PTL

-----------------------------------------------------------------------------
(* User pipes, when nothing fails.                                         *)

\* Between commands a marked pipe can be read, and nothing is left of the others.
Settled(i, j) ==
  IF receive[i][j]
    THEN rfd[i][j] = cpid[i] /\ cpid[i] # NoProc /\ fifo[i][j] = "read"
    ELSE rfd[i][j] = NoProc /\ fifo[i][j] = "none"

\* The receiver's line is taking the pipe out of the table.
Removing(i, j) ==
  /\ ~receive[i][j]
  /\ \E p \in Procs : /\ my_id[p] = j /\ line[p].from = i
                      /\ pc[p] = "rm_fd" \/ (pc[p] = "unlink" /\ rfd[i][j] = NoProc)

Rests(i, j) == Settled(i, j) \/ Removing(i, j)

\* The SIGUSR2 handler of p does not run and is not about to.
Idle(p) == ~usr2[p] /\ hnd[p] = 0 /\ hfd[p] = NoProc

\* No pipe is being opened.
Calm == /\ \A p \in Procs : Idle(p) /\ pc[p] # "mkfifo"
        /\ \A i, j \in Slots : Rests(i, j)

\* How far p and the handler of r have come with the FIFO from p to r: SIGUSR2 is
\* pending, or the handler waits in open, or it has the descriptor.
Stage(p, r) ==
  LET file == fifo[my_id[p]][my_id[r]]
  IN \/ /\ pc[p] \in {"mkfifo", "open"} /\ cmd[p].send = my_id[r] /\ hfd[r] = NoProc
        /\ \/ usr2[r] /\ hnd[r] = 0 /\ file # "read" /\ (pc[p] = "open" => file = "made")
           \/ ~usr2[r] /\ hnd[r] = my_id[p] /\ file = "made"
     \/ pc[p] # "mkfifo" /\ ~usr2[r] /\ hnd[r] = my_id[p] /\ hfd[r] = p /\ file = "read"

\* Who opens a pipe: two users between whom nothing else happens.
Between(p, r) ==
  /\ ppc = "accept" /\ p # r
  /\ my_id[p] \in Slots /\ cpid[my_id[p]] = p /\ my_id[r] \in Slots /\ cpid[my_id[r]] = r
  /\ pc[p] \in Lines \cup {"prompt"}
  /\ pc[p] = "cmd" => cmd[p].op = "line" /\ cmd[p].send = 0
  /\ \A q \in Procs : Busy(q) => q = p
  /\ \A q \in Procs : q # r => Idle(q)

\* p's line has marked the pipe to r, and r's handler has not stored its end yet; all
\* the other pipes rest.
Opening(p, r) ==
  /\ Between(p, r)
  /\ \A i, j \in Slots : (i = my_id[p] /\ j = my_id[r]) \/ Rests(i, j)
  /\ receive[my_id[p]][my_id[r]] /\ rfd[my_id[p]][my_id[r]] = NoProc
  /\ Stage(p, r)

\* Nobody waits at a FIFO that is gone, and who has a FIFO open for writing is in a
\* line and has sent all that it has to send.
Writers == \A p \in Procs :
  /\ pc[p] # "orphaned"
  /\ line[p].wr => /\ pc[p] \in Lines \ {"mkfifo", "open"}
                   /\ cmd[p].op = "line" /\ (pc[p] = "cmd" => cmd[p].send = 0)

\* A line has something to remove, and it is no longer marked when the rest follows.
Removals == \A p \in Procs :
  /\ pc[p] \in {"rm_receive", "rm_fd", "unlink"} => line[p].from \in Slots /\ my_id[p] \in Slots
  /\ pc[p] \in {"rm_fd", "unlink"} => ~receive[line[p].from][my_id[p]]

\* At any time at most one pipe is being opened.
PipeInv == Writers /\ Removals /\ (Calm \/ \E p, r \in Procs : Opening(p, r))

\* The parts of a line, again.
LEMMA LineWr ==
  ASSUME NEW r \in LineType, NEW i, NEW x, NEW b
  PROVE  /\ [r EXCEPT !.from = i, !.fd = x].wr = r.wr
         /\ [r EXCEPT !.to = i, !.wr = b].wr = b
  BY DEF LineType

\* A step of p's shell leaves p a writer or none.
LEMMA OwnWriter ==
  ASSUME NothingFails, IInv, CmdOk, Turns, Writers, NEW p \in Procs, Shell(p)
  PROVE  /\ pc'[p] # "orphaned"
         /\ line'[p].wr => /\ pc'[p] \in Lines \ {"mkfifo", "open"}
                           /\ cmd'[p].op = "line" /\ (pc'[p] = "cmd" => cmd'[p].send = 0)
<1> USE DEF ShellTypes, Lines
<1>1. CASE LoginBuffer(p) \/ LoginKill(p) \/ LoginDone(p)
  BY <1>1 DEF LoginBuffer, LoginKill, LoginDone, At, Goto, Writers
<1>2. CASE Who(p) \/ Name(p) \/ Tell(p) \/ Yell(p) \/ Exit(p)
  BY <1>2 DEF Who, Name, Tell, Yell, Exit, Enter, At, Goto, Return, Die, Writers
<1>3. CASE TakeBuffer(p) \/ PostBuffer(p) \/ PostClients(p)
  BY <1>3 DEF TakeBuffer, PostBuffer, PostClients, At, Goto, Return, Die, Writers
<1>4. CASE ParseRecv(p)
  <2>1. /\ pc[p] = "cmd" /\ pc'[p] = "cmd" /\ cmd[p].op = "line"
        /\ cmd[p] \in CmdType /\ cmd'[p] = [cmd[p] EXCEPT !.recv = 0]
    BY <1>4 DEF ParseRecv, RecvParsed, Enter, At, CmdType, NothingFails
  <2>2. cmd'[p].op = "line" /\ cmd'[p].send = cmd[p].send
    BY <2>1, CmdParts
  <2>3. line'[p].wr => line[p].wr
    <3>1. line'[p] = line[p] \/ \E i, x : line'[p] = [line[p] EXCEPT !.from = i, !.fd = x]
      <4>1. line' = line \/ \E i, x : line' = [line EXCEPT ![p] = [line[p] EXCEPT !.from = i, !.fd = x]]
        BY <1>4 DEF ParseRecv
      <4>2. CASE line' = line
        BY <4>2
      <4>3. ASSUME NEW i, NEW x, line' = [line EXCEPT ![p] = [line[p] EXCEPT !.from = i, !.fd = x]]
            PROVE  line'[p] = [line[p] EXCEPT !.from = i, !.fd = x]
        BY <4>3
      <4> QED BY <4>1, <4>2, <4>3
    <3>2. line[p] \in LineType
      OBVIOUS
    <3>3. ASSUME NEW i, NEW x, line'[p] = [line[p] EXCEPT !.from = i, !.fd = x]
          PROVE  line'[p].wr = line[p].wr
      <4> DEFINE s == [line[p] EXCEPT !.from = i, !.fd = x]
      <4>1. s.wr = line[p].wr
        BY <3>2, LineWr
      <4>2. line'[p] = s
        BY <3>3
      <4> HIDE DEF s
      <4> QED BY <4>1, <4>2
    <3> QED BY <3>1, <3>3
  <2> QED BY <2>1, <2>2, <2>3 DEF Writers
<1>5. CASE ParseSend(p)
  <2>1. ~line[p].wr /\ line' = line
    BY <1>5 DEF ParseSend, Enter, At, Writers
  <2> QED BY <1>5, <2>1 DEF ParseSend, Enter, At, Goto, Die
<1>6. CASE OpenWrite(p)
  <2>1. pc[p] = "open" /\ pc'[p] = "cmd" /\ cmd[p] \in CmdType /\ cmd'[p] = [cmd[p] EXCEPT !.send = 0]
    BY <1>6 DEF OpenWrite, SendParsed, At, Goto
  <2>2. cmd'[p].op = "line" /\ cmd'[p].send = 0
    BY <2>1, CmdParts DEF CmdOk, Sending
  <2> QED BY <2>1, <2>2
<1>7. CASE MkFifo(p) \/ EndParse(p) \/ PipeBuffer(p) \/ PipeKill(p) \/ PipePost(p) \/ Run(p)
  BY <1>7 DEF MkFifo, EndParse, PipeBuffer, PipeKill, PipePost, Run, At, Goto, Writers
<1>8. CASE RemoveReceive(p) \/ RemoveFd(p)
  BY <1>8 DEF RemoveReceive, RemoveFd, At, Goto, Writers
<1>9. CASE Unlink(p)
  BY <1>9 DEF Unlink, At, Writers
<1>10. CASE ResetFlag(p)
  BY <1>10 DEF ResetFlag, NoLine, Return, Goto
<1> QED BY <1>1, <1>2, <1>3, <1>4, <1>5, <1>6, <1>7, <1>8, <1>9, <1>10 DEF Shell

\* Nobody is blocked when a line unlinks the FIFO that it has read.
LEMMA UnlinkAlone ==
  ASSUME IInv, Turns, NEW p \in Procs, Unlink(p)
  PROVE  pc' = [pc EXCEPT ![p] = "reset"]
<1>1. pc[p] = "unlink" /\ Busy(p)
  BY DEF Unlink, At, Busy
<1>2. \A q \in Procs : pc[q] # "open"
  BY <1>1 DEF Turns, Busy
<1>3. pc' = [q \in Procs |-> IF q = p THEN "reset" ELSE pc[q]]
  BY <1>2 DEF Unlink
<1> QED BY <1>3 DEF ShellTypes

\* A shell's step moves nobody else.
LEMMA OthersStay ==
  ASSUME IInv, Turns, NEW p \in Procs, Shell(p)
  PROVE  \A q \in Procs : q # p => pc'[q] = pc[q] /\ cmd'[q] = cmd[q] /\ line'[q] = line[q] /\ my_id'[q] = my_id[q]
<1> USE DEF ShellTypes
<1>1. CASE LoginBuffer(p) \/ LoginKill(p) \/ LoginDone(p)
  BY <1>1 DEF LoginBuffer, LoginKill, LoginDone, At, Goto
<1>2. CASE Who(p) \/ Name(p) \/ Tell(p) \/ Yell(p) \/ Exit(p)
  BY <1>2 DEF Who, Name, Tell, Yell, Exit, Enter, At, Goto, Return, Die
<1>3. CASE TakeBuffer(p) \/ PostBuffer(p) \/ PostClients(p)
  BY <1>3 DEF TakeBuffer, PostBuffer, PostClients, At, Goto, Return, Die
<1>4. CASE ParseRecv(p) \/ ParseSend(p) \/ MkFifo(p) \/ OpenWrite(p) \/ EndParse(p)
  BY <1>4 DEF ParseRecv, ParseSend, MkFifo, OpenWrite, EndParse, Enter, At, Goto, Die,
              RecvParsed, SendParsed
<1>5. CASE PipeBuffer(p) \/ PipeKill(p) \/ PipePost(p) \/ Run(p)
  BY <1>5 DEF PipeBuffer, PipeKill, PipePost, Run, At, Goto
<1>6. CASE RemoveReceive(p) \/ RemoveFd(p) \/ ResetFlag(p)
  BY <1>6 DEF RemoveReceive, RemoveFd, ResetFlag, At, Goto, Return
<1>7. CASE Unlink(p)
  <2>1. UNCHANGED procVars
    BY <1>7 DEF Unlink
  <2>2. pc' = [pc EXCEPT ![p] = "reset"]
    BY <1>7, UnlinkAlone
  <2> QED BY <2>1, <2>2
<1> QED BY <1>1, <1>2, <1>3, <1>4, <1>5, <1>6, <1>7 DEF Shell

\* Every step keeps the writers.
LEMMA WritersInductive ==
  ASSUME NothingFails, IInv, Turns, CmdOk, Exact, Writers, [Next]_vars PROVE Writers'
<1> USE DEF ShellTypes, ParentTypes
<1>1. ASSUME NEW p \in Procs, Shell(p) PROVE Writers'
  BY <1>1, OthersStay, OwnWriter DEF Writers
<1>2. ASSUME UNCHANGED <<line, cmd>>, \A q \in Procs : pc'[q] = pc[q] \/ pc[q] = "unborn",
             \A q \in Procs : pc'[q] # "orphaned"
      PROVE  Writers'
  BY <1>2 DEF Writers, Lines
<1>3. CASE PickAndFork
  BY <1>2, <1>3 DEF PickAndFork, Goto, HasId, Writers
<1>4. CASE Register
  BY <1>2, <1>4 DEF Register, Writers
<1>5. ASSUME NEW p \in Procs, Accept(p) \/ Handler(p)
      PROVE  Writers'
  BY <1>2, <1>5 DEF Accept, Handler, PrintBuffer, OpenPipes, OpenRead, StoreFd, Restart, Writers
<1>6. ASSUME NEW p \in Procs, Reap(p)
      PROVE  Writers'
  <2>1. ~NoLine.wr
    BY DEF NoLine
  <2> QED BY <1>6, <2>1 DEF Reap, Goto, Writers
<1>7. ASSUME NEW p \in Procs, NEW c \in Commands(p), ReadLine(p, c)
      PROVE  Writers'
  BY <1>7 DEF ReadLine, At, Goto, Writers, Lines
<1>8. ~Kill /\ ~Interrupt /\ \A p \in Procs : ~Close(p) /\ ~Hangup(p)
  BY DEF NothingFails, Kill, Interrupt, Close, Hangup, Exact
<1>9. CASE UNCHANGED vars
  BY <1>2, <1>9 DEF vars, Writers
<1> QED BY <1>1, <1>3, <1>4, <1>5, <1>6, <1>7, <1>8, <1>9 DEF Next

\* Every step keeps the removals.
LEMMA RemovalsInductive ==
  ASSUME NothingFails, IInv, Turns, LineOk, Exact, Removals, [Next]_vars PROVE Removals'
<1> USE DEF ShellTypes, ParentTypes
<1>1. ASSUME NEW p \in Procs, Shell(p)
      PROVE  Removals'
  <2>1. /\ \A q \in Procs : Busy(q) => q = p
        /\ \A q \in Procs : q # p => pc'[q] = pc[q]
    BY <1>1, ShellBusy, OthersStay DEF Turns
  <2>2. \A q \in Procs : pc'[q] \in {"rm_receive", "rm_fd", "unlink"} => q = p
    BY <2>1 DEF Busy
  <2>3. CASE Run(p)
    <3>1. UNCHANGED <<line, my_id>> /\ pc[p] = "run"
      BY <2>3 DEF Run, At
    <3>2. my_id[p] \in Slots
      BY <3>1 DEF HasId
    <3>3. pc'[p] \in {"reset", "rm_receive"} /\ (pc'[p] = "rm_receive" => line[p].from # 0)
      BY <2>3 DEF Run, At, Goto
    <3>4. line[p].from \in 0..N
      BY DEF LineType
    <3> QED BY <2>2, <3>1, <3>2, <3>3, <3>4 DEF Removals
  <2>4. CASE RemoveReceive(p)
    <3>1. /\ UNCHANGED <<line, my_id>> /\ pc'[p] = "rm_fd" /\ pc[p] = "rm_receive"
          /\ receive' = [receive EXCEPT ![line[p].from][my_id[p]] = FALSE]
      BY <2>4 DEF RemoveReceive, At, Goto
    <3>2. line[p].from \in Slots /\ my_id[p] \in Slots
      BY <3>1 DEF Removals
    <3>3. ~receive'[line[p].from][my_id[p]]
      BY <3>1, <3>2 DEF PipeTypes
    <3> QED BY <2>2, <3>1, <3>2, <3>3 DEF Removals
  <2>5. CASE RemoveFd(p)
    <3>1. UNCHANGED <<line, my_id, receive>> /\ pc'[p] = "unlink" /\ pc[p] = "rm_fd"
      BY <2>5 DEF RemoveFd, At, Goto
    <3> QED BY <2>2, <3>1 DEF Removals
  <2>6. CASE Unlink(p) \/ ResetFlag(p)
    <3>1. pc'[p] \in {"reset", "prompt"}
      BY <2>6, UnlinkAlone DEF ResetFlag, Return, Goto
    <3> QED BY <2>2, <3>1 DEF Removals
  <2>7. CASE LoginBuffer(p) \/ LoginKill(p) \/ LoginDone(p)
    BY <2>2, <2>7 DEF LoginBuffer, LoginKill, LoginDone, Goto, Removals
  <2>8. CASE Who(p) \/ Name(p) \/ Tell(p) \/ Yell(p) \/ Exit(p)
    BY <2>2, <2>8 DEF Who, Name, Tell, Yell, Exit, Goto, Return, Die, Removals
  <2>9. CASE TakeBuffer(p) \/ PostBuffer(p) \/ PostClients(p)
    BY <2>2, <2>9 DEF TakeBuffer, PostBuffer, PostClients, Goto, Return, Die, Removals
  <2>10. CASE ParseRecv(p) \/ ParseSend(p) \/ MkFifo(p) \/ OpenWrite(p) \/ EndParse(p)
    BY <2>2, <2>10 DEF ParseRecv, ParseSend, MkFifo, OpenWrite, EndParse, Enter, At, Goto, Die, Removals
  <2>11. CASE PipeBuffer(p) \/ PipeKill(p) \/ PipePost(p)
    BY <2>2, <2>11 DEF PipeBuffer, PipeKill, PipePost, Goto, Removals
  <2> QED BY <1>1, <2>3, <2>4, <2>5, <2>6, <2>7, <2>8, <2>9, <2>10, <2>11 DEF Shell
<1>2. ASSUME UNCHANGED <<line, my_id, receive>>,
             \A q \in Procs : pc'[q] = pc[q] \/ pc'[q] \in {"login", "open", "cmd"}
      PROVE  Removals'
  BY <1>2 DEF Removals
<1>3. CASE PickAndFork
  BY <1>2, <1>3 DEF PickAndFork, Goto
<1>4. CASE Register
  BY <1>2, <1>4 DEF Register
<1>5. ASSUME NEW p \in Procs, Accept(p) \/ Handler(p)
      PROVE  Removals'
  BY <1>2, <1>5 DEF Accept, Handler, PrintBuffer, OpenPipes, OpenRead, StoreFd, Restart
<1>6. ASSUME NEW p \in Procs, Reap(p)
      PROVE  Removals'
  BY <1>6 DEF Reap, Goto, Removals
<1>7. ASSUME NEW p \in Procs, NEW c \in Commands(p), ReadLine(p, c)
      PROVE  Removals'
  BY <1>2, <1>7 DEF ReadLine, Goto
<1>8. ~Kill /\ ~Interrupt /\ \A p \in Procs : ~Close(p) /\ ~Hangup(p)
  BY DEF NothingFails, Kill, Interrupt, Close, Hangup, Exact
<1>9. CASE UNCHANGED vars
  BY <1>2, <1>9 DEF vars
<1> QED BY <1>1, <1>3, <1>4, <1>5, <1>6, <1>7, <1>8, <1>9 DEF Next

\* A pipe that rests goes on to when nobody touches it.
LEMMA RestsKept ==
  ASSUME NEW i \in Slots, NEW j \in Slots, Rests(i, j),
         receive'[i][j] = receive[i][j], rfd'[i][j] = rfd[i][j], fifo'[i][j] = fifo[i][j],
         receive[i][j] => cpid'[i] = cpid[i],
         \A q \in Procs : pc[q] \in {"rm_fd", "unlink"} =>
           pc'[q] = pc[q] /\ my_id'[q] = my_id[q] /\ line'[q].from = line[q].from
  PROVE  Rests(i, j)'
<1>1. CASE Settled(i, j)
  BY <1>1 DEF Rests, Settled
<1>2. CASE Removing(i, j)
  BY <1>2 DEF Rests, Removing
<1> QED BY <1>1, <1>2 DEF Rests

\* And when its receiver's line removes it.
LEMMA RestsRemoved ==
  ASSUME IInv, Turns, LineOk, Removals,
         NEW p \in Procs, RemoveReceive(p) \/ RemoveFd(p) \/ Unlink(p),
         NEW i \in Slots, NEW j \in Slots, Rests(i, j)
  PROVE  Rests(i, j)'
<1> DEFINE k == line[p].from
           m == my_id[p]
<1>1. /\ pc[p] \in {"rm_receive", "rm_fd", "unlink"} /\ UNCHANGED <<line, my_id, cpid>>
      /\ k \in Slots /\ m \in Slots
      /\ \A q \in Procs : pc[q] \in {"rm_fd", "unlink"} => q = p
  <2>1. pc[p] \in {"rm_receive", "rm_fd", "unlink"} /\ UNCHANGED <<line, my_id, cpid>>
    BY DEF RemoveReceive, RemoveFd, Unlink, At
  <2>2. \A q \in Procs : pc[q] \in {"rm_fd", "unlink"} => q = p
    BY <2>1 DEF Turns, Busy
  <2> QED BY <2>1, <2>2 DEF Removals
<1>2. \/ /\ pc[p] = "rm_receive" /\ pc'[p] = "rm_fd" /\ UNCHANGED <<rfd, fifo>>
         /\ receive' = [receive EXCEPT ![k][m] = FALSE]
      \/ /\ pc[p] = "rm_fd" /\ pc'[p] = "unlink" /\ UNCHANGED <<receive, fifo>>
         /\ rfd' = [rfd EXCEPT ![k][m] = NoProc]
      \/ /\ pc[p] = "unlink" /\ UNCHANGED <<receive, rfd>>
         /\ fifo' = [fifo EXCEPT ![k][m] = "none"]
  BY DEF RemoveReceive, RemoveFd, Unlink, At, Goto, ShellTypes
<1>3. CASE ~(i = k /\ j = m)
  <2>1. Settled(i, j)
    BY <1>1, <1>3 DEF Rests, Removing
  <2>2. receive'[i][j] = receive[i][j] /\ rfd'[i][j] = rfd[i][j] /\ fifo'[i][j] = fifo[i][j]
    BY <1>1, <1>2, <1>3 DEF PipeTypes
  <2> QED BY <1>1, <2>1, <2>2 DEF Rests, Settled
<1>4. CASE i = k /\ j = m
  <2>1. CASE pc[p] = "rm_receive"
    <3>1. ~receive'[k][m] /\ pc'[p] = "rm_fd"
      BY <1>1, <1>2, <2>1 DEF PipeTypes
    <3> QED BY <1>1, <1>4, <3>1 DEF Rests, Removing
  <2>2. CASE pc[p] = "rm_fd"
    <3>1. ~receive'[k][m] /\ pc'[p] = "unlink" /\ rfd'[k][m] = NoProc
      BY <1>1, <1>2, <2>2 DEF PipeTypes, Removals
    <3> QED BY <1>1, <1>4, <3>1 DEF Rests, Removing
  <2>3. CASE pc[p] = "unlink"
    <3>1. ~receive'[k][m] /\ fifo'[k][m] = "none" /\ rfd'[k][m] = rfd[k][m] /\ ~receive[k][m]
      BY <1>1, <1>2, <2>3 DEF PipeTypes, Removals
    <3>2. rfd[k][m] = NoProc
      BY <1>1, <1>4, <2>3, <3>1 DEF Rests, Settled, Removing
    <3> QED BY <1>1, <1>4, <3>1, <3>2 DEF Rests, Settled
  <2> QED BY <1>1, <2>1, <2>2, <2>3
<1> QED BY <1>3, <1>4

\* Steps that touch no pipe.
LEMMA CalmKept ==
  ASSUME Calm, UNCHANGED <<receive, rfd, fifo, hnd, hfd>>,
         \A q \in Procs : (usr2'[q] => usr2[q]) /\ pc'[q] # "mkfifo",
         \A i, j \in Slots : receive[i][j] => cpid'[i] = cpid[i],
         \A q \in Procs : pc[q] \in {"rm_fd", "unlink"} =>
           pc'[q] = pc[q] /\ my_id'[q] = my_id[q] /\ line'[q].from = line[q].from
  PROVE  Calm'
<1>1. \A q \in Procs : Idle(q)' /\ pc'[q] # "mkfifo"
  BY DEF Calm, Idle
<1>2. ASSUME NEW i \in Slots, NEW j \in Slots PROVE Rests(i, j)'
  BY <1>2, RestsKept DEF Calm
<1> QED BY <1>1, <1>2 DEF Calm

\* What most steps of a shell leave alone.
LEMMA ShellFrame ==
  ASSUME ShellTypes, SignalTypes, NEW p \in Procs, Shell(p), ~Exit(p), ~ParseSend(p), ~MkFifo(p),
         ~RemoveReceive(p), ~RemoveFd(p), ~Unlink(p)
  PROVE  /\ UNCHANGED <<receive, rfd, fifo, hnd, hfd>>
         /\ \A q \in Procs : usr2'[q] => usr2[q]
         /\ pc'[p] # "mkfifo" /\ pc[p] \notin {"rm_fd", "unlink"}
<1> USE DEF ShellTypes, SignalTypes
<1>1. CASE LoginBuffer(p) \/ LoginKill(p) \/ LoginDone(p)
  BY <1>1 DEF LoginBuffer, LoginKill, LoginDone, At, Goto
<1>2. CASE Who(p) \/ Name(p) \/ Tell(p) \/ Yell(p)
  BY <1>2 DEF Who, Name, Tell, Yell, Enter, At, Goto, Return, Die
<1>3. CASE TakeBuffer(p) \/ PostBuffer(p) \/ PostClients(p)
  BY <1>3 DEF TakeBuffer, PostBuffer, PostClients, At, Goto, Return, Die
<1>4. CASE ParseRecv(p) \/ OpenWrite(p) \/ EndParse(p)
  BY <1>4 DEF ParseRecv, OpenWrite, EndParse, Enter, At, Goto, Die
<1>5. CASE PipeBuffer(p) \/ PipeKill(p) \/ PipePost(p) \/ Run(p)
  BY <1>5 DEF PipeBuffer, PipeKill, PipePost, Run, At, Goto
<1>6. CASE ResetFlag(p)
  BY <1>6 DEF ResetFlag, At, Goto, Return
<1> QED BY <1>1, <1>2, <1>3, <1>4, <1>5, <1>6 DEF Shell

\* exit leaves nothing of its user's pipes and does not touch the others.
LEMMA CalmAfterExit ==
  ASSUME IInv, TurnsInv, Calm, NEW p \in Procs, Exit(p)
  PROVE  Calm'
<1>1. /\ pc[p] = "cmd" /\ pc' = [pc EXCEPT ![p] = "buf"] /\ UNCHANGED <<line, my_id, usr2, hnd, hfd>>
      /\ my_id[p] \in Slots
      /\ \A q \in Procs : Busy(q) => q = p
  <2>1. /\ pc[p] = "cmd" /\ pc' = [pc EXCEPT ![p] = "buf"] /\ UNCHANGED <<line, my_id, usr2, hnd, hfd>>
    BY DEF Exit, Enter, At, Goto
  <2> QED BY <2>1, Acts, Acting DEF TurnsInv
<1>2. cpid' = [cpid EXCEPT ![my_id[p]] = NoProc]
  BY DEF Exit, FreeSlot
<1>3. \A i, j \in Slots : IF i = my_id[p] \/ j = my_id[p]
        THEN ~receive'[i][j] /\ rfd'[i][j] = NoProc /\ fifo'[i][j] = "none"
        ELSE receive'[i][j] = receive[i][j] /\ rfd'[i][j] = rfd[i][j] /\ fifo'[i][j] = fifo[i][j]
  BY DEF Exit, Involves
<1>4. ASSUME NEW i \in Slots, NEW j \in Slots
      PROVE  Rests(i, j)'
  <2>1. CASE i = my_id[p] \/ j = my_id[p]
    BY <1>3, <2>1 DEF Rests, Settled
  <2>2. CASE ~(i = my_id[p] \/ j = my_id[p])
    <3>1. cpid'[i] = cpid[i]
      BY <1>2, <2>2
    <3>2. Settled(i, j)
      BY <1>1 DEF Calm, Rests, Removing, Busy
    <3> QED BY <1>3, <2>2, <3>1, <3>2 DEF Rests, Settled
  <2> QED BY <2>1, <2>2
<1>5. \A q \in Procs : Idle(q)' /\ pc'[q] # "mkfifo"
  BY <1>1 DEF Calm, Idle, ShellTypes
<1> QED BY <1>4, <1>5 DEF Calm

\* >n opens a pipe to the user n, or does nothing.
LEMMA CalmAfterSend ==
  ASSUME NothingFails, IInv, TurnsInv, Exact, Calm, NEW p \in Procs, ParseSend(p)
  PROVE  Calm' \/ \E r \in Procs : Opening(p, r)'
<1> DEFINE n == cmd[p].send
           m == my_id[p]
<1>1. /\ pc[p] = "cmd" /\ cmd[p].op = "line" /\ n \in Slots /\ n # m
      /\ UNCHANGED <<mainVars, line, my_id, cpid, rfd, fifo, hnd, hfd>>
      /\ \A q \in Procs : q # p => pc'[q] = pc[q]
  <2>1. /\ pc[p] = "cmd" /\ cmd[p].op = "line" /\ n # 0
        /\ UNCHANGED <<mainVars, line, my_id, cpid, rfd, fifo, hnd, hfd>>
    BY DEF ParseSend, Enter, At
  <2>2. \A q \in Procs : q # p => pc'[q] = pc[q]
    BY DEF ParseSend, Goto, Die, ShellTypes
  <2>3. n \in 0..N
    BY DEF ShellTypes, CmdType, NothingFails
  <2>4. n # m
    BY <2>1 DEF TurnsInv, CmdOk, Sending
  <2> QED BY <2>1, <2>2, <2>3, <2>4
<1>2. /\ ppc = "accept" /\ m \in Slots /\ cpid[m] = p /\ hid[p] = m
      /\ \A q \in Procs : Busy(q) => q = p
  BY Acts, Acting DEF TurnsInv
<1>3. CASE UNCHANGED <<pc, receive, usr2>>
  <2>1. Calm'
    BY <1>1, <1>3, CalmKept DEF Calm
  <2> QED BY <2>1
<1>4. CASE /\ cpid[n] # NoProc /\ ~receive[m][n] /\ receive' = [receive EXCEPT ![m][n] = TRUE]
           /\ Signal2(cpid[n]) /\ pc' = [pc EXCEPT ![p] = "mkfifo"] /\ cmd' = cmd
  <2>0. PICK r \in Procs : r = cpid[n]
    BY <1>1, <1>4 DEF TableTypes
  <2>1. Online(r) /\ hid[r] = n /\ cpid[n] = r /\ r # NoProc
    BY <1>1, <1>4, <2>0 DEF Exact
  <2>2. p # r
    BY <1>1, <1>2, <2>1
  <2>3. pc[r] = "prompt" /\ Alive(r) /\ my_id[r] = n
    <3>1. Alive(r) /\ ~Busy(r)
      BY <1>2, <2>1, <2>2 DEF Online
    <3>2. pc[r] = "prompt"
      BY <3>1 DEF Alive, Busy
    <3> QED BY <2>1, <3>1, <3>2 DEF HasId
  <2>4. usr2'[r] /\ \A q \in Procs : q # r => usr2'[q] = usr2[q]
    BY <1>4, <2>1, <2>3 DEF Signal2, SignalTypes
  <2>5. pc'[p] = "mkfifo" /\ cmd'[p].send = n
    BY <1>4 DEF ShellTypes
  <2>6. Between(p, r)'
    <3>1. \A q \in Procs : Busy(q)' => q = p
      BY <1>1, <1>2 DEF Busy
    <3>2. \A q \in Procs : q # r => Idle(q)'
      BY <1>1, <2>4 DEF Calm, Idle
    <3>3. ppc' = "accept" /\ my_id'[p] = m /\ cpid'[m] = p /\ my_id'[r] = n /\ cpid'[n] = r
      BY <1>1, <1>2, <2>1, <2>3
    <3> QED BY <1>1, <1>2, <2>2, <2>5, <3>1, <3>2, <3>3 DEF Between, Lines
  <2>7. rfd[m][n] = NoProc /\ fifo[m][n] = "none"
    <3>1. ~Removing(m, n)
      BY <1>1, <1>2 DEF Removing, Busy
    <3> QED BY <1>1, <1>2, <1>4, <3>1 DEF Calm, Rests, Settled
  <2>8. receive'[m][n] /\ \A i, j \in Slots : (i = m /\ j = n) \/ receive'[i][j] = receive[i][j]
    BY <1>1, <1>2, <1>4 DEF PipeTypes
  <2>9. ASSUME NEW i \in Slots, NEW j \in Slots, ~(i = m /\ j = n)
        PROVE  Rests(i, j)'
    <3>1. receive'[i][j] = receive[i][j]
      BY <2>8, <2>9
    <3>2. \A q \in Procs : pc[q] \in {"rm_fd", "unlink"} => q # p
      BY <1>1
    <3>3. Rests(i, j)
      BY DEF Calm
    <3> QED BY <1>1, <3>1, <3>2, <3>3, RestsKept
  <2>10. hnd[r] = 0 /\ hfd[r] = NoProc
    BY <2>1 DEF Calm, Idle
  <2>11. Stage(p, r)'
    <3>1. my_id'[p] = m /\ my_id'[r] = n /\ fifo'[m][n] = "none" /\ hnd'[r] = 0 /\ hfd'[r] = NoProc
      BY <1>1, <2>3, <2>7, <2>10
    <3> QED BY <2>4, <2>5, <3>1 DEF Stage
  <2>12. Opening(p, r)'
    <3>1. my_id'[p] = m /\ my_id'[r] = n /\ rfd'[m][n] = NoProc /\ receive'[m][n]
      BY <1>1, <2>3, <2>7, <2>8
    <3> QED BY <2>6, <2>9, <2>11, <3>1 DEF Opening
  <2> QED BY <2>1, <2>12
<1> QED BY <1>1, <1>3, <1>4 DEF ParseSend, Goto

\* From a state in which no pipe is being opened.
LEMMA CalmSteps ==
  ASSUME NothingFails, IInv, TurnsInv, Exact, Writers, Removals, Calm, [Next]_vars
  PROVE  Calm' \/ \E p, r \in Procs : Opening(p, r)'
<1> USE DEF ShellTypes, ParentTypes
<1>1. ASSUME NEW p \in Procs, Shell(p)
      PROVE  Calm' \/ \E q, r \in Procs : Opening(q, r)'
  <2>1. \A q \in Procs : q # p => pc'[q] = pc[q] /\ line'[q] = line[q] /\ my_id'[q] = my_id[q]
    BY <1>1, OthersStay DEF TurnsInv
  <2>2. CASE Exit(p)
    BY <2>2, CalmAfterExit
  <2>3. CASE ParseSend(p)
    BY <2>3, CalmAfterSend
  <2>4. ~MkFifo(p)
    BY DEF MkFifo, At, Calm
  <2>5. CASE RemoveReceive(p) \/ RemoveFd(p) \/ Unlink(p)
    <3>1. UNCHANGED <<usr2, hnd, hfd>>
      BY <2>5 DEF RemoveReceive, RemoveFd, Unlink
    <3>2. pc'[p] # "mkfifo"
      <4>1. CASE RemoveReceive(p) \/ RemoveFd(p)
        BY <4>1 DEF RemoveReceive, RemoveFd, Goto
      <4>2. CASE Unlink(p)
        BY <4>2, UnlinkAlone DEF TurnsInv
      <4> QED BY <2>5, <4>1, <4>2
    <3>3. \A q \in Procs : Idle(q)' /\ pc'[q] # "mkfifo"
      BY <2>1, <3>1, <3>2 DEF Calm, Idle
    <3>4. \A i, j \in Slots : Rests(i, j)'
      BY <2>5, RestsRemoved DEF Calm, TurnsInv
    <3> QED BY <3>3, <3>4 DEF Calm
  <2>6. CASE ~Exit(p) /\ ~ParseSend(p) /\ ~RemoveReceive(p) /\ ~RemoveFd(p) /\ ~Unlink(p)
    <3>1. /\ UNCHANGED <<receive, rfd, fifo, hnd, hfd>>
          /\ \A q \in Procs : usr2'[q] => usr2[q]
          /\ pc'[p] # "mkfifo" /\ pc[p] \notin {"rm_fd", "unlink"}
      BY <1>1, <2>4, <2>6, ShellFrame
    <3>2. UNCHANGED cpid
      BY <1>1, <2>6, ShellKeeps
    <3>3. \A q \in Procs : pc'[q] # "mkfifo"
      BY <2>1, <3>1 DEF Calm
    <3>4. \A q \in Procs : pc[q] \in {"rm_fd", "unlink"} => q # p
      BY <3>1
    <3> QED BY <2>1, <3>1, <3>2, <3>3, <3>4, CalmKept
  <2> QED BY <2>2, <2>3, <2>5, <2>6
<1>2. CASE PickAndFork
  <2>1. UNCHANGED <<receive, rfd, fifo, hnd, hfd, usr2, cpid, line, my_id>>
    BY <1>2 DEF PickAndFork
  <2>2. ppc = "pick" /\ kid \in Procs /\ (pc' = pc \/ pc' = [pc EXCEPT ![kid] = "login"])
    BY <1>2 DEF PickAndFork, Goto
  <2>3. pc[kid] = "unborn"
    BY <2>2 DEF HasId
  <2> QED BY <2>1, <2>2, <2>3, CalmKept DEF Calm
<1>3. CASE Register
  <2>1. /\ UNCHANGED <<receive, rfd, fifo, hnd, hfd, usr2, pc, line, my_id>>
        /\ ppc = "reg" /\ cpid' = [cpid EXCEPT ![nid] = kid]
    BY <1>3 DEF Register
  <2>2. cpid[nid] = NoProc
    BY <2>1 DEF TurnsInv, Owned
  <2>3. \A i, j \in Slots : receive[i][j] => i # nid
    BY <2>2 DEF Calm, Rests, Settled, Removing
  <2> QED BY <2>1, <2>3, CalmKept DEF Calm, TableTypes
<1>4. ASSUME NEW p \in Procs, Accept(p)
      PROVE  Calm'
  BY <1>4, CalmKept DEF Accept, Calm
<1>5. ASSUME NEW p \in Procs, Reap(p)
      PROVE  Calm'
  <2>1. UNCHANGED <<receive, rfd, fifo, hnd, hfd, usr2, cpid>> /\ pc[p] = "gone" /\ pc'[p] = "unborn"
    BY <1>5 DEF Reap, Goto
  <2>2. \A q \in Procs : q # p => pc'[q] = pc[q] /\ line'[q] = line[q] /\ my_id'[q] = my_id[q]
    BY <1>5 DEF Reap, Goto
  <2> QED BY <2>1, <2>2, CalmKept DEF Calm
<1>6. ASSUME NEW p \in Procs, NEW c \in Commands(p), ReadLine(p, c)
      PROVE  Calm'
  <2>1. /\ UNCHANGED <<receive, rfd, fifo, hnd, hfd, usr2, cpid, line, my_id>>
        /\ pc[p] = "prompt" /\ pc' = [pc EXCEPT ![p] = "cmd"]
    BY <1>6 DEF ReadLine, At, Goto
  <2> QED BY <2>1, CalmKept DEF Calm
<1>7. ASSUME NEW p \in Procs, Handler(p)
      PROVE  Calm'
  <2>1. ~OpenPipes(p) /\ ~OpenRead(p) /\ ~StoreFd(p)
    BY DEF OpenPipes, OpenRead, StoreFd, Calm, Idle
  <2>2. UNCHANGED <<receive, rfd, fifo, hnd, hfd, usr2, cpid, line, my_id>>
    BY <1>7, <2>1 DEF Handler, PrintBuffer
  <2>3. UNCHANGED pc
    BY <1>7, <2>1 DEF Handler, PrintBuffer, Restart, Writers
  <2> QED BY <2>2, <2>3, CalmKept DEF Calm
<1>8. ~Kill /\ ~Interrupt /\ \A p \in Procs : ~Close(p) /\ ~Hangup(p)
  BY DEF NothingFails, Kill, Interrupt, Close, Hangup, Exact
<1>9. CASE UNCHANGED vars
  BY <1>9, CalmKept DEF vars, Calm
<1> QED BY <1>1, <1>2, <1>3, <1>4, <1>5, <1>6, <1>7, <1>8, <1>9 DEF Next

\* Steps that leave the pipe that is being opened as far as it is.
LEMMA OpeningKept ==
  ASSUME NEW p \in Procs, NEW r \in Procs, Opening(p, r),
         UNCHANGED <<ppc, cpid, hnd, hfd, usr2>>, my_id'[p] = my_id[p], my_id'[r] = my_id[r],
         receive'[my_id[p]][my_id[r]] = receive[my_id[p]][my_id[r]],
         rfd'[my_id[p]][my_id[r]] = rfd[my_id[p]][my_id[r]],
         fifo'[my_id[p]][my_id[r]] = fifo[my_id[p]][my_id[r]],
         \A i, j \in Slots : ~(i = my_id[p] /\ j = my_id[r]) /\ Rests(i, j) => Rests(i, j)',
         pc'[p] \in Lines \cup {"prompt"},
         pc'[p] = "cmd" => cmd'[p].op = "line" /\ cmd'[p].send = 0,
         \A q \in Procs : Busy(q)' => q = p,
         \/ pc'[p] = pc[p] /\ cmd'[p] = cmd[p]
         \/ /\ pc'[p] # "mkfifo"
            /\ pc[p] \notin {"mkfifo", "open"} \/ fifo[my_id[p]][my_id[r]] = "read"
  PROVE  Opening(p, r)'
<1>1. Between(p, r)'
  BY DEF Opening, Between, Idle
<1>2. Stage(p, r)'
  <2>1. Stage(p, r)
    BY DEF Opening
  <2> QED BY <2>1 DEF Stage
<1>3. ASSUME NEW i \in Slots, NEW j \in Slots, ~(i = my_id[p] /\ j = my_id[r])
      PROVE  Rests(i, j)'
  BY <1>3 DEF Opening
<1>4. receive'[my_id[p]][my_id[r]] /\ rfd'[my_id[p]][my_id[r]] = NoProc
  BY DEF Opening
<1> QED BY <1>1, <1>2, <1>3, <1>4 DEF Opening

\* The line of the writer goes on.
LEMMA OpeningShell ==
  ASSUME NothingFails, IInv, TurnsInv, Exact, Writers, Removals,
         NEW p \in Procs, NEW r \in Procs, Opening(p, r), NEW s \in Procs, Shell(s)
  PROVE  Opening(p, r)'
<1> USE DEF ShellTypes
<1> DEFINE m == my_id[p]
           n == my_id[r]
<1>1. s = p /\ Busy(p) /\ pc[p] \in Lines /\ (pc[p] = "cmd" => cmd[p].op = "line" /\ cmd[p].send = 0)
  BY ShellBusy DEF Opening, Between, Busy
<1>2. /\ p # r /\ m \in Slots /\ n \in Slots /\ m # n
      /\ \A q \in Procs : Busy(q) => q = p
  BY DEF Opening, Between
<1>3. \A q \in Procs : q # p => pc'[q] = pc[q] /\ cmd'[q] = cmd[q] /\ line'[q] = line[q] /\ my_id'[q] = my_id[q]
  BY <1>1, OthersStay DEF TurnsInv
<1>4. \A q \in Procs : Busy(q)' => q = p
  BY <1>2, <1>3 DEF Busy
<1>5. ASSUME UNCHANGED <<ppc, cpid, receive, rfd, fifo, hnd, hfd, usr2, my_id>>,
             pc[p] \notin {"rm_fd", "unlink"}, pc'[p] \in (Lines \ {"mkfifo"}) \cup {"prompt"},
             pc'[p] = "cmd" => cmd'[p].op = "line" /\ cmd'[p].send = 0,
             pc[p] \notin {"mkfifo", "open"} \/ fifo[m][n] = "read"
      PROVE  Opening(p, r)'
  <2>1. \A q \in Procs : pc[q] \in {"rm_fd", "unlink"} => q # p
    BY <1>5
  <2>2. \A i, j \in Slots : Rests(i, j) => Rests(i, j)'
    BY <1>3, <1>5, <2>1, RestsKept
  <2> QED BY <1>4, <1>5, <2>2, OpeningKept
<1>6. CASE ParseRecv(p)
  <2>1. /\ pc[p] = "cmd" /\ pc' = pc /\ cmd' = [cmd EXCEPT ![p] = [cmd[p] EXCEPT !.recv = 0]]
        /\ UNCHANGED <<ppc, cpid, receive, rfd, fifo, hnd, hfd, usr2, my_id>>
    <3>1. cmd[p].recv \in 0..N /\ cmd[p].recv # 0
      BY <1>6 DEF ParseRecv, CmdType, NothingFails
    <3> QED BY <1>6, <3>1 DEF ParseRecv, RecvParsed, Enter, At
  <2>2. cmd[p] \in CmdType
    OBVIOUS
  <2>3. cmd'[p].op = "line" /\ cmd'[p].send = 0
    BY <1>1, <2>1, <2>2, CmdParts
  <2> QED BY <1>5, <2>1, <2>3 DEF Lines
<1>7. CASE EndParse(p) \/ PipeBuffer(p) \/ PipeKill(p) \/ PipePost(p) \/ Run(p)
  <2>1. UNCHANGED <<ppc, cpid, receive, rfd, fifo, hnd, hfd, usr2, my_id>>
    BY <1>7 DEF EndParse, PipeBuffer, PipeKill, PipePost, Run
  <2>2. pc[p] \in {"cmd", "bc", "bc_kill", "bc_sleep", "run"} /\ pc'[p] \in {"bc", "bc_kill", "bc_sleep", "run", "reset", "rm_receive"}
    BY <1>7 DEF EndParse, PipeBuffer, PipeKill, PipePost, Run, At, Goto
  <2> QED BY <1>5, <2>1, <2>2 DEF Lines
<1>8. CASE ResetFlag(p)
  <2>1. UNCHANGED <<ppc, cpid, receive, rfd, fifo, hnd, hfd, usr2, my_id>> /\ pc[p] = "reset" /\ pc'[p] = "prompt"
    BY <1>8 DEF ResetFlag, At, Return, Goto
  <2> QED BY <1>5, <2>1
<1>9. CASE OpenWrite(p)
  <2>1. /\ UNCHANGED <<ppc, cpid, receive, rfd, fifo, hnd, hfd, usr2, my_id>> /\ pc[p] = "open"
        /\ pc'[p] = "cmd" /\ fifo[m][cmd[p].send] # "made" /\ cmd' = [cmd EXCEPT ![p] = [cmd[p] EXCEPT !.send = 0]]
    BY <1>9 DEF OpenWrite, SendParsed, At, Goto
  <2>2. fifo[m][n] = "read"
    BY <2>1 DEF Opening, Stage
  <2>3. cmd[p].op = "line" /\ cmd[p] \in CmdType
    BY <2>1 DEF TurnsInv, CmdOk, Sending
  <2>4. cmd'[p].op = "line" /\ cmd'[p].send = 0
    BY <2>1, <2>3, CmdParts
  <2> QED BY <1>5, <2>1, <2>2, <2>4 DEF Lines
<1>10. CASE MkFifo(p)
  <2>1. /\ UNCHANGED <<ppc, cpid, receive, rfd, hnd, hfd, usr2, my_id, cmd, line>>
        /\ pc[p] = "mkfifo" /\ pc'[p] = "open" /\ fifo' = Made(fifo, m, cmd[p].send)
    BY <1>10 DEF MkFifo, At, Goto
  <2>2. cmd[p].send = n /\ hfd[r] = NoProc /\ fifo[m][n] # "read"
    BY <2>1 DEF Opening, Stage
  <2>3. fifo'[m][n] = "made" /\ \A i, j \in Slots : (i = m /\ j = n) \/ fifo'[i][j] = fifo[i][j]
    BY <1>2, <2>1, <2>2 DEF Made, PipeTypes
  <2>4. Between(p, r)'
    BY <1>4, <2>1 DEF Opening, Between, Idle, Lines
  <2>5. Stage(p, r)'
    <3>1. Stage(p, r)
      BY DEF Opening
    <3> QED BY <2>1, <2>2, <2>3, <3>1 DEF Stage
  <2>6. ASSUME NEW i \in Slots, NEW j \in Slots, ~(i = m /\ j = n)
        PROVE  Rests(i, j)'
    <3>1. \A q \in Procs : pc[q] \in {"rm_fd", "unlink"} => q # p
      BY <2>1
    <3>2. Rests(i, j) /\ fifo'[i][j] = fifo[i][j]
      BY <2>3, <2>6 DEF Opening
    <3> QED BY <1>3, <2>1, <3>1, <3>2, RestsKept
  <2> QED BY <2>1, <2>4, <2>5, <2>6 DEF Opening
<1>11. CASE RemoveReceive(p) \/ RemoveFd(p) \/ Unlink(p)
  <2> DEFINE k == line[p].from
  <2>1. /\ UNCHANGED <<ppc, cpid, hnd, hfd, usr2, my_id>>
        /\ pc[p] \in {"rm_receive", "rm_fd", "unlink"} /\ pc'[p] \in {"rm_fd", "unlink", "reset"}
    <3>1. /\ UNCHANGED <<ppc, cpid, hnd, hfd, usr2, my_id>>
          /\ pc[p] \in {"rm_receive", "rm_fd", "unlink"}
      BY <1>11 DEF RemoveReceive, RemoveFd, Unlink, At
    <3>2. CASE RemoveReceive(p) \/ RemoveFd(p)
      BY <3>1, <3>2 DEF RemoveReceive, RemoveFd, Goto
    <3>3. CASE Unlink(p)
      BY <3>1, <3>3, UnlinkAlone DEF TurnsInv
    <3> QED BY <1>11, <3>1, <3>2, <3>3
  <2>2. k \in Slots
    BY <2>1 DEF Removals
  <2>3. receive'[m][n] = receive[m][n] /\ rfd'[m][n] = rfd[m][n] /\ fifo'[m][n] = fifo[m][n]
    <3>1. \/ receive' = [receive EXCEPT ![k][m] = FALSE] /\ UNCHANGED <<rfd, fifo>>
          \/ rfd' = [rfd EXCEPT ![k][m] = NoProc] /\ UNCHANGED <<receive, fifo>>
          \/ fifo' = [fifo EXCEPT ![k][m] = "none"] /\ UNCHANGED <<receive, rfd>>
      BY <1>11 DEF RemoveReceive, RemoveFd, Unlink
    <3>2. CASE receive' = [receive EXCEPT ![k][m] = FALSE] /\ UNCHANGED <<rfd, fifo>>
      BY <1>2, <2>2, <3>2 DEF PipeTypes
    <3>3. CASE rfd' = [rfd EXCEPT ![k][m] = NoProc] /\ UNCHANGED <<receive, fifo>>
      BY <1>2, <2>2, <3>3 DEF PipeTypes
    <3>4. CASE fifo' = [fifo EXCEPT ![k][m] = "none"] /\ UNCHANGED <<receive, rfd>>
      BY <1>2, <2>2, <3>4 DEF PipeTypes
    <3> QED BY <3>1, <3>2, <3>3, <3>4
  <2>4. \A i, j \in Slots : Rests(i, j) => Rests(i, j)'
    BY <1>11, RestsRemoved DEF TurnsInv
  <2> QED BY <1>4, <2>1, <2>3, <2>4, OpeningKept DEF Lines
<1>12. ~LoginBuffer(p) /\ ~LoginKill(p) /\ ~LoginDone(p) /\ ~TakeBuffer(p) /\ ~PostBuffer(p) /\ ~PostClients(p)
  BY <1>1 DEF LoginBuffer, LoginKill, LoginDone, TakeBuffer, PostBuffer, PostClients, At, Lines
<1>13. ~Who(p) /\ ~Name(p) /\ ~Tell(p) /\ ~Yell(p) /\ ~Exit(p) /\ ~ParseSend(p)
  BY <1>1 DEF Who, Name, Tell, Yell, Exit, ParseSend, Enter, At
<1> QED BY <1>1, <1>6, <1>7, <1>8, <1>9, <1>10, <1>11, <1>12, <1>13 DEF Shell

\* The senders whose pipe to the receiver waits for a descriptor.
LEMMA OnePending ==
  ASSUME IInv, NEW p \in Procs, NEW r \in Procs, Opening(p, r)
  PROVE  \A i \in Slots : i # my_id[p] => ~(receive[i][my_id[r]] /\ rfd[i][my_id[r]] = NoProc)
  BY DEF Opening, Between, Rests, Settled, Removing

\* The handler of the receiver goes on, or the message of somebody is printed.
LEMMA OpeningHandler ==
  ASSUME NothingFails, IInv, TurnsInv, Writers, NEW p \in Procs, NEW r \in Procs, Opening(p, r),
         NEW s \in Procs, Handler(s)
  PROVE  Calm' \/ Opening(p, r)'
<1> USE DEF ShellTypes, SignalTypes
<1> DEFINE m == my_id[p]
           n == my_id[r]
<1>1. UNCHANGED <<ppc, pc, cpid, receive, my_id, cmd, line>>
  BY DEF Handler, PrintBuffer, OpenPipes, OpenRead, StoreFd, Restart, Writers
<1>2. /\ p # r /\ m \in Slots /\ n \in Slots /\ m # n /\ cpid[m] = p /\ cpid[n] = r
      /\ \A q \in Procs : Busy(q) => q = p
      /\ \A q \in Procs : q # r => Idle(q)
      /\ receive[m][n] /\ rfd[m][n] = NoProc /\ Stage(p, r)
  BY DEF Opening, Between
<1>3. ASSUME NEW i \in Slots, NEW j \in Slots, ~(i = m /\ j = n), rfd'[i][j] = rfd[i][j], fifo'[i][j] = fifo[i][j]
      PROVE  Rests(i, j)'
  BY <1>1, <1>3, RestsKept DEF Opening
<1>4. CASE PrintBuffer(s)
  <2>1. UNCHANGED <<rfd, fifo, hnd, hfd, usr2>>
    BY <1>4 DEF PrintBuffer
  <2>2. Between(p, r)' /\ Stage(p, r)'
    BY <1>1, <2>1 DEF Opening, Between, Idle, Busy, Stage
  <2> QED BY <1>1, <1>2, <1>3, <2>1, <2>2 DEF Opening
<1>5. s = r \/ PrintBuffer(s)
  BY <1>2 DEF Handler, OpenPipes, OpenRead, StoreFd, Idle
<1>6. ASSUME \A q \in Procs : q # r => usr2'[q] = usr2[q] /\ hnd'[q] = hnd[q] /\ hfd'[q] = hfd[q]
      PROVE  Between(p, r)'
  <2>1. \A q \in Procs : q # r => Idle(q)'
    BY <1>2, <1>6 DEF Idle
  <2> QED BY <1>1, <2>1 DEF Opening, Between, Busy
<1>7. CASE OpenPipes(r)
  <2>1. /\ usr2[r] /\ usr2' = [usr2 EXCEPT ![r] = FALSE] /\ UNCHANGED <<rfd, hfd>>
        /\ Scan(r, 1, rfd)
    BY <1>7 DEF OpenPipes
  <2>2. pc[p] \in {"mkfifo", "open"} /\ cmd[p].send = n /\ hfd[r] = NoProc /\ fifo[m][n] # "read"
    BY <1>2, <2>1 DEF Stage
  <2>3. Pending(r, 1, rfd) = {m}
    <3>1. m \in Pending(r, 1, rfd)
      BY <1>2 DEF Pending
    <3>2. \A i \in Pending(r, 1, rfd) : i = m
      BY OnePending DEF Pending
    <3> QED BY <3>1, <3>2
  <2>4. hnd' = [hnd EXCEPT ![r] = m] /\ fifo' = Made(fifo, m, n)
    BY <2>1, <2>3 DEF Scan
  <2>5. fifo'[m][n] = "made" /\ \A i, j \in Slots : (i = m /\ j = n) \/ fifo'[i][j] = fifo[i][j]
    BY <1>2, <2>2, <2>4 DEF Made, PipeTypes
  <2>6. Between(p, r)'
    BY <1>6, <2>1, <2>4
  <2>7. Stage(p, r)'
    <3>1. ~usr2'[r] /\ hnd'[r] = m /\ my_id'[p] = m /\ my_id'[r] = n
      BY <1>1, <2>1, <2>4
    <3> QED BY <1>1, <2>1, <2>2, <2>5, <3>1 DEF Stage
  <2> QED BY <1>1, <1>2, <1>3, <2>1, <2>5, <2>6, <2>7 DEF Opening
<1>8. CASE OpenRead(r)
  <2>1. /\ hnd[r] # 0 /\ hfd[r] = NoProc /\ UNCHANGED <<rfd, usr2, hnd>>
        /\ fifo' = [fifo EXCEPT ![hnd[r]][n] = "read"]
    BY <1>8 DEF OpenRead
  <2>2. pc[p] \in {"mkfifo", "open"} /\ cmd[p].send = n /\ ~usr2[r] /\ hnd[r] = m
    <3>1. hfd[r] # p
      BY <2>1, NoProcAssumption
    <3> QED BY <1>2, <2>1, <3>1 DEF Stage
  <2>3. PICK q \in Procs : /\ my_id[q] = m /\ hfd' = [hfd EXCEPT ![r] = q]
                           /\ \/ pc[q] = "open" /\ cmd[q].send = n
                              \/ line[q].wr /\ line[q].to = n
    BY <1>8, <2>2 DEF OpenRead
  <2>4. q = p
    BY <1>2, <2>3 DEF Writers, Busy, Lines
  <2>5. pc[p] = "open"
    BY <2>2, <2>3, <2>4 DEF Writers
  <2>6. fifo'[m][n] = "read" /\ \A i, j \in Slots : (i = m /\ j = n) \/ fifo'[i][j] = fifo[i][j]
    BY <1>2, <2>1, <2>2 DEF PipeTypes
  <2>7. Between(p, r)'
    BY <1>6, <2>1, <2>3
  <2>8. Stage(p, r)'
    <3>1. ~usr2'[r] /\ hnd'[r] = m /\ my_id'[p] = m /\ my_id'[r] = n /\ hfd'[r] = p
      BY <1>1, <2>1, <2>2, <2>3, <2>4
    <3> QED BY <1>1, <2>5, <2>6, <3>1 DEF Stage
  <2> QED BY <1>1, <1>2, <1>3, <2>1, <2>6, <2>7, <2>8 DEF Opening
<1>9. CASE StoreFd(r)
  <2>1. /\ hfd[r] # NoProc /\ usr2' = usr2 /\ hfd' = [hfd EXCEPT ![r] = NoProc]
        /\ rfd' = [rfd EXCEPT ![hnd[r]][n] = hfd[r]] /\ Scan(r, hnd[r] + 1, rfd')
    BY <1>9 DEF StoreFd
  <2>2. pc[p] # "mkfifo" /\ ~usr2[r] /\ hnd[r] = m /\ hfd[r] = p /\ fifo[m][n] = "read"
    BY <1>2, <2>1 DEF Stage
  <2>3. rfd'[m][n] = p /\ \A i, j \in Slots : (i = m /\ j = n) \/ rfd'[i][j] = rfd[i][j]
    BY <1>2, <2>1, <2>2 DEF PipeTypes
  <2>4. Pending(r, m + 1, rfd') = {}
    <3>1. \A i \in Slots : i # m => ~(receive[i][n] /\ rfd'[i][n] = NoProc)
      BY <1>2, <2>3, OnePending
    <3>2. \A i \in (m + 1)..N : i \in Slots /\ i # m
      BY <1>2
    <3> QED BY <3>1, <3>2 DEF Pending
  <2>5. hnd' = [hnd EXCEPT ![r] = 0] /\ fifo' = fifo
    BY <2>1, <2>2, <2>4 DEF Scan
  <2>6. \A q \in Procs : Idle(q)'
    <3>1. \A q \in Procs : q # r => Idle(q)'
      BY <1>2, <2>1, <2>5 DEF Idle
    <3>2. Idle(r)'
      BY <2>1, <2>2, <2>5 DEF Idle
    <3> QED BY <3>1, <3>2
  <2>7. \A q \in Procs : pc'[q] # "mkfifo"
    BY <1>1, <1>2, <2>2 DEF Busy
  <2>8. ASSUME NEW i \in Slots, NEW j \in Slots
        PROVE  Rests(i, j)'
    <3>1. CASE i = m /\ j = n
      BY <1>1, <1>2, <2>2, <2>3, <2>5, <3>1, NoProcAssumption DEF Rests, Settled
    <3>2. CASE ~(i = m /\ j = n)
      BY <1>3, <2>3, <2>5, <3>2
    <3> QED BY <3>1, <3>2
  <2> QED BY <2>6, <2>7, <2>8 DEF Calm
<1> QED BY <1>4, <1>5, <1>7, <1>8, <1>9 DEF Handler

\* From a state in which a pipe is being opened.
LEMMA OpeningSteps ==
  ASSUME NothingFails, IInv, TurnsInv, Exact, Writers, Removals,
         NEW p \in Procs, NEW r \in Procs, Opening(p, r), [Next]_vars
  PROVE  Calm' \/ Opening(p, r)'
<1>1. ppc = "accept" /\ ~Quiet
  <2>1. usr2[r] \/ hnd[r] # 0
    BY DEF Opening, Between, Stage
  <2> QED BY <2>1 DEF Opening, Between, Quiet
<1>2. ~PickAndFork /\ ~Register /\ \A s \in Procs : ~Accept(s) /\ \A c \in Commands(s) : ~ReadLine(s, c)
  BY <1>1 DEF PickAndFork, Register, Accept, ReadLine, NothingFails
<1>3. ~Kill /\ ~Interrupt /\ \A s \in Procs : ~Close(s) /\ ~Hangup(s)
  BY DEF NothingFails, Kill, Interrupt, Close, Hangup, Exact
<1>4. ASSUME NEW s \in Procs, Shell(s) PROVE Opening(p, r)'
  BY <1>4, OpeningShell
<1>5. ASSUME NEW s \in Procs, Handler(s) PROVE Calm' \/ Opening(p, r)'
  BY <1>5, OpeningHandler
<1>6. ASSUME UNCHANGED <<ppc, cpid, receive, rfd, fifo, hnd, hfd, usr2>>,
             \A q \in Procs : \/ UNCHANGED <<pc[q], my_id[q], line[q], cmd[q]>>
                              \/ q \notin {p, r} /\ pc[q] = "gone" /\ pc'[q] = "unborn"
      PROVE  Opening(p, r)'
  <2>1. \A i, j \in Slots : Rests(i, j) => Rests(i, j)'
    BY <1>6, RestsKept
  <2>2. UNCHANGED <<pc[p], my_id[p], line[p], cmd[p], my_id[r]>>
    BY <1>6
  <2>3. \A q \in Procs : Busy(q)' => q = p
    BY <1>6 DEF Opening, Between, Busy
  <2>4. pc[p] \in Lines \cup {"prompt"} /\ (pc[p] = "cmd" => cmd[p].op = "line" /\ cmd[p].send = 0)
    BY DEF Opening, Between
  <2> QED BY <1>6, <2>1, <2>2, <2>3, <2>4, OpeningKept
<1>7. ASSUME NEW s \in Procs, Reap(s) PROVE Opening(p, r)'
  <2>1. UNCHANGED <<ppc, cpid, receive, rfd, fifo, hnd, hfd, usr2>> /\ pc[s] = "gone" /\ s \notin Registered
    BY <1>7 DEF Reap
  <2>2. s # p /\ s # r
    BY <2>1, NoProcAssumption DEF Opening, Between, Registered
  <2>3. pc'[s] = "unborn"
    BY <1>7 DEF Reap, Goto, ShellTypes
  <2>4. \A q \in Procs : q # s => UNCHANGED <<pc[q], my_id[q], line[q], cmd[q]>>
    BY <1>7 DEF Reap, Goto
  <2> QED BY <1>6, <2>1, <2>2, <2>3, <2>4
<1>8. CASE UNCHANGED vars
  BY <1>6, <1>8 DEF vars
<1> QED BY <1>2, <1>3, <1>4, <1>5, <1>7, <1>8 DEF Next

\* Every step keeps the pipes.
LEMMA PipeInvInductive ==
  ASSUME NothingFails, IInv, TurnsInv, Exact, PipeInv, [Next]_vars PROVE PipeInv'
<1>1. Writers'
  BY WritersInductive DEF PipeInv, TurnsInv
<1>2. Removals'
  BY RemovalsInductive DEF PipeInv, TurnsInv
<1>3. Calm' \/ \E p, r \in Procs : Opening(p, r)'
  BY CalmSteps, OpeningSteps DEF PipeInv
<1> QED BY <1>1, <1>2, <1>3 DEF PipeInv

LEMMA PipeInvInit == Init => PipeInv
<1> SUFFICES ASSUME Init PROVE PipeInv
  OBVIOUS
<1>1. Writers /\ Removals
  BY DEF Init, All, NoLine, Writers, Removals
<1>2. Calm
  BY DEF Init, All, Pairs, Calm, Idle, Rests, Settled
<1> QED BY <1>1, <1>2 DEF PipeInv

\* If nothing fails, a marked pipe can be read whenever nothing is happening, and
\* nothing is left of the others: SIGUSR2, the two opens of the FIFO and the storing
\* of the descriptor come to their end before the next command, in whatever order the
\* writer's line, the receiver's handler and the printing of messages take their steps.
THEOREM PipesStayReady == ASSUME NothingFails PROVE Spec => []PipesReady
<1>1. IInv /\ PipeInv => PipesReady
  <2> SUFFICES ASSUME PipeInv, Quiet, NEW i \in Slots, NEW j \in Slots
               PROVE  Settled(i, j)
    BY DEF PipesReady, Settled
  <2>1. \A p, r \in Procs : ~Opening(p, r)
    BY DEF Quiet, Opening, Between, Stage
  <2>2. ~Removing(i, j)
    BY DEF Quiet, Removing
  <2> QED BY <2>1, <2>2 DEF PipeInv, Calm, Rests
<1>2. TakeTurns
  BY DEF NothingFails, TakeTurns
<1> QED BY <1>1, <1>2, PipeInvInit, PipeInvInductive, ExactHolds, TurnsInvHolds, Invariant, PTL DEF Spec
=============================================================================
