---------------------------- MODULE SocksServer ----------------------------
(***************************************************************************)
(* One session of the SOCKS4 proxy, project4/311551059/socks_server.cpp.   *)
(*                                                                         *)
(* The server forks a process for every connection; it has the client's    *)
(* socket ("web") and one to the destination ("dst").  Sessions share      *)
(* nothing but the rules in socks.conf.  In each direction a chain of      *)
(* handlers reads into a buffer, writes the buffer and reads again.  TCP   *)
(* keeps a bounded amount of data in order on each side of the proxy.      *)
(*                                                                         *)
(* The process goes on accepting on a closed acceptor for ever when its    *)
(* session is over; this changes nothing and is not modelled.              *)
(***************************************************************************)
EXTENDS Integers, Sequences

CONSTANTS Requests,  \* what clients ask for, see RequestType
          Addrs,     \* the IP addresses, of four octets
          RuleFiles, \* the contents of socks.conf, each a set of rules
          Resets,    \* the sides that may reset their connection
          MaxLength, \* max_length, the size of a buffer
          Cap,       \* what TCP keeps between the proxy and a peer, each way
          MaxSent    \* bound: what each peer sends

Sides == {"web", "dst"}
Other(x) == IF x = "web" THEN "dst" ELSE "web"

\* cd is 1 for CONNECT, 2 for BIND and 0 if it is neither or not of version 4;
\* name says that a domain name is given, and then ip is not used.
RequestType == [cd : 0..2, ip : Addrs, name : BOOLEAN]
Any == -1   \* "*"
NoAddr == <<>>
NoRequest == [cd |-> 0, ip |-> NoAddr, name |-> FALSE]

ASSUME AddrsAssumption == Addrs \subseteq [1..4 -> 0..255]
ASSUME RequestsAssumption == Requests \subseteq RequestType
ASSUME RulesAssumption ==
  RuleFiles \subseteq SUBSET [cmd : {"b", "c"}, ip : [1..4 -> {Any} \cup 0..255]]
ASSUME BoundsAssumption == /\ {MaxLength, Cap} \subseteq Nat \ {0} /\ Resets \subseteq Sides
                           /\ MaxSent \in [Sides -> Nat]

VARIABLES
  phase,   \* of the session: what the handler that is due waits for
  parent,  \* the server has not closed its copy of the client's socket
  rules,   \* socks.conf
  asked,   \* the request
  dst,     \* dst_endpoint
  peer,    \* what CONNECT has connected dst_socket to
  replies, \* the replies the client received
  reading, \* per side, an async_read_some is pending
  buf,     \* per side, data_from_web and data_from_dst
  left,    \* per side, the part of the buffer still to be written: first, last
  inq,     \* per side, what the peer sent and the proxy has not read
  outq,    \* per side, what the proxy wrote and the peer has not read
  shut,    \* per side, the proxy has shut down sending
  sent,    \* per side, how many units the peer sent: 1, 2, ...
  fin,     \* per side, the peer sends no more
  reset,   \* per side, the peer has reset the connection
  got      \* per side, what the peer received

target   == <<asked, dst, peer>>
session  == <<phase, parent, rules, target, replies>>
relay    == <<reading, buf, left, shut>>
peers    == <<sent, fin, reset, got>>
vars     == <<session, relay, inq, outq, peers>>

Empty == [i \in 1..MaxLength |-> 0]
Done  == <<1, 0>>
Both(v) == [x \in Sides |-> v]

Init == /\ phase = "accept" /\ parent = FALSE /\ rules \in RuleFiles
        /\ asked = NoRequest /\ dst = NoAddr /\ peer = NoAddr /\ replies = <<>>
        /\ reading = Both(FALSE) /\ buf = Both(Empty) /\ left = Both(Done)
        /\ shut = Both(FALSE)
        /\ inq = Both(<<>>) /\ outq = Both(<<>>)
        /\ sent = Both(0) /\ fin = Both(FALSE) /\ reset = Both(FALSE) /\ got = Both(<<>>)

Goto(p) == phase' = p
-----------------------------------------------------------------------------
(* The request.                                                            *)

\* do_accept: the child starts the session.
Accept == /\ phase = "accept" /\ Goto("request") /\ parent' = TRUE
          /\ UNCHANGED <<rules, target, replies, relay, inq, outq, peers>>

\* (Mutant: the server keeps its copy of the socket.)
ParentKeeps == parent /\ UNCHANGED vars

\* The server closes its copy of the socket.
ParentCloses == /\ parent /\ parent' = FALSE
                /\ UNCHANGED <<phase, rules, target, replies, relay, inq, outq, peers>>

\* A rule for the command matches the address in every octet.
pass_firewall(c, a) == \E r \in rules : r.cmd = c /\ \A i \in 1..4 : r.ip[i] \in {Any, a[i]}

ReadRequest == phase = "request" /\ ~reset["web"]

\* The address asked for: that of the name, which may be any, if there is one.
Asked(r) == IF r.name THEN Addrs ELSE {r.ip}

Command(r) == IF r.cd = 1 THEN "c" ELSE "b"

\* (Mutant: the address in the request is used although there is a name.)
Unresolved(r, a) == r.ip

\* What is connected to when the request was found to mean a.
Endpoint(r, a) == a

Permitted(r, next) ==
  /\ ReadRequest
  /\ \E a \in Asked(r) : pass_firewall(Command(r), a) /\ dst' = Endpoint(r, a)
  /\ asked' = r /\ Goto(next)
  /\ UNCHANGED <<parent, rules, peer, relay, inq, outq, peers>>

ToConnect(r) == r.cd = 1 /\ Permitted(r, "connect") /\ UNCHANGED replies

\* The first reply says which port to connect to.
ToBind(r) == r.cd = 2 /\ Permitted(r, "bind") /\ replies' = Append(replies, 90)

Reject(r) ==
  /\ ReadRequest /\ r.cd \in {1, 2}
  /\ \E a \in Asked(r) : ~pass_firewall(Command(r), a) /\ dst' = Endpoint(r, a)
  /\ asked' = r /\ Goto("reject") /\ replies' = Append(replies, 91)
  /\ UNCHANGED <<parent, rules, peer, relay, inq, outq, peers>>

\* No such command or version: the handler returns.  For a name with no address
\* resolve throws, and the process ends.
Drop(r) == /\ ReadRequest
           /\ r.cd = 0 \/ r.name
           /\ Goto("over")
           /\ UNCHANGED <<parent, rules, target, replies, relay, inq, outq, peers>>

Request == \E r \in Requests : ToConnect(r) \/ ToBind(r) \/ Reject(r) \/ Drop(r)

\* The read, the connect or a reply fails, or the rejection is sent: no handler
\* is left.  (When the client is gone the request may still be read, and
\* remote_endpoint throws.)
GiveUp == /\ \/ phase \in {"request", "reply"} /\ reset["web"]
             \/ phase \in {"connect", "reject"}
          /\ Goto("over")
          /\ UNCHANGED <<parent, rules, target, replies, relay, inq, outq, peers>>

\* The destination is connected to.
Connected == /\ phase = "connect" /\ peer' = dst /\ Goto("reply")
             /\ UNCHANGED <<parent, rules, asked, dst, replies, relay, inq, outq, peers>>

\* Somebody connects; whether it is the destination is not looked at.
Accepted == /\ phase = "bind" /\ Goto("reply")
            /\ UNCHANGED <<parent, rules, target, replies, relay, inq, outq, peers>>

\* send_reply_to_web, then both chains are started.
Reply == /\ phase = "reply" /\ ~reset["web"]
         /\ replies' = Append(replies, 90) /\ Goto("relay") /\ reading' = Both(TRUE)
         /\ UNCHANGED <<parent, rules, target, buf, left, shut, inq, outq, peers>>
-----------------------------------------------------------------------------
(* The relay: read_from and write_to.                                      *)

Min(a, b) == IF a < b THEN a ELSE b
Writing(x) == left[x][1] <= left[x][2]

\* (Mutant: the next read is started together with the write.)
AtOnce(x) == TRUE

\* The next read starts when the data is written.
ReadsOn(x) == FALSE

\* (Mutant: the size of the buffer is not looked at.)
AllThere(x) == Len(inq[x])

\* Everything that is there is read, if there is room.
Length(x) == Min(Len(inq[x]), MaxLength)

ReadSome(x) ==
  LET n == Length(x)
  IN /\ phase = "relay" /\ reading[x] /\ n > 0
     /\ buf' = [buf EXCEPT ![x] = [i \in 1..MaxLength |-> IF i <= n THEN inq[x][i] ELSE @[i]]]
     /\ inq' = [inq EXCEPT ![x] = SubSeq(@, n + 1, Len(@))]
     /\ left' = [left EXCEPT ![x] = <<1, n>>]
     /\ reading' = [reading EXCEPT ![x] = ReadsOn(x)]
     /\ UNCHANGED <<session, shut, outq, peers>>

\* (Mutant: the other direction is given up, too.)
StopBoth(x) == reading' = Both(FALSE)

\* No further read from this side.
Stop(x) == reading' = [reading EXCEPT ![x] = FALSE]

\* The read returns the end of the data.  After a reset it may, too, if the error
\* was reported to a write.
AtEnd(x) == /\ phase = "relay" /\ reading[x] /\ inq[x] = <<>>
            /\ fin[x] \/ reset[x]

\* The end of the data is passed on.
ReadEof(x) ==
  /\ AtEnd(x) /\ ~reset[Other(x)]
  /\ Stop(x) /\ shut' = [shut EXCEPT ![Other(x)] = TRUE]
  /\ UNCHANGED <<session, buf, left, inq, outq, peers>>

\* shutdown throws when the other side is gone, and the process ends.
EofThrows(x) ==
  /\ AtEnd(x) /\ reset[Other(x)]
  /\ Goto("over")
  /\ UNCHANGED <<parent, rules, target, replies, relay, inq, outq, peers>>

ReadError(x) == /\ AtEnd(x) /\ reset[x]
                /\ Stop(x) /\ UNCHANGED <<session, buf, left, shut, inq, outq, peers>>

Room(y) == Cap - Len(outq[y])

\* (Mutant: only one buffer is relayed.)
Once(x) == FALSE

\* The chain goes on when the buffer is written.
ReadsAgain(x) == TRUE

\* async_write writes what there is room for, and again; when all is written
\* the buffer is cleared and the next read starts.
WriteSome(x) ==
  LET y == Other(x)
      n == Min(Room(y), left[x][2] - left[x][1] + 1)
      next == left[x][1] + n
  IN /\ phase = "relay" /\ Writing(x) /\ ~reset[y] /\ n > 0
     /\ outq' = [outq EXCEPT ![y] = @ \o SubSeq(buf[x], left[x][1], next - 1)]
     /\ left' = [left EXCEPT ![x][1] = next]
     /\ IF next > left[x][2]
          THEN buf' = [buf EXCEPT ![x] = Empty] /\ reading' = [reading EXCEPT ![x] = ReadsAgain(x)]
          ELSE UNCHANGED <<buf, reading>>
     /\ UNCHANGED <<session, shut, inq, peers>>

WriteError(x) == /\ phase = "relay" /\ Writing(x) /\ reset[Other(x)]
                 /\ left' = [left EXCEPT ![x] = Done]
                 /\ UNCHANGED <<session, reading, buf, shut, inq, outq, peers>>

\* No handler is left: the session is destroyed, and its sockets are closed.
Release == /\ phase = "relay" /\ \A x \in Sides : ~reading[x] /\ ~Writing(x)
           /\ Goto("over")
           /\ UNCHANGED <<parent, rules, target, replies, relay, inq, outq, peers>>

Chain(x) == \/ ReadSome(x) \/ ReadEof(x) \/ EofThrows(x) \/ ReadError(x)
            \/ WriteSome(x) \/ WriteError(x)
-----------------------------------------------------------------------------
(* The peers, and socks.conf.                                              *)

\* The client waits for the reply.
Open(x) == /\ phase \in IF x = "web" THEN {"relay"} ELSE {"reply", "relay"}
           /\ ~reset[x]

Send(x) == /\ Open(x) /\ ~fin[x] /\ sent[x] < MaxSent[x] /\ Len(inq[x]) < Cap
           /\ sent' = [sent EXCEPT ![x] = @ + 1]
           /\ inq' = [inq EXCEPT ![x] = Append(@, sent[x] + 1)]
           /\ UNCHANGED <<session, relay, outq, fin, reset, got>>

SendNoMore(x) == /\ Open(x) /\ ~fin[x] /\ fin' = [fin EXCEPT ![x] = TRUE]
                 /\ UNCHANGED <<session, relay, inq, outq, sent, reset, got>>

\* The connection is given up, with what it has not read.
Reset(x) ==
  /\ x \in Resets /\ ~reset[x]
  /\ phase \in {"reply", "relay"} \/ (x = "web" /\ phase \in {"request", "connect", "bind"})
  /\ reset' = [reset EXCEPT ![x] = TRUE] /\ outq' = [outq EXCEPT ![x] = <<>>]
  /\ UNCHANGED <<session, relay, inq, sent, fin, got>>

Receive(x) == /\ outq[x] # <<>> /\ ~reset[x]
              /\ got' = [got EXCEPT ![x] = Append(@, Head(outq[x]))]
              /\ outq' = [outq EXCEPT ![x] = Tail(@)]
              /\ UNCHANGED <<session, relay, inq, sent, fin, reset>>

\* The rules are changed while the server runs.  They are read at a request;
\* later changes make no difference to this session.
ChangeRules == /\ phase \in {"accept", "request"} /\ rules' \in RuleFiles \ {rules}
               /\ UNCHANGED <<phase, parent, target, replies, relay, inq, outq, peers>>
-----------------------------------------------------------------------------
Session == Accept \/ Request \/ GiveUp \/ Reply \/ Release

Next == \/ Session \/ Connected \/ Accepted \/ ParentCloses \/ ChangeRules
        \/ \E x \in Sides : Chain(x) \/ Send(x) \/ SendNoMore(x) \/ Reset(x) \/ Receive(x)

\* The processes run and a peer reads what it gets.  Nobody has to send or to
\* end, nor to connect to the port of a BIND.
Spec == /\ Init /\ [][Next]_vars
        /\ WF_vars(Session) /\ WF_vars(ParentCloses)
        /\ \A x \in Sides : WF_vars(Chain(x)) /\ WF_vars(Receive(x))
-----------------------------------------------------------------------------
(* Properties.                                                             *)

Phases == {"accept", "request", "connect", "bind", "reject", "reply", "relay", "over"}
Unit == 0..(MaxSent["web"] + MaxSent["dst"])

SessionTypes ==
  /\ phase \in Phases /\ parent \in BOOLEAN /\ rules \in RuleFiles
  /\ asked \in Requests \cup {NoRequest} /\ {dst, peer} \subseteq Addrs \cup {NoAddr}
  /\ replies \in Seq({90, 91})

RelayTypes ==
  /\ reading \in [Sides -> BOOLEAN] /\ shut \in [Sides -> BOOLEAN]
  /\ buf \in [Sides -> [1..MaxLength -> Unit]]
  /\ left \in [Sides -> (1..(MaxLength + 1)) \X (0..MaxLength)]

QueueTypes ==
  /\ inq \in [Sides -> Seq(Unit)] /\ outq \in [Sides -> Seq(Unit)]
  /\ \A x \in Sides : Len(inq[x]) <= Cap /\ Len(outq[x]) <= Cap

PeerTypes ==
  /\ got \in [Sides -> Seq(Unit)] /\ sent \in [Sides -> Unit]
  /\ fin \in [Sides -> BOOLEAN] /\ reset \in [Sides -> BOOLEAN]

\* Every variable has its type, and no buffer holds more than it can.
TypeOK == SessionTypes /\ RelayTypes /\ QueueTypes /\ PeerTypes

\* What arrives at a peer is what the other one sent, in order, nothing lost,
\* repeated or cleared in between.
InOrder ==
  \A x \in Sides : LET all == got[x] \o outq[x]
                  IN Len(all) <= sent[Other(x)] /\ \A i \in DOMAIN all : all[i] = i

\* The peer reads the end of its data.
SeesEnd(x) == /\ outq[x] = <<>> /\ ~reset[x]
              /\ shut[x] \/ (phase = "over" /\ (x = "web" => ~parent))

\* Unless a connection was reset, a peer of an accepted request sees the end of
\* its data only when the other one has ended and all it sent has arrived: a
\* direction that ends does not cut off the other one.
EndIsTrue ==
  \A x \in Sides :
    SeesEnd(x) /\ replies # <<>> /\ replies[1] = 90 /\ (\A y \in Sides : ~reset[y])
      => fin[Other(x)] /\ Len(got[x]) = sent[Other(x)]

\* Data passes the proxy only for a request that socks.conf permitted.  With CONNECT
\* it passes to and from the permitted address only: that of the request or, when a
\* name is given, one of the name's.  With BIND the destination was permitted, whoever
\* the peer is.
RelayPermitted ==
  (\E x \in Sides : outq[x] # <<>> \/ got[x] # <<>>) =>
    \/ asked.cd = 1 /\ pass_firewall("c", peer) /\ peer \in Asked(asked)
    \/ asked.cd = 2 /\ pass_firewall("b", dst) /\ dst \in Asked(asked)

\* What is sent arrives, unless a connection is reset, whatever goes the other
\* way and even if that direction has ended.
Delivered ==
  \A x \in Sides : \A n \in 1..MaxSent[x] :
    sent[x] = n ~> Len(got[Other(x)]) >= n \/ \E y \in Sides : reset[y]

\* When each peer has ended or reset its connection, or the request is rejected,
\* nothing keeps the client's connection open, although nobody is told of a reset.
SessionEnds ==
  /\ (\A x \in Sides : fin[x] \/ reset[x]) ~> (phase = "over" /\ ~parent)
  /\ phase = "reject" ~> (phase = "over" /\ ~parent)
=============================================================================
