------------------------- MODULE SocksServerProofs -------------------------
(***************************************************************************)
(* Proofs about a session of the SOCKS4 proxy, for any rules, requests and *)
(* addresses, any sizes of the buffers and any amount of data.             *)
(***************************************************************************)
EXTENDS SocksServer, SequenceTheorems, TLAPS

USE DEF Sides, target, session, relay, peers

\* The sizes of the buffers, of TCP's queues and of what is sent.
LEMMA Sizes == MaxLength \in Nat \ {0} /\ Cap \in Nat \ {0} /\ MaxSent \in [Sides -> Nat]
  BY BoundsAssumption

\* The last value both peers' data can have.
LEMMA UnitNat == MaxSent["web"] \in Nat /\ MaxSent["dst"] \in Nat /\ Unit \subseteq Nat
  BY Sizes DEF Unit

\* Each side has an other one.
LEMMA OtherSide == \A x \in Sides : Other(x) \in Sides /\ Other(Other(x)) = x /\ Other(x) # x
  BY DEF Other

\* A peer that may send one more sends a unit.
LEMMA NextUnit == \A x \in Sides : \A n \in Unit : n < MaxSent[x] => n + 1 \in Unit
  BY UnitNat DEF Unit

\* The smaller one of two numbers.
LEMMA MinType ==
  ASSUME NEW a \in Int, NEW b \in Int
  PROVE  Min(a, b) \in Int /\ Min(a, b) <= a /\ Min(a, b) <= b
  BY DEF Min

\* What is left of a queue when its first n elements are taken.
LEMMA Taken ==
  ASSUME NEW S, NEW s \in Seq(S), NEW n \in 1..Len(s)
  PROVE  LET t == SubSeq(s, n + 1, Len(s))
         IN /\ t \in Seq(S) /\ Len(t) = Len(s) - n
            /\ \A i \in 1..Len(t) : t[i] = s[n + i]
<1>1. Len(s) \in Nat /\ \A i \in (n + 1)..Len(s) : s[i] \in S
  BY ElementOfSeq, LenProperties
<1>2. n + 1 \in Int /\ Len(s) \in Int
  BY <1>1
<1>3. SubSeq(s, n + 1, Len(s)) \in Seq(S)
  BY <1>1, <1>2, SubSeqProperties
<1>4. Len(SubSeq(s, n + 1, Len(s))) = IF n + 1 <= Len(s) THEN Len(s) - (n + 1) + 1 ELSE 0
  BY <1>1, <1>2, SubSeqProperties
<1>5. \A i \in 1..(Len(s) - (n + 1) + 1) : SubSeq(s, n + 1, Len(s))[i] = s[n + 1 + i - 1]
  BY <1>1, <1>2, SubSeqProperties
<1> QED BY <1>1, <1>3, <1>4, <1>5

-----------------------------------------------------------------------------
(* Types.                                                                  *)

\* The initial state is typed.
LEMMA InitTypes == Init => TypeOK
<1> SUFFICES ASSUME Init PROVE TypeOK
  OBVIOUS
<1>1. <<>> \in Seq(Unit) /\ <<>> \in Seq({90, 91}) /\ Len(<<>>) = 0
  OBVIOUS
<1>2. 0 \in Unit
  BY UnitNat DEF Unit
<1>3. MaxLength \in Nat /\ Cap \in Nat
  BY Sizes
<1>4. SessionTypes
  BY <1>1 DEF Init, SessionTypes, Phases
<1>5. RelayTypes
  <2>1. Empty \in [1..MaxLength -> Unit]
    BY <1>2 DEF Empty
  <2>2. Done \in (1..(MaxLength + 1)) \X (0..MaxLength)
    BY <1>3 DEF Done
  <2> QED BY <2>1, <2>2 DEF Init, RelayTypes, Both
<1>6. QueueTypes
  BY <1>1, <1>3 DEF Init, QueueTypes, Both
<1>7. PeerTypes
  BY <1>1, <1>2 DEF Init, PeerTypes, Both
<1> QED BY <1>4, <1>5, <1>6, <1>7 DEF TypeOK

\* The part of a buffer that is still to be written lies within it.
LEMMA LeftType ==
  ASSUME RelayTypes, NEW x \in Sides
  PROVE  left[x][1] \in 1..(MaxLength + 1) /\ left[x][2] \in 0..MaxLength
  BY DEF RelayTypes

\* What the queues hold.
LEMMA QueueType ==
  ASSUME QueueTypes, NEW x \in Sides
  PROVE  /\ inq[x] \in Seq(Unit) /\ Len(inq[x]) \in 0..Cap
         /\ outq[x] \in Seq(Unit) /\ Len(outq[x]) \in 0..Cap
  BY Sizes DEF QueueTypes

\* A read takes at least one element and no more than the buffer holds.
LEMMA ReadSize ==
  ASSUME TypeOK, NEW x \in Sides, ReadSome(x)
  PROVE  Length(x) \in 1..MaxLength /\ Length(x) \in 1..Len(inq[x])
<1>1. Len(inq[x]) \in Nat /\ MaxLength \in Nat \ {0}
  BY QueueType, Sizes DEF TypeOK
<1> QED BY <1>1 DEF ReadSome, Length, Min

\* A write puts at least one element of the buffer into the room there is.
LEMMA WriteSize ==
  ASSUME TypeOK, NEW x \in Sides, WriteSome(x)
  PROVE  LET n == Min(Room(Other(x)), left[x][2] - left[x][1] + 1)
         IN n \in 1..(left[x][2] - left[x][1] + 1) /\ n + Len(outq[Other(x)]) <= Cap
<1>1. Len(outq[Other(x)]) \in Nat /\ Cap \in Nat
  BY OtherSide, QueueType, Sizes DEF TypeOK
<1>2. left[x][1] \in Nat /\ left[x][2] \in Nat
  BY LeftType, Sizes DEF TypeOK
<1>3. Min(Room(Other(x)), left[x][2] - left[x][1] + 1) > 0
  BY DEF WriteSome
<1> QED
  <2> DEFINE r == Room(Other(x))
             m == left[x][2] - left[x][1] + 1
             k == Len(outq[Other(x)])
             n == Min(r, m)
  <2>1. r \in Int /\ m \in Int /\ k \in Int /\ r + k = Cap
    BY <1>1, <1>2 DEF Room
  <2>2. n \in Int /\ n <= r /\ n <= m
    BY <2>1, MinType
  <2>3. n > 0
    BY <1>3
  <2> HIDE DEF n, m, r, k
  <2>4. n \in 1..m /\ n + k <= Cap
    BY <2>1, <2>2, <2>3
  <2> QED BY <2>4 DEF n, m, r, k

\* The part of the buffer that is written.
LEMMA Piece ==
  ASSUME RelayTypes, NEW x \in Sides, NEW a \in 1..MaxLength, NEW b \in a..MaxLength
  PROVE  LET p == SubSeq(buf[x], a, b)
         IN p \in Seq(Unit) /\ Len(p) = b - a + 1 /\ \A i \in 1..Len(p) : p[i] = buf[x][a + i - 1]
<1>1. buf[x] \in [1..MaxLength -> Unit]
  BY DEF RelayTypes
<1>2. a \in Int /\ b \in Int /\ a <= b /\ a..b \subseteq 1..MaxLength
  BY Sizes
<1>3. \A i \in a..b : buf[x][i] \in Unit
  BY <1>1, <1>2
<1> QED BY <1>2, <1>3, SubSeqProperties

\* Every step keeps the types.
LEMMA NextTypes == ASSUME TypeOK, [Next]_vars PROVE TypeOK'
<1> USE DEF TypeOK
<1>1. ASSUME Accept \/ Release \/ Connected \/ Accepted \/ GiveUp \/ ParentCloses
      PROVE  TypeOK'
  <2>1. SessionTypes'
    BY <1>1 DEF Accept, Release, Connected, Accepted, GiveUp, ParentCloses, SessionTypes, Phases, Goto
  <2>2. RelayTypes' /\ QueueTypes' /\ PeerTypes'
    BY <1>1 DEF Accept, Release, Connected, Accepted, GiveUp, ParentCloses, RelayTypes, QueueTypes, PeerTypes
  <2> QED BY <2>1, <2>2
<1>2. ASSUME Reply
      PROVE  TypeOK'
  <2>1. SessionTypes'
    BY <1>2 DEF Reply, SessionTypes, Phases, Goto
  <2>2. RelayTypes' /\ QueueTypes' /\ PeerTypes'
    BY <1>2 DEF Reply, RelayTypes, QueueTypes, PeerTypes, Both
  <2> QED BY <2>1, <2>2
<1>3. ASSUME NEW r \in Requests, ToConnect(r) \/ ToBind(r) \/ Reject(r) \/ Drop(r)
      PROVE  TypeOK'
  <2>1. RelayTypes' /\ QueueTypes' /\ PeerTypes'
    BY <1>3 DEF ToConnect, ToBind, Permitted, Reject, Drop, RelayTypes, QueueTypes, PeerTypes
  <2>2. Asked(r) \subseteq Addrs
    BY RequestsAssumption DEF Asked, RequestType
  <2>3. SessionTypes'
    BY <1>3, <2>2 DEF Endpoint, ToConnect, ToBind, Permitted, Reject, Drop, SessionTypes, Phases, Goto
  <2> QED BY <2>1, <2>3
<1>4. ASSUME ChangeRules
      PROVE  TypeOK'
  BY <1>4 DEF ChangeRules, SessionTypes, RelayTypes, QueueTypes, PeerTypes
<1>5. ASSUME NEW x \in Sides, ReadSome(x)
      PROVE  TypeOK'
  <2>1. SessionTypes' /\ PeerTypes'
    BY <1>5 DEF ReadSome, SessionTypes, PeerTypes
  <2>2. Length(x) \in 1..MaxLength /\ Length(x) \in 1..Len(inq[x])
    BY <1>5, ReadSize
  <2>3. RelayTypes'
    <3>1. \A i \in 1..Length(x) : inq[x][i] \in Unit
      BY <2>2, QueueType, ElementOfSeq
    <3>2. [i \in 1..MaxLength |-> IF i <= Length(x) THEN inq[x][i] ELSE buf[x][i]]
            \in [1..MaxLength -> Unit]
      BY <2>2, <3>1, Sizes DEF RelayTypes
    <3>3. buf' \in [Sides -> [1..MaxLength -> Unit]]
      BY <1>5, <3>2 DEF ReadSome, RelayTypes
    <3>4. <<1, Length(x)>> \in (1..(MaxLength + 1)) \X (0..MaxLength)
      BY <2>2, Sizes
    <3>5. left' \in [Sides -> (1..(MaxLength + 1)) \X (0..MaxLength)]
      BY <1>5, <3>4 DEF ReadSome, RelayTypes
    <3>6. reading' \in [Sides -> BOOLEAN] /\ shut' \in [Sides -> BOOLEAN]
      BY <1>5 DEF ReadSome, RelayTypes, ReadsOn
    <3> QED BY <3>3, <3>5, <3>6 DEF RelayTypes
  <2>4. QueueTypes'
    <3> DEFINE rest == SubSeq(inq[x], Length(x) + 1, Len(inq[x]))
    <3>1. rest \in Seq(Unit) /\ Len(rest) = Len(inq[x]) - Length(x)
      BY <2>2, Taken, QueueType
    <3>2. Len(rest) <= Cap
      BY <2>2, <3>1, QueueType, Sizes
    <3>3. inq' = [inq EXCEPT ![x] = rest] /\ outq' = outq
      BY <1>5 DEF ReadSome
    <3> HIDE DEF rest
    <3> QED BY <3>1, <3>2, <3>3 DEF QueueTypes
  <2> QED BY <2>1, <2>3, <2>4
<1>6. ASSUME NEW x \in Sides, ReadEof(x) \/ EofThrows(x) \/ ReadError(x)
      PROVE  TypeOK'
  <2>1. QueueTypes' /\ PeerTypes'
    BY <1>6 DEF ReadEof, EofThrows, ReadError, QueueTypes, PeerTypes
  <2>2. SessionTypes'
    BY <1>6 DEF ReadEof, EofThrows, ReadError, SessionTypes, Goto, Phases
  <2>3. RelayTypes'
    BY <1>6, OtherSide DEF ReadEof, EofThrows, ReadError, RelayTypes, Stop
  <2> QED BY <2>1, <2>2, <2>3
<1>7. ASSUME NEW x \in Sides, WriteSome(x)
      PROVE  TypeOK'
  <2> DEFINE y == Other(x)
             n == Min(Room(y), left[x][2] - left[x][1] + 1)
             next == left[x][1] + n
             piece == SubSeq(buf[x], left[x][1], next - 1)
  <2>1. SessionTypes' /\ PeerTypes'
    BY <1>7 DEF WriteSome, SessionTypes, PeerTypes
  <2>2. n \in 1..(left[x][2] - left[x][1] + 1) /\ n + Len(outq[y]) <= Cap
    BY <1>7, WriteSize
  <2>3. left[x][1] \in 1..(MaxLength + 1) /\ left[x][2] \in 0..MaxLength
    BY LeftType
  <2>4. y \in Sides
    BY OtherSide
  <2>5. /\ outq' = [outq EXCEPT ![y] = @ \o piece] /\ inq' = inq
        /\ left' = [left EXCEPT ![x][1] = next] /\ shut' = shut
        /\ (buf' = [buf EXCEPT ![x] = Empty] /\ reading' = [reading EXCEPT ![x] = TRUE])
             \/ UNCHANGED <<buf, reading>>
    BY <1>7 DEF WriteSome, ReadsAgain
  <2> HIDE DEF n, y
  <2>6. left[x][1] \in 1..MaxLength /\ next - 1 \in left[x][1]..MaxLength /\ next \in 1..(MaxLength + 1)
    <3>1. MaxLength \in Nat
      BY Sizes
    <3> DEFINE a == left[x][1]
               b == left[x][2]
    <3>2. a \in 1..(MaxLength + 1) /\ b \in 0..MaxLength /\ n \in 1..(b - a + 1)
      BY <2>2, <2>3
    <3> HIDE DEF a, b
    <3>3. a \in 1..MaxLength /\ (a + n) - 1 \in a..MaxLength /\ a + n \in 1..(MaxLength + 1)
      BY <3>1, <3>2
    <3> QED BY <3>3 DEF a
  <2>7. RelayTypes'
    <3>1. left' \in [Sides -> (1..(MaxLength + 1)) \X (0..MaxLength)]
      BY <2>5, <2>6 DEF RelayTypes
    <3>2. Empty \in [1..MaxLength -> Unit]
      BY UnitNat DEF Empty, Unit
    <3> QED BY <2>5, <3>1, <3>2 DEF RelayTypes
  <2>8. QueueTypes'
    <3>1. piece \in Seq(Unit) /\ Len(piece) = next - 1 - left[x][1] + 1
      BY <2>6, Piece
    <3> HIDE DEF piece
    <3>2. Len(piece) = n
      BY <2>2, <2>3, <3>1
    <3>3. outq[y] \in Seq(Unit) /\ Len(outq[y]) \in 0..Cap
      BY <2>4, QueueType
    <3>4. outq[y] \o piece \in Seq(Unit) /\ Len(outq[y] \o piece) = Len(outq[y]) + Len(piece)
      BY <3>1, <3>3, ConcatProperties
    <3>5. Len(outq[y] \o piece) <= Cap
      BY <2>2, <3>2, <3>3, <3>4
    <3> QED BY <2>4, <2>5, <3>4, <3>5 DEF QueueTypes
  <2> QED BY <2>1, <2>7, <2>8
<1>8. ASSUME NEW x \in Sides, WriteError(x)
      PROVE  TypeOK'
  <2>1. Done \in (1..(MaxLength + 1)) \X (0..MaxLength)
    BY Sizes DEF Done
  <2> QED BY <1>8, <2>1 DEF WriteError, SessionTypes, RelayTypes, QueueTypes, PeerTypes
<1>9. ASSUME NEW x \in Sides, Send(x)
      PROVE  TypeOK'
  <2>1. sent[x] + 1 \in Unit
    BY <1>9, NextUnit DEF Send, PeerTypes
  <2>2. SessionTypes' /\ RelayTypes' /\ PeerTypes'
    BY <1>9, <2>1 DEF Send, SessionTypes, RelayTypes, PeerTypes
  <2>3. Append(inq[x], sent[x] + 1) \in Seq(Unit) /\ Len(Append(inq[x], sent[x] + 1)) <= Cap
    BY <1>9, <2>1, QueueType, AppendProperties, Sizes DEF Send
  <2>4. QueueTypes'
    BY <1>9, <2>3 DEF Send, QueueTypes
  <2> QED BY <2>2, <2>4
<1>10. ASSUME NEW x \in Sides, SendNoMore(x) \/ Reset(x)
       PROVE  TypeOK'
  <2>1. <<>> \in Seq(Unit) /\ Len(<<>>) <= Cap
    BY Sizes
  <2>2. SessionTypes' /\ RelayTypes' /\ PeerTypes'
    BY <1>10 DEF SendNoMore, Reset, SessionTypes, RelayTypes, PeerTypes
  <2>3. QueueTypes'
    BY <1>10, <2>1 DEF SendNoMore, Reset, QueueTypes
  <2> QED BY <2>2, <2>3
<1>11. ASSUME NEW x \in Sides, Receive(x)
       PROVE  TypeOK'
  <2>1. outq[x] \in Seq(Unit) /\ outq[x] # <<>> /\ Len(outq[x]) \in 0..Cap /\ got[x] \in Seq(Unit)
    BY <1>11, QueueType DEF Receive, PeerTypes
  <2>2. Head(outq[x]) \in Unit /\ Tail(outq[x]) \in Seq(Unit) /\ Len(Tail(outq[x])) <= Cap
    BY <2>1, HeadTailProperties, Sizes
  <2>3. Append(got[x], Head(outq[x])) \in Seq(Unit)
    BY <2>1, <2>2, AppendProperties
  <2> QED BY <1>11, <2>2, <2>3 DEF Receive, SessionTypes, RelayTypes, QueueTypes, PeerTypes
<1>12. CASE UNCHANGED vars
  BY <1>12 DEF vars, SessionTypes, RelayTypes, QueueTypes, PeerTypes
<1> QED BY <1>1, <1>2, <1>3, <1>4, <1>5, <1>6, <1>7, <1>8, <1>9, <1>10, <1>11, <1>12
        DEF Next, Session, Request, Chain

\* Every variable of a session keeps its type, and no buffer and no queue ever
\* holds more than it can, whatever the sizes.
THEOREM TypeCorrect == Spec => []TypeOK
<1>1. Init => TypeOK
  BY InitTypes
<1>2. TypeOK /\ [Next]_vars => TypeOK'
  BY NextTypes
<1> QED BY <1>1, <1>2, PTL DEF Spec

-----------------------------------------------------------------------------
(* Whom a session connects.                                                *)

\* Something has been sent on to a peer.
Data == \E x \in Sides : outq[x] # <<>> \/ got[x] # <<>>

\* socks.conf lets command c, number cd, have the address a, which the request names.
Lets(cd, c, a) == asked.cd = cd /\ pass_firewall(c, a) /\ a \in Asked(asked)

\* While the session connects, the address it connects to is permitted; from the
\* connection on the address of the peer is, and before that no data passes.
FirewallInv == /\ phase = "connect" => Lets(1, "c", dst)
               /\ phase = "bind" => Lets(2, "b", dst)
               /\ phase \in {"reply", "relay"} \/ Data => Lets(1, "c", peer) \/ Lets(2, "b", dst)
               /\ Data => phase \in {"relay", "over"}

\* The steps that read or write a queue from or to a peer add no data, unless the
\* session relays.
LEMMA DataNext ==
  ASSUME TypeOK, NEW x \in Sides,
         Chain(x) \/ Send(x) \/ SendNoMore(x) \/ Reset(x) \/ Receive(x)
  PROVE  /\ UNCHANGED <<rules, target>>
         /\ phase' \in {phase, "over"}
         /\ Data' => Data \/ phase' = "relay"
<1>1. CASE ReadSome(x) \/ ReadEof(x) \/ EofThrows(x) \/ ReadError(x) \/ WriteError(x)
  BY <1>1 DEF ReadSome, ReadEof, EofThrows, ReadError, WriteError, Goto, Data
<1>2. CASE WriteSome(x)
  BY <1>2 DEF WriteSome
<1>3. CASE Send(x) \/ SendNoMore(x)
  BY <1>3 DEF Send, SendNoMore, Data
<1>4. CASE Reset(x)
  <2>1. \A y \in Sides : outq'[y] # <<>> => outq[y] # <<>>
    BY <1>4 DEF Reset, TypeOK, QueueTypes
  <2> QED BY <1>4, <2>1 DEF Reset, Data
<1>5. CASE Receive(x)
  BY <1>5 DEF Receive, Data
<1> QED BY <1>1, <1>2, <1>3, <1>4, <1>5 DEF Chain

\* Every step keeps it.
LEMMA FirewallStep == ASSUME TypeOK, FirewallInv, [Next]_vars PROVE FirewallInv'
<1>1. CASE Accept \/ GiveUp \/ Reply \/ Release \/ ParentCloses
  BY <1>1 DEF Accept, GiveUp, Reply, Release, ParentCloses, Goto, FirewallInv, Lets, Data,
              pass_firewall
<1>2. CASE Connected
  BY <1>2 DEF Connected, Goto, FirewallInv, Lets, Data, pass_firewall
<1>3. CASE Accepted
  BY <1>3 DEF Accepted, Goto, FirewallInv, Lets, Data, pass_firewall
<1>4. CASE ChangeRules
  BY <1>4 DEF ChangeRules, FirewallInv, Data
<1>5. ASSUME NEW r \in Requests, ToConnect(r) \/ ToBind(r) \/ Reject(r) \/ Drop(r)
      PROVE  FirewallInv'
  <2>1. phase = "request" /\ ~Data' /\ phase' \in {"connect", "bind", "reject", "over"}
    BY <1>5 DEF ToConnect, ToBind, Permitted, Reject, Drop, ReadRequest, Goto, FirewallInv, Data
  <2>2. phase' = "connect" => Lets(1, "c", dst)'
    BY <1>5 DEF ToConnect, ToBind, Permitted, Reject, Drop, Goto, Command, Endpoint, Lets,
                pass_firewall
  <2>3. phase' = "bind" => Lets(2, "b", dst)'
    BY <1>5 DEF ToConnect, ToBind, Permitted, Reject, Drop, Goto, Command, Endpoint, Lets,
                pass_firewall
  <2> QED BY <2>1, <2>2, <2>3 DEF FirewallInv
<1>6. ASSUME NEW x \in Sides, Chain(x) \/ Send(x) \/ SendNoMore(x) \/ Reset(x) \/ Receive(x)
      PROVE  FirewallInv'
  BY <1>6, DataNext DEF FirewallInv, Lets, pass_firewall
<1>7. CASE UNCHANGED vars
  BY <1>7 DEF vars, FirewallInv, Lets, Data, pass_firewall
<1> QED BY <1>1, <1>2, <1>3, <1>4, <1>5, <1>6, <1>7 DEF Next, Session, Request

\* For any rules, requests and names: data passes the proxy only for a request that
\* socks.conf permitted, and with CONNECT only to and from the address it permitted.
THEOREM RelaysOnlyPermitted == Spec => []RelayPermitted
<1>1. Init => FirewallInv
  BY DEF Init, FirewallInv, Data, Both
<1>2. TypeOK /\ FirewallInv /\ [Next]_vars => FirewallInv'
  BY FirewallStep
<1>3. FirewallInv => RelayPermitted
  BY DEF FirewallInv, RelayPermitted, Lets, Data
<1> QED BY <1>1, <1>2, <1>3, TypeCorrect, PTL DEF Spec

-----------------------------------------------------------------------------
(* What is relayed.                                                        *)

\* What is still to be written of the buffer of side x.
Rest(x) == left[x][2] - left[x][1] + 1

\* A direction from the oldest to the youngest unit: received, on the way to the
\* receiver, the w units of the buffer from index f on, on the way to the proxy.
\* Once the receiver is gone only what it received counts.
InLine(received, out, b, f, w, in, all, gone) ==
  LET g == Len(received)
      o == Len(out)
  IN /\ g + o <= all
     /\ \A i \in 1..g : received[i] = i
     /\ gone => out = <<>>
     /\ ~gone => /\ \A i \in 1..o : out[i] = g + i
                 /\ \A i \in 1..w : b[f + i - 1] = g + o + i
                 /\ \A i \in 1..Len(in) : in[i] = g + o + w + i
                 /\ g + o + w + Len(in) = all

\* What side x sent is in order.
Order(x) == LET y == Other(x)
            IN /\ Rest(x) \in Nat
               /\ InLine(got[y], outq[y], buf[x], left[x][1], Rest(x), inq[x], sent[x], reset[y])

\* Nothing is read into a buffer that is being written, nor before the relay.
Alternate(x) == /\ reading[x] => Rest(x) = 0
                /\ phase \notin {"relay", "over"} => Rest(x) = 0

\* While no connection is reset: the end is passed on when there is no more to
\* come and nothing left to write, and no chain stops before that.
Ends(x) ==
  (\A y \in Sides : ~reset[y]) =>
    /\ shut[Other(x)] => fin[x] /\ inq[x] = <<>> /\ Rest(x) = 0
    /\ phase = "relay" /\ ~reading[x] /\ Rest(x) = 0 => shut[Other(x)]
    /\ phase = "over" /\ replies # <<>> /\ replies[1] = 90 => shut[Other(x)]

\* Nothing is replied before the request is judged.
Judged == /\ phase \in {"accept", "request", "connect"} => replies = <<>>
          /\ phase = "reject" => replies = <<91>>

RelayInv == Judged /\ \A x \in Sides : Order(x) /\ Alternate(x) /\ Ends(x)

\* What the order is about is typed.
LEMMA OrderTypes ==
  ASSUME TypeOK, NEW x \in Sides
  PROVE  LET y == Other(x)
         IN /\ y \in Sides /\ sent[x] \in Nat /\ reset[y] \in BOOLEAN
            /\ got[y] \in Seq(Unit) /\ outq[y] \in Seq(Unit) /\ inq[x] \in Seq(Unit)
            /\ Len(got[y]) \in Nat /\ Len(outq[y]) \in Nat /\ Len(inq[x]) \in Nat
            /\ left[x][1] \in 1..(MaxLength + 1) /\ left[x][2] \in 0..MaxLength
            /\ MaxLength \in Nat
<1>1. Other(x) \in Sides /\ RelayTypes /\ QueueTypes /\ PeerTypes
  BY OtherSide DEF TypeOK
<1>2. /\ got[Other(x)] \in Seq(Unit) /\ sent[x] \in Nat /\ reset[Other(x)] \in BOOLEAN
  BY <1>1, UnitNat DEF PeerTypes
<1>3. Len(got[Other(x)]) \in Nat
  BY <1>2, LenProperties
<1>4. inq[x] \in Seq(Unit) /\ Len(inq[x]) \in Nat /\ outq[Other(x)] \in Seq(Unit) /\ Len(outq[Other(x)]) \in Nat
  BY <1>1, QueueType, Sizes
<1>5. left[x][1] \in 1..(MaxLength + 1) /\ left[x][2] \in 0..MaxLength /\ MaxLength \in Nat
  BY <1>1, LeftType, Sizes
<1> QED BY <1>1, <1>2, <1>3, <1>4, <1>5

\* A step that leaves alone all that direction x is made of keeps its order.
LEMMA OrderKept ==
  ASSUME NEW x \in Sides, Order(x),
         left'[x] = left[x], buf'[x] = buf[x], inq'[x] = inq[x], sent'[x] = sent[x],
         outq'[Other(x)] = outq[Other(x)], got'[Other(x)] = got[Other(x)],
         reset'[Other(x)] = reset[Other(x)]
  PROVE  Order(x)'
  BY DEF Order, Rest

\* Buffer c starts with the first k units of the queue.
Copied(c, in, k) == \A i \in 1..k : c[i] = in[i]

\* The queue without its first k units.
After(in, k) == SubSeq(in, k + 1, Len(in))

\* Reading k units into an empty buffer keeps a direction in line.
LEMMA LineRead ==
  ASSUME NEW r \in Seq(Unit), NEW o \in Seq(Unit), NEW b, NEW f, NEW in \in Seq(Unit),
         NEW all \in Nat, NEW gone \in BOOLEAN, InLine(r, o, b, f, 0, in, all, gone),
         NEW k \in 1..Len(in), NEW c, Copied(c, in, k)
  PROVE  InLine(r, o, c, 1, k, After(in, k), all, gone)
<1> DEFINE rest == After(in, k)
<1>1. Len(rest) = Len(in) - k /\ \A i \in 1..Len(rest) : rest[i] = in[k + i]
  BY Taken DEF After
<1> HIDE DEF rest
<1>2. Len(r) \in Nat /\ Len(o) \in Nat /\ Len(in) \in Nat
  BY LenProperties
<1>3. \A i \in 1..k : c[1 + i - 1] = in[i]
  BY <1>2 DEF Copied
<1>4. ASSUME ~gone
      PROVE  /\ \A i \in 1..k : c[1 + i - 1] = Len(r) + Len(o) + i
             /\ \A i \in 1..Len(rest) : rest[i] = Len(r) + Len(o) + k + i
             /\ Len(r) + Len(o) + k + Len(rest) = all
  <2>1. \A i \in 1..Len(in) : in[i] = Len(r) + Len(o) + 0 + i
    BY <1>4 DEF InLine
  <2>2. Len(r) + Len(o) + 0 + Len(in) = all
    BY <1>4 DEF InLine
  <2>3. \A i \in 1..k : c[1 + i - 1] = Len(r) + Len(o) + i
    BY <1>2, <1>3, <2>1
  <2>4. \A i \in 1..Len(rest) : rest[i] = Len(r) + Len(o) + k + i
    BY <1>1, <1>2, <2>1
  <2>5. k + Len(rest) = Len(in)
    BY <1>1, <1>2
  <2>6. Len(r) + Len(o) + k + Len(rest) = Len(r) + Len(o) + 0 + Len(in)
    <3>1. ASSUME NEW a \in Nat, NEW l \in Nat, NEW m, m = l - k
          PROVE  a + k + m = a + 0 + l
      BY <3>1
    <3> QED BY <1>1, <1>2, <3>1
  <2> QED BY <2>2, <2>3, <2>4, <2>6
<1>5. InLine(r, o, c, 1, k, rest, all, gone)
  BY <1>4 DEF InLine
<1> QED BY <1>5 DEF rest

\* Writing the first k of the w units keeps a direction in line.
LEMMA LineWritten ==
  ASSUME NEW r \in Seq(Unit), NEW o \in Seq(Unit), NEW b, NEW f \in Nat, NEW w \in Nat,
         NEW in \in Seq(Unit), NEW all \in Nat, InLine(r, o, b, f, w, in, all, FALSE),
         NEW k \in 1..w, NEW p \in Seq(Unit), Len(p) = k, \A i \in 1..k : p[i] = b[f + i - 1],
         NEW c, k < w => c = b
  PROVE  InLine(r, o \o p, c, f + k, w - k, in, all, FALSE)
<1>1. Len(o \o p) = Len(o) + k
      /\ \A i \in 1..(Len(o) + k) : (o \o p)[i] = IF i <= Len(o) THEN o[i] ELSE p[i - Len(o)]
  BY ConcatProperties
<1>2. Len(r) \in Nat /\ Len(o) \in Nat /\ Len(in) \in Nat
  BY LenProperties
<1>3. /\ Len(r) + Len(o) + w + Len(in) = all /\ \A i \in 1..Len(r) : r[i] = i
      /\ \A i \in 1..Len(o) : o[i] = Len(r) + i
      /\ \A i \in 1..w : b[f + i - 1] = Len(r) + Len(o) + i
      /\ \A i \in 1..Len(in) : in[i] = Len(r) + Len(o) + w + i
  BY DEF InLine
<1>4. \A i \in 1..Len(o \o p) : (o \o p)[i] = Len(r) + i
  <2> SUFFICES ASSUME NEW i \in 1..Len(o \o p) PROVE (o \o p)[i] = Len(r) + i
    OBVIOUS
  <2>1. CASE i <= Len(o)
    BY <1>1, <1>2, <1>3, <2>1
  <2>2. CASE i > Len(o)
    <3>1. i - Len(o) \in 1..k /\ i - Len(o) \in 1..w
      BY <1>1, <1>2, <2>2
    <3>2. (o \o p)[i] = b[f + (i - Len(o)) - 1]
      BY <1>1, <1>2, <2>2, <3>1
    <3>3. (o \o p)[i] = Len(r) + Len(o) + (i - Len(o))
      BY <1>3, <3>1, <3>2
    <3> QED BY <1>2, <3>3
  <2> QED BY <1>1, <1>2, <2>1, <2>2
<1>5. \A i \in 1..(w - k) : c[f + k + i - 1] = Len(r) + Len(o \o p) + i
  <2> SUFFICES ASSUME NEW i \in 1..(w - k) PROVE c[f + k + i - 1] = Len(r) + Len(o \o p) + i
    OBVIOUS
  <2>1. k + i \in 1..w /\ c = b
    OBVIOUS
  <2>2. b[f + (k + i) - 1] = Len(r) + Len(o) + (k + i)
    BY <1>3, <2>1
  <2>3. f + (k + i) - 1 = f + k + i - 1 /\ Len(r) + Len(o) + (k + i) = Len(r) + (Len(o) + k) + i
    BY <1>2
  <2> QED BY <1>1, <2>1, <2>2, <2>3
<1>6. Len(r) + Len(o \o p) + (w - k) = Len(r) + Len(o) + w /\ w - k \in Nat
  <2>1. ASSUME NEW m \in Nat, NEW n \in Nat, NEW l, l = n + k
        PROVE  m + l + (w - k) = m + n + w /\ w - k \in Nat
    BY <2>1
  <2> QED BY <1>1, <1>2, <2>1
<1>7. Len(r) + Len(o \o p) <= all
  BY <1>1, <1>2, <1>3
<1> QED BY <1>3, <1>4, <1>5, <1>6, <1>7 DEF InLine

\* A unit more is sent.
LEMMA LineSent ==
  ASSUME NEW r \in Seq(Unit), NEW o \in Seq(Unit), NEW b, NEW f, NEW w \in Nat,
         NEW in \in Seq(Unit), NEW all \in Nat, NEW gone \in BOOLEAN,
         InLine(r, o, b, f, w, in, all, gone), all + 1 \in Unit
  PROVE  InLine(r, o, b, f, w, Append(in, all + 1), all + 1, gone)
<1>1. /\ Len(Append(in, all + 1)) = Len(in) + 1 /\ Append(in, all + 1)[Len(in) + 1] = all + 1
      /\ \A i \in 1..Len(in) : Append(in, all + 1)[i] = in[i]
  BY AppendProperties
<1>2. Len(r) \in Nat /\ Len(o) \in Nat /\ Len(in) \in Nat
  BY LenProperties
<1>3. ASSUME ~gone
      PROVE  /\ Len(r) + Len(o) + w + Len(in) = all
             /\ \A i \in 1..Len(in) : in[i] = Len(r) + Len(o) + w + i
  BY <1>3 DEF InLine
<1>4. ASSUME ~gone
      PROVE  \A i \in 1..(Len(in) + 1) : Append(in, all + 1)[i] = Len(r) + Len(o) + w + i
  <2> SUFFICES ASSUME NEW i \in 1..(Len(in) + 1)
               PROVE  Append(in, all + 1)[i] = Len(r) + Len(o) + w + i
    OBVIOUS
  <2>1. CASE i \in 1..Len(in)
    BY <1>1, <1>3, <1>4, <2>1
  <2>2. CASE i = Len(in) + 1
    <3>1. all + 1 = Len(r) + Len(o) + w + i
      BY <1>2, <1>3, <1>4, <2>2
    <3> QED BY <1>1, <2>2, <3>1
  <2> QED BY <1>2, <2>1, <2>2
<1>5. Len(r) + Len(o) <= all + 1
  BY <1>2 DEF InLine
<1>6. ASSUME ~gone
      PROVE  Len(r) + Len(o) + w + (Len(in) + 1) = all + 1
  <2>1. Len(r) + Len(o) + w + (Len(in) + 1) = (Len(r) + Len(o) + w + Len(in)) + 1
    BY <1>2
  <2> QED BY <1>3, <1>6, <2>1
<1> QED BY <1>1, <1>4, <1>5, <1>6 DEF InLine

\* The receiver takes the oldest unit that is on the way to it.
LEMMA LineReceived ==
  ASSUME NEW r \in Seq(Unit), NEW o \in Seq(Unit), o # <<>>, NEW b, NEW f, NEW w \in Nat,
         NEW in \in Seq(Unit), NEW all \in Nat, InLine(r, o, b, f, w, in, all, FALSE)
  PROVE  InLine(Append(r, Head(o)), Tail(o), b, f, w, in, all, FALSE)
<1>1. /\ Head(o) \in Unit /\ Tail(o) \in Seq(Unit) /\ Len(Tail(o)) = Len(o) - 1 /\ Head(o) = o[1]
      /\ \A i \in 1..Len(Tail(o)) : Tail(o)[i] = o[i + 1]
  BY HeadTailProperties
<1>2. Len(r) \in Nat /\ Len(o) \in Nat \ {0} /\ Len(in) \in Nat
  BY LenProperties, EmptySeq
<1>3. /\ Len(Append(r, Head(o))) = Len(r) + 1 /\ Append(r, Head(o))[Len(r) + 1] = Head(o)
      /\ \A i \in 1..Len(r) : Append(r, Head(o))[i] = r[i]
  BY <1>1, AppendProperties
<1>4. /\ Len(r) + Len(o) + w + Len(in) = all /\ \A i \in 1..Len(r) : r[i] = i
      /\ \A i \in 1..Len(o) : o[i] = Len(r) + i
      /\ \A i \in 1..w : b[f + i - 1] = Len(r) + Len(o) + i
      /\ \A i \in 1..Len(in) : in[i] = Len(r) + Len(o) + w + i
  BY DEF InLine
<1>5. Head(o) = Len(r) + 1
  BY <1>1, <1>2, <1>4
<1>6. Len(Append(r, Head(o))) + Len(Tail(o)) = Len(r) + Len(o)
  BY <1>1, <1>2, <1>3
<1>7. \A i \in 1..(Len(r) + 1) : Append(r, Head(o))[i] = i
  BY <1>2, <1>3, <1>4, <1>5
<1>8. \A i \in 1..Len(Tail(o)) : Tail(o)[i] = Len(r) + 1 + i
  BY <1>1, <1>2, <1>4
<1>9. Len(r) + Len(o) <= all
  BY <1>2, <1>4
<1> HIDE DEF InLine
<1> QED BY <1>3, <1>4, <1>6, <1>7, <1>8, <1>9 DEF InLine

\* Every step keeps both directions in order.
LEMMA NextOrder == ASSUME TypeOK, RelayInv, [Next]_vars, NEW x \in Sides PROVE Order(x)'
<1> DEFINE y == Other(x)
<1>1. Order(x) /\ Alternate(x)
  BY DEF RelayInv
<1>2. /\ y \in Sides /\ x # y /\ Other(y) = x /\ (\A z \in Sides : z = x \/ z = y)
  BY OtherSide
<1>3. /\ sent[x] \in Nat /\ reset[y] \in BOOLEAN
      /\ got[y] \in Seq(Unit) /\ outq[y] \in Seq(Unit) /\ inq[x] \in Seq(Unit)
      /\ left[x][1] \in Nat /\ left[x][2] \in Nat
  <2>1. left[x][1] \in 1..(MaxLength + 1) /\ left[x][2] \in 0..MaxLength /\ MaxLength \in Nat
    BY OrderTypes
  <2>2. left[x][1] \in Nat /\ left[x][2] \in Nat
    BY <2>1
  <2> QED BY <2>2, OrderTypes
<1>4. Rest(x) \in Nat /\ InLine(got[y], outq[y], buf[x], left[x][1], Rest(x), inq[x], sent[x], reset[y])
  BY <1>1 DEF Order
<1>5. RelayTypes /\ QueueTypes /\ PeerTypes
  BY DEF TypeOK
<1> HIDE DEF y
<1>6. ASSUME UNCHANGED <<left, buf, inq, sent, outq, got, reset>>
      PROVE  Order(x)'
  BY <1>1, <1>6, OrderKept
<1>7. CASE Accept \/ Release \/ Connected \/ Accepted \/ GiveUp \/ ParentCloses \/ Reply \/ ChangeRules
  BY <1>6, <1>7 DEF Accept, Release, Connected, Accepted, GiveUp, ParentCloses, Reply, ChangeRules
<1>8. CASE Request
  BY <1>6, <1>8 DEF Request, ToConnect, ToBind, Permitted, Reject, Drop
<1>9. ASSUME NEW z \in Sides, ReadEof(z) \/ EofThrows(z) \/ ReadError(z) \/ SendNoMore(z)
      PROVE  Order(x)'
  BY <1>6, <1>9 DEF ReadEof, EofThrows, ReadError, SendNoMore
<1>10. ASSUME NEW z \in Sides, ReadSome(z)
       PROVE  Order(x)'
  <2>1. CASE z # x
    BY <1>1, <1>5, <1>10, <2>1, OrderKept DEF ReadSome, RelayTypes, QueueTypes
  <2>2. CASE z = x
    <3> DEFINE n == Length(x)
    <3>1. /\ inq'[x] = SubSeq(inq[x], n + 1, Len(inq[x])) /\ left'[x] = <<1, n>>
          /\ buf'[x] = [i \in 1..MaxLength |-> IF i <= n THEN inq[x][i] ELSE buf[x][i]]
          /\ UNCHANGED <<got, outq, sent, reset>>
      BY <1>5, <1>10, <2>2 DEF ReadSome, RelayTypes, QueueTypes
    <3>2. n \in 1..MaxLength /\ n \in 1..Len(inq[x]) /\ MaxLength \in Nat
      BY <1>10, <2>2, ReadSize, Sizes
    <3>3. Rest(x) = 0
      BY <1>1, <1>10, <2>2 DEF Alternate, ReadSome
    <3> HIDE DEF n
    <3>4. Copied(buf'[x], inq[x], n)
      BY <3>1, <3>2 DEF Copied
    <3>5. InLine(got[y], outq[y], buf'[x], 1, n, inq'[x], sent[x], reset[y])
      <4>1. InLine(got[y], outq[y], buf[x], left[x][1], 0, inq[x], sent[x], reset[y])
        BY <1>4, <3>3
      <4>2. n \in 1..Len(inq[x])
        BY <3>2
      <4>3. /\ got[y] \in Seq(Unit) /\ outq[y] \in Seq(Unit) /\ inq[x] \in Seq(Unit)
            /\ sent[x] \in Nat /\ reset[y] \in BOOLEAN
        BY <1>3
      <4>4. inq'[x] = After(inq[x], n)
        BY <3>1 DEF After
      <4> QED BY <3>4, <4>1, <4>2, <4>3, <4>4, LineRead
    <3>6. left'[x][1] = 1 /\ Rest(x)' = n /\ n \in Nat
      BY <3>1, <3>2 DEF Rest
    <3> QED BY <3>1, <3>5, <3>6 DEF Order, y
  <2> QED BY <2>1, <2>2
<1>11. ASSUME NEW z \in Sides, WriteSome(z)
       PROVE  Order(x)'
  <2>1. CASE z # x
    <3>1. z = y /\ Other(z) = x
      BY <1>2, <2>1
    <3> QED BY <1>1, <1>2, <1>5, <1>11, <3>1, OrderKept DEF WriteSome, RelayTypes, QueueTypes, y
  <2>2. CASE z = x
    <3> DEFINE n == Min(Room(y), left[x][2] - left[x][1] + 1)
               e == (left[x][1] + n) - 1
               piece == SubSeq(buf[x], left[x][1], e)
    <3>1. n \in 1..Rest(x) /\ Rest(x) = left[x][2] - left[x][1] + 1
      BY <1>11, <2>2, WriteSize DEF Rest, y
    <3>2. /\ outq' = [outq EXCEPT ![y] = @ \o piece]
          /\ left' = [left EXCEPT ![x][1] = left[x][1] + n]
          /\ left[x][1] + n > left[x][2] \/ buf' = buf
          /\ UNCHANGED <<inq, got, sent, reset>> /\ ~reset[y]
      <4>1. outq' = [outq EXCEPT ![y] = @ \o piece]
        BY <1>11, <2>2 DEF WriteSome, y
      <4>4. left' = [left EXCEPT ![x][1] = left[x][1] + n]
        BY <1>11, <2>2 DEF WriteSome, y
      <4>2. left[x][1] + n > left[x][2] \/ buf' = buf
        BY <1>11, <2>2 DEF WriteSome, y
      <4>3. UNCHANGED <<inq, got, sent, reset>> /\ ~reset[y]
        BY <1>11, <2>2 DEF WriteSome, y
      <4> QED BY <4>1, <4>2, <4>3, <4>4
    <3> HIDE DEF n
    <3>3. left[x][1] \in 1..MaxLength /\ e \in left[x][1]..MaxLength
      <4>1. left[x][1] \in 1..(MaxLength + 1) /\ left[x][2] \in 0..MaxLength /\ MaxLength \in Nat
        BY OrderTypes
      <4> QED BY <3>1, <4>1
    <3>4. piece \in Seq(Unit) /\ Len(piece) = n /\ \A i \in 1..n : piece[i] = buf[x][left[x][1] + i - 1]
      <4>1. (e - left[x][1]) + 1 = n
        BY <1>3, <1>4, <3>1
      <4> HIDE DEF e
      <4>2. /\ piece \in Seq(Unit) /\ Len(piece) = (e - left[x][1]) + 1
            /\ \A i \in 1..Len(piece) : piece[i] = buf[x][left[x][1] + i - 1]
        BY <1>5, <3>3, Piece
      <4> HIDE DEF piece
      <4> QED BY <4>1, <4>2
    <3> HIDE DEF piece
    <3>5. /\ outq'[y] = outq[y] \o piece
          /\ left'[x][1] = left[x][1] + n /\ left'[x][2] = left[x][2]
      <4>1. left[x] \in (1..(MaxLength + 1)) \X (0..MaxLength) /\ x \in DOMAIN left /\ y \in DOMAIN outq
        BY <1>2, <1>5 DEF RelayTypes, QueueTypes
      <4> QED BY <3>2, <4>1
    <3>6. Rest(x)' = Rest(x) - n /\ Rest(x) - n \in Nat
      <4>1. ASSUME NEW a \in Nat, NEW b \in Nat
            PROVE  (b - (a + n)) + 1 = ((b - a) + 1) - n
        BY <3>1, <1>4
      <4>2. Rest(x)' = (left[x][2] - (left[x][1] + n)) + 1
        BY <3>5 DEF Rest
      <4> QED BY <1>3, <1>4, <3>1, <4>1, <4>2
    <3>7. n < Rest(x) => buf'[x] = buf[x]
      BY <1>3, <3>1, <3>2
    <3>8. InLine(got[y], outq[y] \o piece, buf'[x], left[x][1] + n, Rest(x) - n, inq[x], sent[x], FALSE)
      <4>1. InLine(got[y], outq[y], buf[x], left[x][1], Rest(x), inq[x], sent[x], FALSE)
        BY <1>3, <1>4, <3>2
      <4> QED BY <1>3, <1>4, <3>1, <3>4, <3>7, <4>1, LineWritten
    <3>9. reset'[y] = FALSE
      BY <1>3, <3>2
    <3> QED BY <3>2, <3>5, <3>6, <3>8, <3>9 DEF Order, y
  <2> QED BY <2>1, <2>2
<1>12. ASSUME NEW z \in Sides, WriteError(z)
       PROVE  Order(x)'
  <2>1. CASE z # x
    BY <1>1, <1>5, <1>12, <2>1, OrderKept DEF WriteError, RelayTypes
  <2>2. CASE z = x
    <3>1. left'[x] = <<1, 0>> /\ reset[y] /\ UNCHANGED <<inq, outq, got, sent, reset, buf>>
      BY <1>5, <1>12, <2>2 DEF WriteError, RelayTypes, Done, y
    <3>2. Rest(x)' = 0 /\ Rest(x)' \in Nat
      BY <3>1 DEF Rest
    <3>3. InLine(got[y], outq[y], buf[x], left'[x][1], 0, inq[x], sent[x], reset[y])
      BY <1>4, <3>1 DEF InLine
    <3>4. UNCHANGED <<inq, outq, got, sent, reset, buf>>
      BY <3>1
    <3> QED BY <3>2, <3>3, <3>4 DEF Order, y
  <2> QED BY <2>1, <2>2
<1>13. ASSUME NEW z \in Sides, Send(z)
       PROVE  Order(x)'
  <2>1. CASE z # x
    BY <1>1, <1>5, <1>13, <2>1, OrderKept DEF Send, PeerTypes, QueueTypes
  <2>2. CASE z = x
    <3>1. /\ inq'[x] = Append(inq[x], sent[x] + 1) /\ sent'[x] = sent[x] + 1
          /\ UNCHANGED <<left, buf, outq, got, reset>>
      BY <1>5, <1>13, <2>2 DEF Send, PeerTypes, QueueTypes
    <3>2. sent[x] + 1 \in Unit
      BY <1>5, <1>13, <2>2, NextUnit DEF Send, PeerTypes
    <3>3. InLine(got[y], outq[y], buf[x], left[x][1], Rest(x), inq'[x], sent'[x], reset[y])
      BY <1>3, <1>4, <3>1, <3>2, LineSent
    <3>4. Rest(x)' = Rest(x)
      BY <3>1 DEF Rest
    <3> QED BY <1>4, <3>1, <3>3, <3>4 DEF Order, y
  <2> QED BY <2>1, <2>2
<1>14. ASSUME NEW z \in Sides, Reset(z)
       PROVE  Order(x)'
  <2>1. CASE z # y
    <3>1. /\ outq'[y] = outq[y] /\ reset'[y] = reset[y]
          /\ UNCHANGED <<left, buf, inq, got, sent>>
      BY <1>2, <1>5, <1>14, <2>1 DEF Reset, PeerTypes, QueueTypes
    <3> QED BY <1>1, <3>1, OrderKept DEF y
  <2>2. CASE z = y
    <3> DEFINE none == <<>>
    <3>1. outq'[y] = none /\ reset'[y] = TRUE /\ UNCHANGED <<left, buf, inq, got, sent>>
      BY <1>5, <1>14, <2>2 DEF Reset, PeerTypes, QueueTypes
    <3>2. InLine(got[y], none, buf[x], left[x][1], Rest(x), inq[x], sent[x], TRUE)
      <4>1. \A i \in 1..Len(got[y]) : got[y][i] = i
        BY <1>4 DEF InLine
      <4>2. Len(got[y]) + Len(outq[y]) <= sent[x]
        BY <1>4 DEF InLine
      <4>3. Len(got[y]) \in Nat /\ Len(outq[y]) \in Nat /\ Len(none) = 0 /\ sent[x] \in Nat
        BY OrderTypes DEF y
      <4>4. none = <<>>
        OBVIOUS
      <4> HIDE DEF none
      <4>5. Len(got[y]) + Len(none) <= sent[x]
        <5>1. ASSUME NEW a \in Nat, NEW b \in Nat, NEW c \in Nat, NEW d, d = 0, a + b <= c
              PROVE  a + d <= c
          BY <5>1
        <5> QED BY <4>2, <4>3, <5>1
      <4> QED BY <4>1, <4>4, <4>5 DEF InLine
    <3>3. Rest(x)' = Rest(x)
      BY <3>1 DEF Rest
    <3> QED BY <1>4, <3>1, <3>2, <3>3 DEF Order, y
  <2> QED BY <2>1, <2>2
<1>15. ASSUME NEW z \in Sides, Receive(z)
       PROVE  Order(x)'
  <2>1. CASE z # y
    BY <1>1, <1>5, <1>15, <2>1, OrderKept DEF Receive, PeerTypes, QueueTypes, y
  <2>2. CASE z = y
    <3>1. /\ outq'[y] = Tail(outq[y]) /\ got'[y] = Append(got[y], Head(outq[y])) /\ outq[y] # <<>>
          /\ ~reset[y] /\ UNCHANGED <<left, buf, inq, sent, reset>>
      BY <1>5, <1>15, <2>2 DEF Receive, PeerTypes, QueueTypes
    <3>2. InLine(got[y], outq[y], buf[x], left[x][1], Rest(x), inq[x], sent[x], FALSE)
      BY <1>3, <1>4, <3>1
    <3>3. InLine(got'[y], outq'[y], buf[x], left[x][1], Rest(x), inq[x], sent[x], FALSE)
      BY <1>3, <1>4, <3>1, <3>2, LineReceived
    <3>4. Rest(x)' = Rest(x) /\ reset'[y] = FALSE
      BY <1>3, <3>1 DEF Rest
    <3> QED BY <1>4, <3>1, <3>3, <3>4 DEF Order, y
  <2> QED BY <2>1, <2>2
<1>16. CASE UNCHANGED vars
  BY <1>6, <1>16 DEF vars
<1> QED BY <1>7, <1>8, <1>9, <1>10, <1>11, <1>12, <1>13, <1>14, <1>15, <1>16
        DEF Next, Session, Chain

\* Every step keeps what is known of the replies.
LEMMA NextJudged == ASSUME TypeOK, RelayInv, [Next]_vars PROVE Judged'
<1>1. Judged /\ replies \in Seq({90, 91})
  BY DEF RelayInv, TypeOK, SessionTypes
<1>2. CASE Accept \/ GiveUp \/ Reply \/ Release \/ Connected \/ Accepted \/ ParentCloses \/ ChangeRules
  BY <1>1, <1>2 DEF Judged, Accept, GiveUp, Reply, Release, Connected, Accepted, ParentCloses, ChangeRules, Goto
<1>3. ASSUME NEW r \in Requests, ToConnect(r) \/ ToBind(r) \/ Reject(r) \/ Drop(r)
      PROVE  Judged'
  <2>1. ReadRequest => replies = <<>>
    BY <1>1 DEF Judged, ReadRequest
  <2>2. CASE ToConnect(r)
    BY <2>1, <2>2 DEF Judged, ToConnect, Permitted, Goto
  <2>3. CASE ToBind(r) \/ Drop(r)
    BY <2>3 DEF Judged, ToBind, Permitted, Drop, Goto
  <2>4. CASE Reject(r)
    BY <2>1, <2>4 DEF Judged, Reject, Goto
  <2> QED BY <1>3, <2>2, <2>3, <2>4
<1>4. ASSUME NEW x \in Sides, Chain(x)
      PROVE  Judged'
  BY <1>1, <1>4
     DEF Judged, Chain, ReadSome, ReadEof, EofThrows, ReadError, WriteSome, WriteError, Goto
<1>5. ASSUME NEW x \in Sides, Send(x) \/ SendNoMore(x) \/ Reset(x) \/ Receive(x)
      PROVE  Judged'
  BY <1>1, <1>5 DEF Judged, Send, SendNoMore, Reset, Receive
<1>6. CASE UNCHANGED vars
  BY <1>1, <1>6 DEF Judged, vars
<1> QED BY <1>2, <1>3, <1>4, <1>5, <1>6 DEF Next, Session, Request

\* What a write leaves to be written.
LEMMA RestWritten ==
  ASSUME TypeOK, NEW x \in Sides, WriteSome(x)
  PROVE  /\ Rest(x)' \in Nat
         /\ Rest(x)' = 0 => reading'[x]
         /\ Rest(x)' > 0 => reading'[x] = reading[x]
         /\ Rest(x) > 0
         /\ \A z \in Sides : z # x => reading'[z] = reading[z] /\ left'[z] = left[z]
<1> DEFINE n == Min(Room(Other(x)), left[x][2] - left[x][1] + 1)
<1>1. n \in 1..(left[x][2] - left[x][1] + 1)
  BY WriteSize
<1>2. left[x] \in (1..(MaxLength + 1)) \X (0..MaxLength) /\ x \in DOMAIN left /\ x \in DOMAIN reading
  BY DEF TypeOK, RelayTypes
<1>3. left[x][1] \in Nat /\ left[x][2] \in Nat
  BY LeftType, Sizes DEF TypeOK
<1>4. left' = [left EXCEPT ![x][1] = left[x][1] + n]
  BY DEF WriteSome
<1>5. IF left[x][1] + n > left[x][2] THEN reading' = [reading EXCEPT ![x] = TRUE]
                                     ELSE reading' = reading
  BY DEF WriteSome, ReadsAgain
<1> HIDE DEF n
<1>6. left'[x][1] = left[x][1] + n /\ left'[x][2] = left[x][2]
  BY <1>2, <1>4
<1>7. Rest(x)' = (left[x][2] - (left[x][1] + n)) + 1
  BY <1>6 DEF Rest
<1>8. Rest(x)' \in Nat /\ (Rest(x)' = 0 <=> left[x][1] + n > left[x][2])
  BY <1>1, <1>3, <1>7
<1>9. Rest(x) > 0
  BY <1>1, <1>3 DEF Rest
<1>10. \A z \in Sides : z # x => left'[z] = left[z] /\ reading'[z] = reading[z]
  BY <1>4, <1>5 DEF TypeOK, RelayTypes
<1>11. Rest(x)' = 0 => reading'[x]
  BY <1>2, <1>5, <1>8
<1>12. Rest(x)' > 0 => reading'[x] = reading[x]
  BY <1>2, <1>5, <1>8
<1> QED BY <1>8, <1>9, <1>10, <1>11, <1>12

\* Every step keeps the two halves of a chain apart.
LEMMA NextAlternate == ASSUME TypeOK, RelayInv, [Next]_vars, NEW x \in Sides PROVE Alternate(x)'
<1>1. Alternate(x) /\ Rest(x) \in Nat
  BY DEF RelayInv, Order
<1>2. RelayTypes
  BY DEF TypeOK
<1>3. CASE Accept \/ GiveUp \/ Release \/ Connected \/ Accepted \/ ParentCloses \/ ChangeRules
  BY <1>1, <1>3
     DEF Alternate, Rest, Accept, GiveUp, Release, Connected, Accepted, ParentCloses, ChangeRules, Goto
<1>4. CASE Reply
  BY <1>1, <1>4 DEF Alternate, Rest, Reply, Goto
<1>5. CASE Request
  BY <1>1, <1>5
     DEF Alternate, Rest, Request, ToConnect, ToBind, Permitted, Reject, Drop, ReadRequest, Goto
<1>6. ASSUME NEW z \in Sides, ReadEof(z) \/ EofThrows(z) \/ ReadError(z)
      PROVE  Alternate(x)'
  BY <1>1, <1>2, <1>6
     DEF Alternate, Rest, RelayTypes, ReadEof, EofThrows, ReadError, AtEnd, Stop, Goto
<1>7. ASSUME NEW z \in Sides, ReadSome(z)
      PROVE  Alternate(x)'
  <2>1. phase' = "relay" /\ reading'[z] = FALSE
    BY <1>2, <1>7 DEF ReadSome, ReadsOn, RelayTypes
  <2>2. x # z => reading'[x] = reading[x] /\ left'[x] = left[x]
    BY <1>2, <1>7 DEF ReadSome, RelayTypes
  <2> QED BY <1>1, <2>1, <2>2 DEF Alternate, Rest
<1>8. ASSUME NEW z \in Sides, WriteSome(z)
      PROVE  Alternate(x)'
  <2>1. phase' = "relay"
    BY <1>8 DEF WriteSome
  <2>2. CASE x # z
    BY <1>1, <1>8, <2>1, <2>2, RestWritten DEF Alternate, Rest
  <2>3. CASE x = z
    <3>1. Rest(x) > 0 /\ Rest(x)' \in Nat /\ (Rest(x)' > 0 => reading'[x] = reading[x])
      BY <1>8, <2>3, RestWritten
    <3>2. reading[x] = FALSE
      BY <1>1, <1>2, <3>1 DEF Alternate, RelayTypes
    <3> QED BY <2>1, <3>1, <3>2 DEF Alternate
  <2> QED BY <2>2, <2>3
<1>9. ASSUME NEW z \in Sides, WriteError(z)
      PROVE  Alternate(x)'
  <2>1. phase' = "relay" /\ reading' = reading /\ left'[z] = Done /\ (x # z => left'[x] = left[x])
    BY <1>2, <1>9 DEF WriteError, RelayTypes
  <2>2. Done[1] = 1 /\ Done[2] = 0
    BY DEF Done
  <2> QED BY <1>1, <2>1, <2>2 DEF Alternate, Rest
<1>10. ASSUME NEW z \in Sides, Send(z) \/ SendNoMore(z) \/ Reset(z) \/ Receive(z)
       PROVE  Alternate(x)'
  BY <1>1, <1>10 DEF Alternate, Rest, Send, SendNoMore, Reset, Receive
<1>11. CASE UNCHANGED vars
  BY <1>1, <1>11 DEF Alternate, Rest, vars
<1> QED BY <1>3, <1>4, <1>5, <1>6, <1>7, <1>8, <1>9, <1>10, <1>11 DEF Next, Session, Chain

\* A connection that is reset stays so.
LEMMA ResetStays == ASSUME TypeOK, [Next]_vars PROVE \A x \in Sides : reset[x] => reset'[x]
<1>1. reset \in [Sides -> BOOLEAN]
  BY DEF TypeOK, PeerTypes
<1>2. ASSUME NEW z \in Sides, Reset(z)
      PROVE  \A x \in Sides : reset[x] => reset'[x]
  BY <1>1, <1>2 DEF Reset
<1>3. (\E z \in Sides : Reset(z)) \/ reset' = reset
  <2>1. CASE Session \/ Connected \/ Accepted \/ ParentCloses \/ ChangeRules
    BY <2>1 DEF Session, Accept, Request, ToConnect, ToBind, Permitted, Reject, Drop, GiveUp, Reply,
                Release, Connected, Accepted, ParentCloses, ChangeRules
  <2>2. ASSUME NEW z \in Sides, Chain(z)
        PROVE  reset' = reset
    BY <2>2 DEF Chain, ReadSome, ReadEof, EofThrows, ReadError, WriteSome, WriteError
  <2>3. ASSUME NEW z \in Sides, Send(z) \/ SendNoMore(z) \/ Receive(z)
        PROVE  reset' = reset
    BY <2>3 DEF Send, SendNoMore, Receive
  <2>4. CASE UNCHANGED vars
    BY <2>4 DEF vars
  <2> QED BY <2>1, <2>2, <2>3, <2>4 DEF Next
<1> QED BY <1>2, <1>3

\* Every step keeps what is known of the end of a direction.
LEMMA NextEnds == ASSUME TypeOK, RelayInv, [Next]_vars, NEW x \in Sides PROVE Ends(x)'
<1> SUFFICES ASSUME \A y \in Sides : ~reset'[y]
             PROVE  /\ shut'[Other(x)] => fin'[x] /\ inq'[x] = <<>> /\ Rest(x)' = 0
                    /\ phase' = "relay" /\ ~reading'[x] /\ Rest(x)' = 0 => shut'[Other(x)]
                    /\ phase' = "over" /\ replies' # <<>> /\ replies'[1] = 90 => shut'[Other(x)]
  BY DEF Ends
<1> DEFINE y == Other(x)
<1>1. \A z \in Sides : ~reset[z]
  BY ResetStays
<1>2. /\ y \in Sides /\ x # y /\ Other(y) = x /\ (\A z \in Sides : z = x \/ z = y)
  BY OtherSide
<1>3. /\ shut[y] => fin[x] /\ inq[x] = <<>> /\ Rest(x) = 0
      /\ phase = "relay" /\ ~reading[x] /\ Rest(x) = 0 => shut[y]
      /\ phase = "over" /\ replies # <<>> /\ replies[1] = 90 => shut[y]
  BY <1>1 DEF RelayInv, Ends
<1>4. Alternate(x) /\ Rest(x) \in Nat /\ Judged
  BY DEF RelayInv, Order
<1>5. RelayTypes /\ QueueTypes /\ PeerTypes
  BY DEF TypeOK
<1>6. left[x][1] \in Nat /\ left[x][2] \in Nat
  BY LeftType, Sizes DEF TypeOK
<1> DEFINE Goal == /\ shut'[y] => fin'[x] /\ inq'[x] = <<>> /\ Rest(x)' = 0
                   /\ phase' = "relay" /\ ~reading'[x] /\ Rest(x)' = 0 => shut'[y]
                   /\ phase' = "over" /\ replies' # <<>> /\ replies'[1] = 90 => shut'[y]
<1> SUFFICES Goal
  OBVIOUS
<1> HIDE DEF y
<1>7. CASE Accept \/ Connected \/ Accepted \/ ParentCloses \/ ChangeRules
  BY <1>3, <1>7 DEF Accept, Connected, Accepted, ParentCloses, ChangeRules, Goto, Rest
<1>8. CASE GiveUp
  <2>1. phase' = "over" /\ replies' = replies /\ UNCHANGED <<shut, fin, inq, left>>
    BY <1>8 DEF GiveUp, Goto
  <2>2. replies = <<>> \/ replies = <<91>>
    BY <1>1, <1>4, <1>8 DEF GiveUp, Judged
  <2> QED BY <1>3, <2>1, <2>2 DEF Rest
<1>9. CASE Reply
  <2>1. reading'[x] = TRUE
    BY <1>9 DEF Reply, Both
  <2> QED BY <1>3, <1>9, <2>1 DEF Reply, Goto, Rest
<1>10. CASE Release
  <2>1. phase = "relay" /\ ~reading[x] /\ Rest(x) = 0
    BY <1>4, <1>6, <1>10 DEF Release, Writing, Rest
  <2> QED BY <1>3, <1>10, <2>1 DEF Release, Goto, Rest
<1>11. ASSUME NEW r \in Requests, ToConnect(r) \/ ToBind(r) \/ Reject(r) \/ Drop(r)
       PROVE  Goal
  <2>1. UNCHANGED <<shut, fin, inq, left>>
    BY <1>11 DEF ToConnect, ToBind, Permitted, Reject, Drop
  <2>2. phase' \in {"connect", "bind", "reject"} \/ (phase' = "over" /\ replies' = replies)
    BY <1>11 DEF ToConnect, ToBind, Permitted, Reject, Drop, Goto
  <2>3. replies = <<>>
    BY <1>4, <1>11 DEF ToConnect, ToBind, Permitted, Reject, Drop, ReadRequest, Judged
  <2> QED BY <1>3, <2>1, <2>2, <2>3 DEF Rest
<1>12. ASSUME NEW z \in Sides, ReadSome(z)
       PROVE  Goal
  <2>1. phase' = "relay" /\ UNCHANGED <<shut, fin>>
    BY <1>12 DEF ReadSome
  <2>2. CASE z # x
    <3>1. inq'[x] = inq[x] /\ left'[x] = left[x] /\ reading'[x] = reading[x] /\ phase = "relay"
      BY <1>5, <1>12, <2>2 DEF ReadSome, RelayTypes, QueueTypes
    <3> QED BY <1>3, <2>1, <3>1 DEF Rest
  <2>3. CASE z = x
    <3>1. Length(x) \in 1..MaxLength /\ Length(x) \in 1..Len(inq[x])
      BY <1>12, <2>3, ReadSize
    <3>2. inq[x] # <<>>
      BY <3>1
    <3>3. left'[x] = <<1, Length(x)>>
      BY <1>5, <1>12, <2>3 DEF ReadSome, RelayTypes
    <3>4. Rest(x)' = Length(x) /\ Rest(x)' # 0
      BY <3>1, <3>3, Sizes DEF Rest
    <3> QED BY <1>3, <2>1, <3>2, <3>4
  <2> QED BY <2>2, <2>3
<1>13. ASSUME NEW z \in Sides, ReadEof(z)
       PROVE  Goal
  <2>1. phase = "relay" /\ phase' = "relay" /\ UNCHANGED <<fin, inq, left>>
    BY <1>13 DEF ReadEof, AtEnd
  <2>2. CASE z = x
    <3>1. fin[x] /\ inq[x] = <<>> /\ Rest(x) = 0 /\ shut'[y] = TRUE
      BY <1>1, <1>2, <1>4, <1>5, <1>13, <2>2 DEF ReadEof, AtEnd, Alternate, RelayTypes, y
    <3> QED BY <2>1, <3>1 DEF Rest
  <2>3. CASE z # x
    <3>1. shut'[y] = shut[y] /\ reading'[x] = reading[x]
      BY <1>2, <1>5, <1>13, <2>3 DEF ReadEof, Stop, RelayTypes
    <3> QED BY <1>3, <2>1, <3>1 DEF Rest
  <2> QED BY <2>2, <2>3
<1>14. ASSUME NEW z \in Sides, EofThrows(z) \/ ReadError(z) \/ WriteError(z) \/ Reset(z)
       PROVE  FALSE
  <2>1. Other(z) \in Sides
    BY OtherSide
  <2> QED BY <1>1, <1>5, <1>14, <2>1 DEF EofThrows, ReadError, WriteError, Reset, PeerTypes
<1>15. ASSUME NEW z \in Sides, WriteSome(z)
       PROVE  Goal
  <2>1. phase = "relay" /\ phase' = "relay" /\ UNCHANGED <<shut, fin, inq>>
    BY <1>15 DEF WriteSome
  <2>2. CASE z # x
    <3>1. left'[x] = left[x] /\ reading'[x] = reading[x]
      BY <1>15, <2>2, RestWritten
    <3> QED BY <1>3, <2>1, <3>1 DEF Rest
  <2>3. CASE z = x
    <3>1. Rest(x) > 0 /\ (Rest(x)' = 0 => reading'[x])
      BY <1>15, <2>3, RestWritten
    <3> QED BY <1>3, <1>4, <2>1, <3>1
  <2> QED BY <2>2, <2>3
<1>16. ASSUME NEW z \in Sides, Send(z)
       PROVE  Goal
  <2>1. UNCHANGED <<phase, replies, shut, fin, left, reading>> /\ ~fin[z]
    BY <1>16 DEF Send
  <2>2. z # x => inq'[x] = inq[x]
    BY <1>5, <1>16 DEF Send, QueueTypes
  <2> QED BY <1>3, <2>1, <2>2 DEF Rest
<1>17. ASSUME NEW z \in Sides, SendNoMore(z) \/ Receive(z)
       PROVE  Goal
  <2>1. UNCHANGED <<phase, replies, shut, inq, left, reading>> /\ (fin[x] => fin'[x])
    BY <1>5, <1>17 DEF SendNoMore, Receive, PeerTypes
  <2> QED BY <1>3, <2>1 DEF Rest
<1>18. CASE UNCHANGED vars
  BY <1>3, <1>18 DEF vars, Rest
<1> HIDE DEF Goal
<1> QED BY <1>7, <1>8, <1>9, <1>10, <1>11, <1>12, <1>13, <1>14, <1>15, <1>16, <1>17, <1>18
        DEF Next, Session, Request, Chain

\* At the start nothing is sent.
LEMMA InitRelay == Init => RelayInv
<1> SUFFICES ASSUME Init PROVE RelayInv
  OBVIOUS
<1> DEFINE none == <<>>
<1>1. Len(none) = 0 /\ none = <<>>
  OBVIOUS
<1>2. Judged
  BY DEF Init, Judged
<1>3. ASSUME NEW x \in Sides
      PROVE  Order(x) /\ Alternate(x) /\ Ends(x)
  <2>1. Other(x) \in Sides
    BY OtherSide
  <2>2. left[x][1] = 1 /\ left[x][2] = 0 /\ reading[x] = FALSE /\ shut[Other(x)] = FALSE
    BY <2>1 DEF Init, Both, Done
  <2>3. Rest(x) = 0
    BY <2>2 DEF Rest
  <2>4. got[Other(x)] = none /\ outq[Other(x)] = none /\ inq[x] = none /\ sent[x] = 0
    BY <2>1 DEF Init, Both
  <2> HIDE DEF none
  <2>5. InLine(none, none, buf[x], 1, 0, none, 0, reset[Other(x)])
    BY <1>1 DEF InLine
  <2>6. Order(x)
    BY <2>2, <2>3, <2>4, <2>5 DEF Order
  <2> QED BY <2>2, <2>3, <2>6 DEF Init, Alternate, Ends
<1> QED BY <1>2, <1>3 DEF RelayInv

\* The relay's invariant is inductive relative to the types.
LEMMA RelayCorrect == Spec => []RelayInv
<1>1. Init => RelayInv
  BY InitRelay
<1>2. TypeOK /\ RelayInv /\ [Next]_vars => RelayInv'
  BY NextJudged, NextOrder, NextAlternate, NextEnds DEF RelayInv
<1> QED BY <1>1, <1>2, TypeCorrect, PTL DEF Spec

\* Two queues that count on from each other are one that counts.
LEMMA Counting ==
  ASSUME NEW r \in Seq(Unit), NEW o \in Seq(Unit), \A i \in 1..Len(r) : r[i] = i,
         \A i \in 1..Len(o) : o[i] = Len(r) + i
  PROVE  Len(r \o o) = Len(r) + Len(o) /\ \A i \in DOMAIN (r \o o) : (r \o o)[i] = i
<1>1. /\ Len(r \o o) = Len(r) + Len(o) /\ r \o o \in Seq(Unit)
      /\ \A i \in 1..(Len(r) + Len(o)) : (r \o o)[i] = IF i <= Len(r) THEN r[i] ELSE o[i - Len(r)]
  BY ConcatProperties
<1>2. Len(r) \in Nat /\ Len(o) \in Nat /\ DOMAIN (r \o o) = 1..Len(r \o o)
  BY <1>1, LenProperties
<1>3. ASSUME NEW i \in 1..(Len(r) + Len(o))
      PROVE  (r \o o)[i] = i
  <2>1. CASE i <= Len(r)
    BY <1>1, <1>2, <2>1
  <2>2. CASE i > Len(r)
    <3>1. i - Len(r) \in 1..Len(o)
      BY <1>2, <2>2
    <3>2. (r \o o)[i] = Len(r) + (i - Len(r))
      BY <1>1, <1>2, <2>2, <3>1
    <3> QED BY <1>2, <3>2
  <2> QED BY <1>2, <2>1, <2>2
<1> QED BY <1>1, <1>2, <1>3

\* What arrives at a peer is what the other one sent, in order, nothing lost,
\* repeated or cleared in between: read_from and write_to never touch a buffer at
\* the same time and drop nothing, whatever their sizes.
THEOREM DataInOrder == Spec => []InOrder
<1>1. ASSUME TypeOK, RelayInv
      PROVE  InOrder
  <2> SUFFICES ASSUME NEW x \in Sides
               PROVE  LET all == got[x] \o outq[x]
                      IN Len(all) <= sent[Other(x)] /\ \A i \in DOMAIN all : all[i] = i
    BY DEF InOrder
  <2> DEFINE y == Other(x)
             all == got[x] \o outq[x]
  <2>1. y \in Sides /\ Other(y) = x
    BY OtherSide
  <2>2. /\ sent[y] \in Nat /\ got[x] \in Seq(Unit) /\ outq[x] \in Seq(Unit)
        /\ Len(got[x]) \in Nat /\ Len(outq[x]) \in Nat /\ reset[x] \in BOOLEAN
    BY <1>1, <2>1, OrderTypes
  <2>4. InLine(got[x], outq[x], buf[y], left[y][1], Rest(y), inq[y], sent[y], reset[x])
    BY <1>1, <2>1 DEF RelayInv, Order
  <2> HIDE DEF y
  <2>6. /\ Len(got[x]) + Len(outq[x]) <= sent[y]
        /\ \A i \in 1..Len(got[x]) : got[x][i] = i
        /\ reset[x] => outq[x] = <<>>
        /\ ~reset[x] => \A i \in 1..Len(outq[x]) : outq[x][i] = Len(got[x]) + i
    BY <2>4 DEF InLine
  <2>7. \A i \in 1..Len(outq[x]) : outq[x][i] = Len(got[x]) + i
    BY <2>2, <2>6
  <2>8. Len(all) = Len(got[x]) + Len(outq[x]) /\ \A i \in DOMAIN all : all[i] = i
    BY <2>2, <2>6, <2>7, Counting
  <2> HIDE DEF all
  <2> QED BY <2>6, <2>8 DEF all, y
<1> QED BY <1>1, TypeCorrect, RelayCorrect, PTL

\* Unless a connection was reset, a peer of an accepted request sees the end of
\* its data only when the other one has ended and all it sent has arrived: the
\* end of one direction does not cut off the other one.
THEOREM EndsAreTrue == Spec => []EndIsTrue
<1>1. ASSUME TypeOK, RelayInv
      PROVE  EndIsTrue
  <2> SUFFICES ASSUME NEW x \in Sides, SeesEnd(x), replies # <<>>, replies[1] = 90,
                      \A z \in Sides : ~reset[z]
               PROVE  fin[Other(x)] /\ Len(got[x]) = sent[Other(x)]
    BY DEF EndIsTrue
  <2> DEFINE y == Other(x)
  <2>1. y \in Sides /\ Other(y) = x
    BY OtherSide
  <2>2. Len(got[x]) \in Nat /\ sent[y] \in Nat
    BY <1>1, <2>1, OrderTypes
  <2>3. InLine(got[x], outq[x], buf[y], left[y][1], Rest(y), inq[y], sent[y], reset[x])
    BY <1>1, <2>1 DEF RelayInv, Order
  <2>4. shut[x] => fin[y] /\ inq[y] = <<>> /\ Rest(y) = 0
    BY <1>1, <2>1 DEF RelayInv, Ends
  <2>5. phase = "over" => shut[x]
    BY <1>1, <2>1 DEF RelayInv, Ends
  <2>6. fin[y] /\ inq[y] = <<>> /\ Rest(y) = 0 /\ outq[x] = <<>>
    BY <2>4, <2>5 DEF SeesEnd
  <2> HIDE DEF y
  <2>7. Len(got[x]) + Len(outq[x]) + Rest(y) + Len(inq[y]) = sent[y]
    BY <2>3 DEF InLine
  <2>8. Len(outq[x]) = 0 /\ Len(inq[y]) = 0
    BY <2>6
  <2>9. Len(got[x]) + 0 + 0 + 0 = sent[y]
    BY <2>6, <2>7, <2>8
  <2> QED BY <2>2, <2>6, <2>9 DEF y
<1> QED BY <1>1, TypeCorrect, RelayCorrect, PTL
=============================================================================
