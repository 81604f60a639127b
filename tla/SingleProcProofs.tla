-------------------------- MODULE SingleProcProofs --------------------------
(***************************************************************************)
(* Proofs about the single-process chat shell, for any number of ids,      *)
(* descriptors, names, pipes and processes, and any commands.              *)
(***************************************************************************)
EXTENDS SingleProc, FiniteSetTheorems, WellFoundedInduction, TLAPS

-----------------------------------------------------------------------------
(* The tables as sequences.                                                *)

\* Every non-empty set of naturals has a least element.
LEMMA Least == ASSUME NEW S \in SUBSET Nat, S # {} PROVE \E m \in S : \A n \in S : m <= n
<1> DEFINE D == FiniteSubsetsOf(Nat)
           T == {0..n : n \in S}
<1>1. \A n \in S : n \in Nat /\ IsFiniteSet(0..n) /\ 0..n \subseteq Nat
  BY FS_Interval
<1>2. T \subseteq D /\ T # {}
  BY <1>1 DEF FiniteSubsetsOf
<1>3. IsWellFoundedOn(StrictSubsetOrdering(Nat), D)
  BY FS_StrictSubsetOrderingWellFounded
<1> HIDE DEF D
<1>4. \E x \in T : \A y \in T : <<y, x>> \notin StrictSubsetOrdering(Nat)
  BY <1>2, <1>3, WFMin
<1>5. PICK m \in S : \A n \in S : <<0..n, 0..m>> \notin StrictSubsetOrdering(Nat)
  BY <1>4
<1>6. ASSUME NEW n \in S, n < m
      PROVE  FALSE
  <2>1. 0..n \subseteq 0..m /\ m \in 0..m /\ m \notin 0..n
    BY <1>1, <1>6
  <2>2. <<0..n, 0..m>> \in StrictSubsetOrdering(Nat)
    BY <1>1, <2>1 DEF StrictSubsetOrdering
  <2> QED BY <1>5, <2>2
<1> QED BY <1>1, <1>6

\* The entries of a table are at its places.
LEMMA Entries ==
  ASSUME NEW T, NEW s \in Seq(T)
  PROVE  /\ Len(s) \in Nat /\ DOMAIN s = 1..Len(s)
         /\ \A k \in 1..Len(s) : s[k] \in T /\ s[k] \in Elems(s)
         /\ \A e \in Elems(s) : e \in T /\ \E k \in 1..Len(s) : e = s[k]
  BY DEF Elems

\* The loops find an entry with the descriptor if there is one.
LEMMA FirstFound ==
  ASSUME NEW T, NEW s \in Seq(T), NEW f, \E k \in 1..Len(s) : s[k].fd = f
  PROVE  FirstWith(s, f) \in 1..Len(s) /\ s[FirstWith(s, f)].fd = f
<1> DEFINE S == {k \in 1..Len(s) : s[k].fd = f}
<1>1. Len(s) \in Nat /\ DOMAIN s = 1..Len(s)
  BY Entries
<1>2. S \in SUBSET Nat /\ S # {}
  BY <1>1
<1>3. PICK m \in S : \A n \in S : m <= n
  BY <1>2, Least
<1>4. m \in DOMAIN s /\ s[m].fd = f /\ \A j \in 1..(m - 1) : s[j].fd # f
  <2>1. ASSUME NEW j \in 1..(m - 1), s[j].fd = f PROVE FALSE
    BY <1>1, <1>3, <2>1
  <2> QED BY <1>1, <1>3, <2>1
<1>5. FirstWith(s, f) \in DOMAIN s /\ s[FirstWith(s, f)].fd = f
  BY <1>4 DEF FirstWith
<1> QED BY <1>1, <1>5

\* A table without its k-th entry.
LEMMA EntryErased ==
  ASSUME NEW T, NEW s \in Seq(T), NEW k \in 1..Len(s)
  PROVE  /\ Without(s, k) \in Seq(T) /\ Len(Without(s, k)) = Len(s) - 1
         /\ \A j \in 1..(Len(s) - 1) : Without(s, k)[j] = IF j < k THEN s[j] ELSE s[j + 1]
<1> DEFINE n == Len(s) - 1
           w == [j \in 1..n |-> IF j < k THEN s[j] ELSE s[j + 1]]
<1>1. Len(s) \in Nat /\ n \in Nat /\ \A j \in 1..Len(s) : s[j] \in T
  BY Entries
<1>2. \A j \in 1..n : j \in 1..Len(s) /\ j + 1 \in 1..Len(s)
  BY <1>1
<1>3. w \in [1..n -> T]
  BY <1>1, <1>2
<1>4. w \in Seq(T) /\ Len(w) = n
  BY <1>1, <1>3
<1> QED BY <1>4 DEF Without

\* Its other entries are where they were or one place before.
LEMMA EntriesLeft ==
  ASSUME NEW T, NEW s \in Seq(T), NEW k \in 1..Len(s)
  PROVE  /\ \A j \in 1..Len(Without(s, k)) :
              \E i \in 1..Len(s) : i # k /\ Without(s, k)[j] = s[i]
         /\ \A i \in 1..Len(s) : i # k => \E j \in 1..Len(Without(s, k)) : Without(s, k)[j] = s[i]
         /\ \A i, j \in 1..Len(Without(s, k)) :
              i # j => \E x, y \in 1..Len(s) : x # y /\ Without(s, k)[i] = s[x] /\ Without(s, k)[j] = s[y]
<1> DEFINE w == Without(s, k)
           at(j) == IF j < k THEN j ELSE j + 1
<1>1. Len(s) \in Nat /\ Len(w) = Len(s) - 1
  BY Entries, EntryErased
<1>2. \A j \in 1..(Len(s) - 1) : w[j] = IF j < k THEN s[j] ELSE s[j + 1]
  BY EntryErased
<1> HIDE DEF w
<1>3. \A j \in 1..Len(w) : at(j) \in 1..Len(s) /\ at(j) # k /\ w[j] = s[at(j)]
  BY <1>1, <1>2
<1>4. \A i, j \in 1..Len(w) : i # j => at(i) # at(j)
  BY <1>1
<1>5. ASSUME NEW i \in 1..Len(s), i # k
      PROVE  \E j \in 1..Len(w) : w[j] = s[i]
  <2> DEFINE j == IF i < k THEN i ELSE i - 1
  <2>1. j \in 1..Len(w) /\ at(j) = i
    BY <1>1, <1>5
  <2> QED BY <1>3, <2>1
<1> HIDE DEF at
<1>6. \A i, j \in 1..Len(w) : i # j => \E x, y \in 1..Len(s) : x # y /\ w[i] = s[x] /\ w[j] = s[y]
  BY <1>3, <1>4
<1> QED BY <1>3, <1>5, <1>6 DEF w

\* A new entry comes last.
LEMMA EntryAdded ==
  ASSUME NEW T, NEW s \in Seq(T), NEW e \in T
  PROVE  /\ Append(s, e) \in Seq(T) /\ Len(Append(s, e)) = Len(s) + 1
         /\ \A j \in 1..Len(s) : Append(s, e)[j] = s[j]
         /\ Append(s, e)[Len(s) + 1] = e
  OBVIOUS

\* An injection of 1..n into itself is onto.
LEMMA Onto ==
  ASSUME NEW n \in Nat, NEW f \in [1..n -> 1..n], \A j, k \in 1..n : j # k => f[j] # f[k]
  PROVE  \A k \in 1..n : \E j \in 1..n : f[j] = k
<1>1. IsFiniteSet(1..n)
  BY FS_Interval
<1>2. f \in Injection(1..n, 1..n)
  BY DEF Injection, IsInjective
<1>3. f \in Surjection(1..n, 1..n)
  BY <1>1, <1>2, FS_Injection
<1> QED BY <1>3 DEF Surjection
-----------------------------------------------------------------------------
(* Who is listed where.                                                    *)

\* Table s lists id j with descriptor f.
Has(s, j, f) == \E k \in 1..Len(s) : s[k].id = j /\ s[k].fd = f

\* Whoever is online is in both tables.
Listed == \A j \in Slots : client_socket[j] # NoFd =>
            Has(clients, j, client_socket[j]) /\ Has(clients_copy, j, client_socket[j])

\* A descriptor is in one slot at most; while a client has its prompt or has typed,
\* it is in one.
Sockets ==
  /\ \A j, k \in Slots : client_socket[j] = client_socket[k] /\ client_socket[j] # NoFd => j = k
  /\ \A f \in Fds : /\ sock[f] \in {"prompt", "typed"} => InSlot(f)
                    /\ sock[f] = "free" => ~InSlot(f)

\* A line is run for a client that has typed it, a process is waited for only then,
\* and only a line with >n has a pipe for it.
Serving ==
  /\ ~Idle => turn.fd \in Fds /\ sock[turn.fd] = "typed"
  /\ busy # NoProc => ~Idle
  /\ IF turn.parsed THEN turn.cmd.send # 0 ELSE turn.out = NoPipe

\* The same clients are listed, with the same descriptors and in the same slots.
SameUsers ==
  /\ client_socket' = client_socket /\ Len(clients') = Len(clients)
  /\ \A j \in Slots, f \in Fds : /\ Has(clients', j, f) <=> Has(clients, j, f)
                                 /\ Has(clients_copy', j, f) <=> Has(clients_copy, j, f)

\* An entry of a new name.
LEMMA EntryNamed ==
  ASSUME NEW T \in {EntryType, CopyType}, NEW s \in Seq(T), NEW f, NEW n \in Names
  PROVE  /\ Named(s, f, n) \in Seq(T) /\ Len(Named(s, f, n)) = Len(s)
         /\ \A k \in 1..Len(s) : /\ Named(s, f, n)[k].id = s[k].id
                                 /\ Named(s, f, n)[k].fd = s[k].fd
                                 /\ Named(s, f, n)[k].name = IF s[k].fd = f THEN n ELSE s[k].name
<1>1. Len(s) \in Nat /\ DOMAIN s = 1..Len(s) /\ \A k \in 1..Len(s) : s[k] \in T
  BY Entries
<1>2. ASSUME NEW e \in T
      PROVE  /\ [e EXCEPT !.name = n] \in T /\ [e EXCEPT !.name = n].id = e.id
             /\ [e EXCEPT !.name = n].fd = e.fd /\ [e EXCEPT !.name = n].name = n
  <2>1. CASE T = EntryType
    BY <2>1 DEF EntryType
  <2>2. CASE T = CopyType
    BY <2>2 DEF CopyType
  <2> QED BY <2>1, <2>2
<1> DEFINE w == [k \in 1..Len(s) |-> IF s[k].fd = f THEN [s[k] EXCEPT !.name = n] ELSE s[k]]
<1>3. \A k \in 1..Len(s) : (IF s[k].fd = f THEN [s[k] EXCEPT !.name = n] ELSE s[k]) \in T
  BY <1>1, <1>2
<1>4. w \in [1..Len(s) -> T]
  BY <1>3
<1>5. w \in Seq(T) /\ Len(w) = Len(s)
  BY <1>1, <1>4
<1>6. ASSUME NEW k \in 1..Len(s)
      PROVE  w[k].id = s[k].id /\ w[k].fd = s[k].fd /\ w[k].name = IF s[k].fd = f THEN n ELSE s[k].name
  BY <1>1, <1>2
<1> HIDE DEF w
<1>7. Named(s, f, n) = w
  BY <1>1 DEF Named, w
<1> QED BY <1>5, <1>6, <1>7

\* who: the entries come in another order.
LEMMA EntriesSorted ==
  ASSUME TableTypes, NEW f, NEW c, Who(f, c)
  PROVE  /\ clients' \in Seq(EntryType) /\ Len(clients') = Len(clients)
         /\ \A k \in 1..Len(clients) : \E j \in 1..Len(clients) : clients'[k] = clients[j]
         /\ \A k \in 1..Len(clients) : \E j \in 1..Len(clients) : clients'[j] = clients[k]
         /\ \A j, k \in 1..Len(clients) : j # k =>
              \E x, y \in 1..Len(clients) : x # y /\ clients'[j] = clients[x] /\ clients'[k] = clients[y]
<1> DEFINE n == Len(clients)
<1>1. n \in Nat /\ DOMAIN clients = 1..n /\ \A k \in 1..n : clients[k] \in EntryType
  BY Entries DEF TableTypes
<1> HIDE DEF n
<1>2. PICK order \in [1..n -> 1..n] :
        /\ \A j, k \in 1..n : j # k => order[j] # order[k]
        /\ clients' = [k \in 1..n |-> clients[order[k]]]
  <2>1. PICK order \in [DOMAIN clients -> DOMAIN clients] :
          /\ \A j, k \in DOMAIN clients : j # k => order[j] # order[k]
          /\ clients' = [k \in DOMAIN clients |-> clients[order[k]]]
    BY DEF Who
  <2> QED BY <1>1, <2>1
<1>3. clients' \in [1..n -> EntryType]
  BY <1>1, <1>2
<1>4. clients' \in Seq(EntryType) /\ Len(clients') = n
  BY <1>1, <1>3
<1>5. \A k \in 1..n : \E j \in 1..n : order[j] = k
  BY <1>1, <1>2, Onto
<1>6. \A k \in 1..n : clients'[k] = clients[order[k]] /\ order[k] \in 1..n
  BY <1>2
<1>7. ASSUME NEW k \in 1..n PROVE \E j \in 1..n : clients'[j] = clients[k]
  <2>1. PICK j \in 1..n : order[j] = k
    BY <1>5
  <2> QED BY <1>6, <2>1
<1>8. \A j, k \in 1..n : j # k => \E x, y \in 1..n : x # y /\ clients'[j] = clients[x] /\ clients'[k] = clients[y]
  BY <1>2, <1>6
<1> QED BY <1>4, <1>6, <1>7, <1>8 DEF n
-----------------------------------------------------------------------------
(* What the steps do to the tables.                                        *)

\* A client types, or gets its prompt.
Flip(f) == /\ sock[f] \in {"prompt", "typed"}
           /\ \E v \in {"prompt", "typed"} : sock' = [sock EXCEPT ![f] = v]

\* Nobody comes or goes.
QuietStep == /\ SameUsers
             /\ sock' = sock \/ \E f \in Fds : Flip(f) \/ Close(f)

\* Somebody does.
Coming(f) == Accept(f)
Going(f)  == Idle /\ InSlot(f) /\ (Disconnect(f) \/ (sock[f] = "typed" /\ \E c \in Cmds : Exit(f, c)))

\* The entries that a name changes, or a line, keep their ids and descriptors.
LEMMA SameEntries ==
  ASSUME TableTypes, client_socket' = client_socket,
         Len(clients') = Len(clients), Len(clients_copy') = Len(clients_copy),
         \A k \in 1..Len(clients) : clients'[k].id = clients[k].id /\ clients'[k].fd = clients[k].fd,
         \A k \in 1..Len(clients_copy) : /\ clients_copy'[k].id = clients_copy[k].id
                                         /\ clients_copy'[k].fd = clients_copy[k].fd
  PROVE  SameUsers
  BY DEF SameUsers, Has

\* Who, name and the shells.
LEMMA WhoQuiet ==
  ASSUME TableTypes, NEW f \in Fds, NEW c \in Cmds, sock[f] = "typed", Who(f, c)
  PROVE  TableTypes' /\ QuietStep
<1>1. UNCHANGED <<client_socket, clients_copy>> /\ sock' = [sock EXCEPT ![f] = "prompt"]
  BY DEF Who, Prompt
<1>2. /\ clients' \in Seq(EntryType) /\ Len(clients') = Len(clients)
      /\ \A k \in 1..Len(clients) : \E j \in 1..Len(clients) : clients'[k] = clients[j]
      /\ \A k \in 1..Len(clients) : \E j \in 1..Len(clients) : clients'[j] = clients[k]
  BY EntriesSorted
<1>3. TableTypes'
  BY <1>1, <1>2 DEF TableTypes
<1>4. SameUsers
  <2>1. ASSUME NEW j, NEW g, Has(clients, j, g) PROVE Has(clients', j, g)
    <3>1. PICK k \in 1..Len(clients) : clients[k].id = j /\ clients[k].fd = g
      BY <2>1 DEF Has
    <3>2. PICK i \in 1..Len(clients) : clients'[i] = clients[k]
      BY <1>2
    <3> QED BY <1>2, <3>1, <3>2 DEF Has
  <2>2. ASSUME NEW j, NEW g, Has(clients', j, g) PROVE Has(clients, j, g)
    <3>1. PICK k \in 1..Len(clients) : clients'[k].id = j /\ clients'[k].fd = g
      BY <1>2, <2>2 DEF Has
    <3>2. PICK i \in 1..Len(clients) : clients'[k] = clients[i]
      BY <1>2
    <3> QED BY <3>1, <3>2 DEF Has
  <2> QED BY <1>1, <1>2, <2>1, <2>2 DEF SameUsers
<1>5. Flip(f)
  BY <1>1 DEF Flip
<1> QED BY <1>3, <1>4, <1>5 DEF QuietStep

LEMMA NameQuiet ==
  ASSUME TableTypes, NEW f \in Fds, NEW c \in Cmds, sock[f] = "typed", Name(f, c)
  PROVE  TableTypes' /\ QuietStep
<1>1. client_socket' = client_socket /\ sock' = [sock EXCEPT ![f] = "prompt"] /\ c.name \in Names
  BY CmdsAssumption DEF Name, Prompt, Received
<1>2. Flip(f)
  BY <1>1 DEF Flip
<1>3. CASE UNCHANGED <<clients, clients_copy>>
  <2>1. SameUsers
    BY <1>1, <1>3 DEF SameUsers
  <2>2. TableTypes'
    BY <1>1, <1>3 DEF TableTypes
  <2> QED BY <1>2, <2>1, <2>2 DEF QuietStep
<1>4. CASE clients' = Named(clients, f, c.name) /\ clients_copy' = Named(clients_copy, f, c.name)
  <2>1. /\ clients' \in Seq(EntryType) /\ Len(clients') = Len(clients)
        /\ \A k \in 1..Len(clients) : clients'[k].id = clients[k].id /\ clients'[k].fd = clients[k].fd
    <3>1. clients \in Seq(EntryType) /\ EntryType \in {EntryType, CopyType}
      BY DEF TableTypes
    <3>2. /\ Named(clients, f, c.name) \in Seq(EntryType) /\ Len(Named(clients, f, c.name)) = Len(clients)
          /\ \A k \in 1..Len(clients) : /\ Named(clients, f, c.name)[k].id = clients[k].id
                                        /\ Named(clients, f, c.name)[k].fd = clients[k].fd
      BY <1>1, <3>1, EntryNamed
    <3> QED BY <1>4, <3>2
  <2>2. /\ clients_copy' \in Seq(CopyType) /\ Len(clients_copy') = Len(clients_copy)
        /\ \A k \in 1..Len(clients_copy) : /\ clients_copy'[k].id = clients_copy[k].id
                                           /\ clients_copy'[k].fd = clients_copy[k].fd
    <3>1. clients_copy \in Seq(CopyType) /\ CopyType \in {EntryType, CopyType}
      BY DEF TableTypes
    <3>2. /\ Named(clients_copy, f, c.name) \in Seq(CopyType)
          /\ Len(Named(clients_copy, f, c.name)) = Len(clients_copy)
          /\ \A k \in 1..Len(clients_copy) : /\ Named(clients_copy, f, c.name)[k].id = clients_copy[k].id
                                             /\ Named(clients_copy, f, c.name)[k].fd = clients_copy[k].fd
      BY <1>1, <3>1, EntryNamed
    <3> QED BY <1>4, <3>2
  <2>3. SameUsers
    BY <1>1, <2>1, <2>2, SameEntries
  <2>4. /\ client_socket' \in [Slots -> Fds \cup {NoFd}]
        /\ sock' \in [Fds -> {"free", "prompt", "typed", "gone"}]
    BY <1>1 DEF TableTypes
  <2>5. Len(clients_copy') = Len(clients')
    BY <2>1, <2>2 DEF TableTypes
  <2>6. TableTypes'
    BY <2>1, <2>2, <2>4, <2>5 DEF TableTypes
  <2> QED BY <1>2, <2>3, <2>6 DEF QuietStep
<1> QED BY <1>3, <1>4 DEF Name

LEMMA NoPipeIs == NoPipe \in 0..MaxPipes
  BY NAssumption DEF NoPipe

\* A line, or a built-in, changes the pipe of an entry's |1.
NextIs(k, x) == /\ UNCHANGED <<client_socket, clients_copy>>
                /\ clients' = [clients EXCEPT ![k].next = x]

LEMMA NextQuiet ==
  ASSUME TableTypes, NEW k \in DOMAIN clients, NEW x \in 0..MaxPipes, NextIs(k, x), sock' = sock
  PROVE  TableTypes' /\ QuietStep
<1>1. /\ UNCHANGED <<client_socket, clients_copy, sock>>
      /\ clients' = [clients EXCEPT ![k].next = x]
  BY DEF NextIs
<1>2. Len(clients) \in Nat /\ DOMAIN clients = 1..Len(clients) /\ \A j \in 1..Len(clients) : clients[j] \in EntryType
  BY Entries DEF TableTypes
<1>3. clients[k] \in EntryType
  BY <1>2
<1> DEFINE e == [clients[k] EXCEPT !.next = x]
<1>4. e \in EntryType /\ e.id = clients[k].id /\ e.fd = clients[k].fd
  BY <1>3 DEF EntryType
<1>5. clients' = [clients EXCEPT ![k] = e]
  BY <1>1
<1> HIDE DEF e
<1>6. clients' \in Seq(EntryType) /\ Len(clients') = Len(clients)
  BY <1>4, <1>5 DEF TableTypes
<1>7. \A j \in 1..Len(clients) : clients'[j].id = clients[j].id /\ clients'[j].fd = clients[j].fd
  BY <1>2, <1>4, <1>5
<1>8. SameUsers
  BY <1>1, <1>6, <1>7, SameEntries
<1>9. TableTypes'
  BY <1>1, <1>6 DEF TableTypes
<1> QED BY <1>1, <1>8, <1>9 DEF QuietStep

\* Every step is of one of these kinds.
LEMMA KindsOfSteps ==
  ASSUME TableTypes, Serving, Next
  PROVE  \/ TableTypes' /\ QuietStep
         \/ \E f \in Fds : Coming(f) \/ Going(f)
         \/ SigPipe
<1> DEFINE Quiet == TableTypes' /\ QuietStep
<1>1. ASSUME UNCHANGED tables, sock' = sock \/ \E f \in Fds : Flip(f) \/ Close(f),
             sock' \in [Fds -> {"free", "prompt", "typed", "gone"}]
      PROVE  Quiet
  BY <1>1 DEF tables, TableTypes, QuietStep, SameUsers
<1>2. sock \in [Fds -> {"free", "prompt", "typed", "gone"}]
  BY DEF TableTypes
<1>3. ASSUME UNCHANGED <<tables, sock>> PROVE Quiet
  BY <1>1, <1>2, <1>3
<1>4. ASSUME NEW f \in Fds, UNCHANGED tables, Flip(f) PROVE Quiet
  BY <1>1, <1>2, <1>4 DEF Flip
<1>5. ASSUME NEW f \in Fds, Type(f) \/ Close(f) PROVE Quiet
  <2>1. CASE Type(f)
    <3>1. Flip(f) /\ UNCHANGED tables
      BY <2>1 DEF Type, Flip
    <3> QED BY <1>4, <3>1
  <2>2. CASE Close(f)
    <3>1. UNCHANGED tables /\ sock' \in [Fds -> {"free", "prompt", "typed", "gone"}]
      BY <1>2, <2>2 DEF Close
    <3> QED BY <1>1, <2>2, <3>1
  <2> QED BY <1>5, <2>1, <2>2
<1>6. ASSUME NEW f \in Fds, Serve(f) PROVE Quiet \/ Going(f)
  <2>1. ASSUME NEW c \in Cmds, sock[f] = "typed", Say(f, c) PROVE Quiet
    <3>1. Flip(f) /\ UNCHANGED tables
      BY <2>1 DEF Say, Prompt, Flip
    <3> QED BY <1>4, <3>1
  <2>2. ASSUME NEW c \in Cmds, StartShell(f, c) PROVE Quiet
    BY <1>3, <2>2 DEF StartShell
  <2> HIDE DEF Quiet
  <2>3. ASSUME NEW c \in Cmds, sock[f] = "typed", Who(f, c) \/ Name(f, c) PROVE Quiet
    BY <2>3, WhoQuiet, NameQuiet DEF Quiet
  <2>4. ASSUME NEW c \in Cmds, sock[f] = "typed", Exit(f, c), Idle, InSlot(f) PROVE Going(f)
    BY <2>4 DEF Going
  <2>5. ASSUME Disconnect(f), Idle, InSlot(f) PROVE Going(f)
    BY <2>5 DEF Going
  <2> QED BY <1>6, <2>1, <2>2, <2>3, <2>4, <2>5 DEF Serve
<1>7. ASSUME Shell PROVE Quiet
  <2>1. CASE EndShell
    <3>1. turn.fd \in Fds /\ sock[turn.fd] = "typed" /\ UNCHANGED tables
      BY <2>1 DEF EndShell, Serving
    <3>2. Flip(turn.fd)
      BY <2>1, <3>1 DEF EndShell, Prompt, Flip
    <3> QED BY <1>4, <3>1, <3>2
  <2>2. CASE Wait
    BY <1>3, <2>2 DEF Wait
  <2>3. ASSUME NEW k \in DOMAIN clients, BuiltIn(k) PROVE Quiet
    BY <2>3, NextQuiet, NoPipeIs DEF BuiltIn, NextIs
  <2>4. ASSUME NEW k \in DOMAIN clients, NEW x \in 0..MaxPipes, ParseSend(k, x) PROVE Quiet
    BY <1>3, <2>4 DEF ParseSend
  <2>5. ASSUME NEW k \in DOMAIN clients, NEW x \in 0..MaxPipes, NEW p \in Procs, Line(k, p, x) PROVE Quiet
    BY <2>5, NextQuiet DEF Line, NextIs
  <2> HIDE DEF Quiet
  <2> QED BY <1>7, <2>1, <2>2, <2>3, <2>4, <2>5 DEF Shell
<1>8. ASSUME NEW p \in Procs, Finish(p) PROVE Quiet
  BY <1>3, <1>8 DEF Finish
<1> HIDE DEF Quiet
<1>9. Quiet \/ (\E f \in Fds : Coming(f) \/ Going(f)) \/ SigPipe
  BY <1>5, <1>6, <1>7, <1>8 DEF Next, Coming
<1> QED BY <1>9 DEF Quiet
-----------------------------------------------------------------------------
(* Who is online is listed.                                                *)

\* A client comes: it is in a slot that was free, and listed.
LEMMA Comes ==
  ASSUME TableTypes, NEW f \in Fds, Coming(f)
  PROVE  /\ TableTypes' /\ sock[f] = "free" /\ sock' = [sock EXCEPT ![f] = "prompt"]
         /\ Len(clients') = Len(clients) + 1
         /\ \E j \in Slots :
              /\ FirstFree(j) /\ client_socket' = [client_socket EXCEPT ![j] = f]
              /\ \A i, g : /\ Has(clients', i, g) <=> Has(clients, i, g) \/ (i = j /\ g = f)
                           /\ Has(clients_copy', i, g) <=> Has(clients_copy, i, g) \/ (i = j /\ g = f)
<1>1. PICK j \in Slots :
        /\ FirstFree(j) /\ client_socket' = [client_socket EXCEPT ![j] = f]
        /\ clients' = Append(clients, [fd |-> f, id |-> j, name |-> Anon, next |-> NoPipe])
        /\ clients_copy' = Append(clients_copy, [fd |-> f, id |-> j, name |-> Anon])
  BY DEF Coming, Accept
<1>2. sock[f] = "free" /\ sock' = [sock EXCEPT ![f] = "prompt"]
  BY DEF Coming, Accept
<1> DEFINE e == [fd |-> f, id |-> j, name |-> Anon, next |-> NoPipe]
           d == [fd |-> f, id |-> j, name |-> Anon]
<1>3. e \in EntryType /\ e.id = j /\ e.fd = f
  BY NAssumption DEF EntryType, NoPipe
<1>4. d \in CopyType /\ d.id = j /\ d.fd = f
  BY DEF CopyType
<1>5. clients' = Append(clients, e) /\ clients_copy' = Append(clients_copy, d)
  BY <1>1
<1> HIDE DEF e, d
<1>6. clients \in Seq(EntryType) /\ clients_copy \in Seq(CopyType) /\ Len(clients_copy) = Len(clients)
  BY DEF TableTypes
<1>7. /\ clients' \in Seq(EntryType) /\ Len(clients') = Len(clients) + 1
      /\ \A k \in 1..Len(clients) : clients'[k] = clients[k]
      /\ clients'[Len(clients) + 1] = e
  BY <1>3, <1>5, <1>6, EntryAdded
<1>8. /\ clients_copy' \in Seq(CopyType) /\ Len(clients_copy') = Len(clients_copy) + 1
      /\ \A k \in 1..Len(clients_copy) : clients_copy'[k] = clients_copy[k]
      /\ clients_copy'[Len(clients_copy) + 1] = d
  BY <1>4, <1>5, <1>6, EntryAdded
<1>9. TableTypes'
  BY <1>1, <1>2, <1>6, <1>7, <1>8 DEF TableTypes
<1>10. \A i, g : Has(clients', i, g) <=> Has(clients, i, g) \/ (i = j /\ g = f)
  <2>1. Len(clients) \in Nat /\ \A k \in 1..Len(clients') : k \in 1..Len(clients) \/ k = Len(clients) + 1
    BY <1>6, <1>7, Entries
  <2>2. Len(clients) + 1 \in 1..Len(clients') /\ \A k \in 1..Len(clients) : k \in 1..Len(clients')
    BY <1>7, <2>1
  <2> QED BY <1>3, <1>7, <2>1, <2>2 DEF Has
<1>11. \A i, g : Has(clients_copy', i, g) <=> Has(clients_copy, i, g) \/ (i = j /\ g = f)
  <2>1. Len(clients_copy) \in Nat
        /\ \A k \in 1..Len(clients_copy') : k \in 1..Len(clients_copy) \/ k = Len(clients_copy) + 1
    BY <1>6, <1>8, Entries
  <2>2. Len(clients_copy) + 1 \in 1..Len(clients_copy')
        /\ \A k \in 1..Len(clients_copy) : k \in 1..Len(clients_copy')
    BY <1>8, <2>1
  <2> QED BY <1>4, <1>8, <2>1, <2>2 DEF Has
<1>12. /\ FirstFree(j) /\ client_socket' = [client_socket EXCEPT ![j] = f]
       /\ \A i, g : /\ Has(clients', i, g) <=> Has(clients, i, g) \/ (i = j /\ g = f)
                    /\ Has(clients_copy', i, g) <=> Has(clients_copy, i, g) \/ (i = j /\ g = f)
  BY <1>1, <1>10, <1>11
<1>13. Len(clients') = Len(clients) + 1
  BY <1>7
<1> QED BY <1>2, <1>9, <1>12, <1>13

\* The slot of a descriptor is freed.
LEMMA SlotFreed ==
  ASSUME TableTypes, Sockets, NEW f \in Fds, InSlot(f), FreeSlot(f)
  PROVE  \E j \in Slots : client_socket[j] = f /\ client_socket' = [client_socket EXCEPT ![j] = NoFd]
<1>1. PICK j \in Slots : client_socket[j] = f
  BY DEF InSlot
<1>2. f # NoFd /\ client_socket \in [Slots -> Fds \cup {NoFd}]
  BY FdsAssumption DEF TableTypes
<1>3. \A k \in Slots : client_socket[k] = f => k = j
  BY <1>1, <1>2 DEF Sockets
<1>4. client_socket' = [client_socket EXCEPT ![j] = NoFd]
  BY <1>1, <1>2, <1>3 DEF FreeSlot
<1> QED BY <1>1, <1>4

\* exit erases an entry with the descriptor in each table.
LEMMA Exits ==
  ASSUME TableTypes, Listed, NEW f \in Fds, NEW c, InSlot(f), Exit(f, c)
  PROVE  \E k \in 1..Len(clients), k2 \in 1..Len(clients_copy) :
           /\ clients[k].fd = f /\ clients' = Without(clients, k)
           /\ clients_copy[k2].fd = f /\ clients_copy' = Without(clients_copy, k2)
           /\ upipes' = {u \in upipes : ~Involves(u, clients_copy[k2].id)}
           /\ leaked' = leaked \cup ({clients[k].next} \ {NoPipe})
<1>1. \E j \in Slots : Has(clients, j, f) /\ Has(clients_copy, j, f)
  BY FdsAssumption DEF InSlot, Listed
<1>2. (\E k \in 1..Len(clients) : clients[k].fd = f) /\ (\E k \in 1..Len(clients_copy) : clients_copy[k].fd = f)
  BY <1>1 DEF Has
<1>3. clients \in Seq(EntryType) /\ clients_copy \in Seq(CopyType)
  BY DEF TableTypes
<1>4. FirstWith(clients, f) \in 1..Len(clients) /\ clients[FirstWith(clients, f)].fd = f
  BY <1>2, <1>3, FirstFound
<1>5. FirstWith(clients_copy, f) \in 1..Len(clients_copy) /\ clients_copy[FirstWith(clients_copy, f)].fd = f
  BY <1>2, <1>3, FirstFound
<1> QED BY <1>4, <1>5 DEF Exit

\* A client goes: its slot is free, and the entries with other descriptors stay.
LEMMA Goes ==
  ASSUME TableTypes, Sockets, Listed, NEW f \in Fds, Going(f)
  PROVE  /\ TableTypes' /\ sock' = [sock EXCEPT ![f] = "free"]
         /\ \E j \in Slots : client_socket[j] = f /\ client_socket' = [client_socket EXCEPT ![j] = NoFd]
         /\ IF sock[f] = "gone" THEN Len(clients') = Len(clients)
            ELSE sock[f] = "typed" /\ Len(clients') = Len(clients) - 1
         /\ \A i, g : g # f => /\ Has(clients, i, g) => Has(clients', i, g)
                               /\ Has(clients_copy, i, g) => Has(clients_copy', i, g)
<1>1. Idle /\ InSlot(f) /\ sock' = [sock EXCEPT ![f] = "free"] /\ FreeSlot(f)
  BY DEF Going, Disconnect, Exit
<1>2. \E j \in Slots : client_socket[j] = f /\ client_socket' = [client_socket EXCEPT ![j] = NoFd]
  BY <1>1, SlotFreed
<1>3. client_socket' \in [Slots -> Fds \cup {NoFd}] /\ sock' \in [Fds -> {"free", "prompt", "typed", "gone"}]
  BY <1>1, <1>2 DEF TableTypes
<1>4. CASE Disconnect(f)
  <2>1. sock[f] = "gone" /\ UNCHANGED <<clients, clients_copy>>
    BY <1>4 DEF Disconnect
  <2>2. TableTypes'
    BY <1>3, <2>1 DEF TableTypes
  <2> QED BY <1>1, <1>2, <2>1, <2>2
<1>5. ASSUME NEW c \in Cmds, sock[f] = "typed", Exit(f, c)
      PROVE  /\ TableTypes' /\ Len(clients') = Len(clients) - 1
             /\ \A i, g : g # f => /\ Has(clients, i, g) => Has(clients', i, g)
                                   /\ Has(clients_copy, i, g) => Has(clients_copy', i, g)
  <2>1. PICK k \in 1..Len(clients), k2 \in 1..Len(clients_copy) :
           /\ clients[k].fd = f /\ clients' = Without(clients, k)
           /\ clients_copy[k2].fd = f /\ clients_copy' = Without(clients_copy, k2)
    BY <1>1, <1>5, Exits
  <2>2. clients \in Seq(EntryType) /\ clients_copy \in Seq(CopyType) /\ Len(clients_copy) = Len(clients)
    BY DEF TableTypes
  <2>3. /\ clients' \in Seq(EntryType) /\ Len(clients') = Len(clients) - 1
        /\ \A i \in 1..Len(clients) : i # k => \E j \in 1..Len(clients') : clients'[j] = clients[i]
    BY <2>1, <2>2, EntryErased, EntriesLeft
  <2>4. /\ clients_copy' \in Seq(CopyType) /\ Len(clients_copy') = Len(clients_copy) - 1
        /\ \A i \in 1..Len(clients_copy) : i # k2 =>
             \E j \in 1..Len(clients_copy') : clients_copy'[j] = clients_copy[i]
    BY <2>1, <2>2, EntryErased, EntriesLeft
  <2>5. TableTypes'
    BY <1>3, <2>2, <2>3, <2>4 DEF TableTypes
  <2>6. \A i, g : g # f /\ Has(clients, i, g) => Has(clients', i, g)
    BY <2>1, <2>3 DEF Has
  <2>7. \A i, g : g # f /\ Has(clients_copy, i, g) => Has(clients_copy', i, g)
    BY <2>1, <2>4 DEF Has
  <2> QED BY <2>3, <2>5, <2>6, <2>7
<1> QED BY <1>1, <1>2, <1>4, <1>5 DEF Going

\* The steps keep the types of the tables, the sockets in order, and everybody who
\* is online listed.
LEMMA ListedKept ==
  ASSUME TableTypes, Sockets, Listed, Serving, Next
  PROVE  TableTypes' /\ Sockets' /\ Listed'
<1>1. /\ client_socket \in [Slots -> Fds \cup {NoFd}] /\ sock \in [Fds -> {"free", "prompt", "typed", "gone"}]
      /\ NoFd \notin Fds
  BY FdsAssumption DEF TableTypes
<1>2. CASE TableTypes' /\ QuietStep
  <2>1. SameUsers /\ (sock' = sock \/ \E f \in Fds : Flip(f) \/ Close(f))
    BY <1>2 DEF QuietStep
  <2>2. \A g \in Fds : InSlot(g)' <=> InSlot(g)
    BY <2>1 DEF SameUsers, InSlot
  <2>3. \A g \in Fds : /\ sock'[g] \in {"prompt", "typed"} => sock[g] \in {"prompt", "typed"}
                       /\ sock'[g] = "free" => sock[g] = "free"
    BY <1>1, <2>1 DEF Flip, Close
  <2>4. Sockets'
    BY <2>1, <2>2, <2>3 DEF Sockets, SameUsers
  <2>5. Listed'
    BY <1>1, <2>1 DEF Listed, SameUsers
  <2> QED BY <1>2, <2>4, <2>5
<1>3. ASSUME NEW f \in Fds, Coming(f)
      PROVE  TableTypes' /\ Sockets' /\ Listed'
  <2>1. TableTypes' /\ sock[f] = "free" /\ sock' = [sock EXCEPT ![f] = "prompt"]
    BY <1>3, Comes
  <2>2. PICK j \in Slots :
              /\ FirstFree(j) /\ client_socket' = [client_socket EXCEPT ![j] = f]
              /\ \A i, g : /\ Has(clients', i, g) <=> Has(clients, i, g) \/ (i = j /\ g = f)
                           /\ Has(clients_copy', i, g) <=> Has(clients_copy, i, g) \/ (i = j /\ g = f)
    BY <1>3, Comes
  <2>3. client_socket[j] = NoFd /\ \A k \in Slots : client_socket'[k] = IF k = j THEN f ELSE client_socket[k]
    BY <1>1, <2>2 DEF FirstFree
  <2>4. \A k \in Slots : client_socket[k] # f
    <3>1. ~InSlot(f)
      BY <2>1 DEF Sockets
    <3> QED BY <3>1 DEF InSlot
  <2>5. \A g \in Fds : InSlot(g)' <=> InSlot(g) \/ g = f
    BY <1>1, <2>3 DEF InSlot
  <2>6. \A g \in Fds : sock'[g] = IF g = f THEN "prompt" ELSE sock[g]
    BY <1>1, <2>1
  <2>7. Sockets'
    BY <1>1, <2>3, <2>4, <2>5, <2>6 DEF Sockets
  <2>8. Listed'
    BY <2>2, <2>3 DEF Listed
  <2> QED BY <2>1, <2>7, <2>8
<1>4. ASSUME NEW f \in Fds, Going(f)
      PROVE  TableTypes' /\ Sockets' /\ Listed'
  <2>1. TableTypes' /\ sock' = [sock EXCEPT ![f] = "free"]
    BY <1>4, Goes
  <2>2. PICK j \in Slots : client_socket[j] = f /\ client_socket' = [client_socket EXCEPT ![j] = NoFd]
    BY <1>4, Goes
  <2>3. \A k \in Slots : client_socket'[k] = IF k = j THEN NoFd ELSE client_socket[k]
    BY <1>1, <2>2
  <2>4. \A k \in Slots : k # j => client_socket[k] # f
    BY <1>1, <2>2 DEF Sockets
  <2>5. \A g \in Fds : InSlot(g)' <=> InSlot(g) /\ g # f
    BY <1>1, <2>2, <2>3, <2>4 DEF InSlot
  <2>6. \A g \in Fds : sock'[g] = IF g = f THEN "free" ELSE sock[g]
    BY <1>1, <2>1
  <2>7. Sockets'
    BY <1>1, <2>3, <2>5, <2>6 DEF Sockets
  <2>8. \A i, g : g # f => /\ Has(clients, i, g) => Has(clients', i, g)
                           /\ Has(clients_copy, i, g) => Has(clients_copy', i, g)
    BY <1>4, Goes
  <2>9. Listed'
    <3> SUFFICES ASSUME NEW k \in Slots, client_socket'[k] # NoFd
                 PROVE  Has(clients', k, client_socket'[k]) /\ Has(clients_copy', k, client_socket'[k])
      BY DEF Listed
    <3>1. k # j /\ client_socket'[k] = client_socket[k] /\ client_socket[k] # f
      BY <2>3, <2>4
    <3>2. Has(clients, k, client_socket[k]) /\ Has(clients_copy, k, client_socket[k])
      BY <3>1 DEF Listed
    <3> QED BY <2>8, <3>1, <3>2
  <2> QED BY <2>1, <2>7, <2>9
<1>5. CASE SigPipe
  <2>1. /\ client_socket' = [j \in Slots |-> NoFd] /\ clients' = <<>> /\ clients_copy' = <<>>
        /\ sock' = [f \in Fds |-> "gone"]
    BY <1>5 DEF SigPipe
  <2>2. <<>> \in Seq(EntryType) /\ <<>> \in Seq(CopyType)
    OBVIOUS
  <2> QED BY <2>1, <2>2 DEF TableTypes, Sockets, Listed
<1> QED BY <1>2, <1>3, <1>4, <1>5, KindsOfSteps
-----------------------------------------------------------------------------
(* How many entries there are.                                             *)

\* The slots in use, and the clients in them that have closed.
Taken  == {j \in Slots : client_socket[j] # NoFd}
Closed == {g \in Fds : sock[g] = "gone" /\ InSlot(g)}

\* There is an entry for every slot in use, and at most MaxLost more, now or when
\* the server notices who has closed.
Counted == /\ Cardinality(Taken) <= Len(clients)
           /\ Len(clients) + Cardinality(Closed) <= Cardinality(Taken) + MaxLost

\* The sets counted are finite.
LEMMA Counts ==
  /\ IsFiniteSet(Taken) /\ Cardinality(Taken) \in Nat /\ Cardinality(Taken) <= N
  /\ IsFiniteSet(Closed) /\ Cardinality(Closed) \in Nat
<1>1. IsFiniteSet(1..N) /\ Cardinality(1..N) = N /\ N \in Nat
  BY NAssumption, FS_Interval
<1>2. Taken \in SUBSET (1..N) /\ Closed \in SUBSET Fds
  BY DEF Taken, Closed, Slots
<1> HIDE DEF Taken, Closed
<1>3. IsFiniteSet(Taken) /\ Cardinality(Taken) <= N
  BY <1>1, <1>2, FS_Subset
<1>4. IsFiniteSet(Closed)
  BY <1>2, FdsAssumption, FS_Subset
<1> QED BY <1>3, <1>4, FS_CardinalityType

\* The steps keep the count.
LEMMA CountedKept ==
  ASSUME TableTypes, Sockets, Listed, Serving, Counted, Next
  PROVE  Counted'
<1>1. /\ client_socket \in [Slots -> Fds \cup {NoFd}] /\ sock \in [Fds -> {"free", "prompt", "typed", "gone"}]
      /\ NoFd \notin Fds /\ Len(clients) \in Nat
  BY FdsAssumption DEF TableTypes
<1>2. /\ IsFiniteSet(Taken) /\ Cardinality(Taken) \in Nat
      /\ IsFiniteSet(Closed) /\ Cardinality(Closed) \in Nat
  BY Counts
<1>3. MaxLost \in Nat
  BY NAssumption
<1>4. ASSUME Taken' = Taken, Closed' = Closed, Len(clients') = Len(clients)
      PROVE  Counted'
  BY <1>4 DEF Counted
<1>5. CASE QuietStep
  <2>1. Len(clients') = Len(clients) /\ Taken' = Taken /\ \A g \in Fds : InSlot(g)' <=> InSlot(g)
    BY <1>5 DEF QuietStep, SameUsers, Taken, InSlot
  <2>2. CASE sock' = sock
    <3>1. Closed' = Closed
      BY <2>1, <2>2 DEF Closed
    <3> QED BY <1>4, <2>1, <3>1
  <2>3. ASSUME NEW f \in Fds, Flip(f) PROVE Counted'
    <3>1. \A g \in Fds : sock'[g] = "gone" <=> sock[g] = "gone"
      BY <1>1, <2>3 DEF Flip
    <3>2. Closed' = Closed
      BY <2>1, <3>1 DEF Closed
    <3> QED BY <1>4, <2>1, <3>2
  <2>4. ASSUME NEW f \in Fds, Close(f) PROVE Counted'
    <3> DEFINE Gone == {g \in Fds : sock[g] = "gone"}
    <3>1. /\ sock[f] = "prompt" /\ sock' = [sock EXCEPT ![f] = "gone"]
          /\ Len(clients) - Cardinality(Taken) + Cardinality(Gone) < MaxLost
      BY <2>4 DEF Close, Lost, Taken
    <3>2. Closed' = Closed \cup {f}
      <4>1. InSlot(f)
        BY <3>1 DEF Sockets
      <4>2. \A g \in Fds : sock'[g] = IF g = f THEN "gone" ELSE sock[g]
        BY <1>1, <3>1
      <4> QED BY <2>1, <4>1, <4>2 DEF Closed
    <3>3. f \notin Closed
      BY <3>1 DEF Closed
    <3>4. Cardinality(Closed') = Cardinality(Closed) + 1
      BY <1>2, <3>2, <3>3, FS_AddElement
    <3>5. IsFiniteSet(Gone) /\ Cardinality(Closed) <= Cardinality(Gone) /\ Cardinality(Gone) \in Nat
      <4>1. Gone \in SUBSET Fds /\ Closed \in SUBSET Gone
        BY DEF Closed
      <4>2. IsFiniteSet(Gone)
        BY <4>1, FdsAssumption, FS_Subset
      <4> HIDE DEF Gone
      <4> QED BY <4>1, <4>2, FS_Subset, FS_CardinalityType
    <3> HIDE DEF Gone
    <3>6. Cardinality(Taken') = Cardinality(Taken)
      BY <2>1
    <3>7. Len(clients) + (Cardinality(Closed) + 1) <= Cardinality(Taken) + MaxLost
      BY <1>1, <1>2, <1>3, <3>1, <3>5
    <3> QED BY <2>1, <3>4, <3>6, <3>7 DEF Counted
  <2> QED BY <1>5, <2>2, <2>3, <2>4 DEF QuietStep
<1>6. ASSUME NEW f \in Fds, Coming(f)
      PROVE  Counted'
  <2>1. sock[f] = "free" /\ sock' = [sock EXCEPT ![f] = "prompt"] /\ Len(clients') = Len(clients) + 1
    BY <1>6, Comes
  <2>2. PICK j \in Slots : FirstFree(j) /\ client_socket' = [client_socket EXCEPT ![j] = f]
    BY <1>6, Comes
  <2>3. client_socket[j] = NoFd /\ \A k \in Slots : client_socket'[k] = IF k = j THEN f ELSE client_socket[k]
    BY <1>1, <2>2 DEF FirstFree
  <2>4. Taken' = Taken \cup {j} /\ j \notin Taken
    BY <1>1, <2>3 DEF Taken
  <2>5. Closed' = Closed
    <3>1. \A g \in Fds : g # f => (InSlot(g)' <=> InSlot(g))
      BY <1>1, <2>3 DEF InSlot
    <3>2. \A g \in Fds : sock'[g] = IF g = f THEN "prompt" ELSE sock[g]
      BY <1>1, <2>1
    <3> QED BY <2>1, <3>1, <3>2 DEF Closed
  <2>6. Cardinality(Taken') = Cardinality(Taken) + 1
    BY <1>2, <2>4, FS_AddElement
  <2>7. Cardinality(Closed') = Cardinality(Closed)
    BY <2>5
  <2> QED BY <1>1, <1>2, <1>3, <2>1, <2>6, <2>7 DEF Counted
<1>7. ASSUME NEW f \in Fds, Going(f)
      PROVE  Counted'
  <2>1. /\ sock' = [sock EXCEPT ![f] = "free"]
        /\ IF sock[f] = "gone" THEN Len(clients') = Len(clients)
           ELSE sock[f] = "typed" /\ Len(clients') = Len(clients) - 1
    BY <1>7, Goes
  <2>2. PICK j \in Slots : client_socket[j] = f /\ client_socket' = [client_socket EXCEPT ![j] = NoFd]
    BY <1>7, Goes
  <2>3. \A k \in Slots : client_socket'[k] = IF k = j THEN NoFd ELSE client_socket[k]
    BY <1>1, <2>2
  <2>4. Taken' = Taken \ {j} /\ j \in Taken
    BY <1>1, <2>2, <2>3 DEF Taken
  <2>5. Cardinality(Taken') = Cardinality(Taken) - 1
    BY <1>2, <2>4, FS_RemoveElement
  <2>6. \A g \in Fds : g # f => (InSlot(g)' <=> InSlot(g))
    BY <1>1, <2>2, <2>3 DEF InSlot
  <2>7. \A g \in Fds : sock'[g] = IF g = f THEN "free" ELSE sock[g]
    BY <1>1, <2>1
  <2>8. Closed' = Closed \ {f} /\ (sock[f] = "gone" <=> f \in Closed)
    <3>1. InSlot(f)
      BY <1>7 DEF Going
    <3> QED BY <2>6, <2>7, <3>1 DEF Closed
  <2>9. Cardinality(Closed') = IF sock[f] = "gone" THEN Cardinality(Closed) - 1 ELSE Cardinality(Closed)
    BY <1>2, <2>8, FS_RemoveElement
  <2>10. CASE sock[f] = "gone"
    <3>1. Len(clients') = Len(clients) /\ Cardinality(Closed') = Cardinality(Closed) - 1
      BY <2>1, <2>9, <2>10
    <3> QED BY <1>1, <1>2, <1>3, <2>5, <3>1 DEF Counted
  <2>11. CASE sock[f] # "gone"
    <3>1. Len(clients') = Len(clients) - 1 /\ Cardinality(Closed') = Cardinality(Closed)
      BY <2>1, <2>9, <2>11
    <3> QED BY <1>1, <1>2, <1>3, <2>5, <3>1 DEF Counted
  <2> QED BY <2>10, <2>11
<1>8. CASE SigPipe
  <2>1. client_socket' = [j \in Slots |-> NoFd] /\ clients' = <<>>
    BY <1>8 DEF SigPipe
  <2>2. Taken' = {} /\ Closed' = {}
    BY <1>1, <2>1 DEF Taken, Closed, InSlot
  <2>3. Cardinality(Taken') = 0 /\ Cardinality(Closed') = 0 /\ Len(clients') = 0
    BY <2>1, <2>2, FS_EmptySet
  <2> QED BY <1>3, <2>3 DEF Counted
<1> QED BY <1>5, <1>6, <1>7, <1>8, KindsOfSteps
-----------------------------------------------------------------------------
(* The line that runs.                                                     *)

\* What is at a place of the table.
LEMMA EntryAt ==
  ASSUME TableTypes, NEW k \in DOMAIN clients
  PROVE  clients[k].fd \in Fds /\ clients[k].id \in Slots /\ clients[k].next \in 0..MaxPipes
<1>1. clients[k] \in EntryType
  BY DEF TableTypes
<1> QED BY <1>1 DEF EntryType

\* The shell of an entry runs only while a line does.
LEMMA EntryRuns ==
  ASSUME TableTypes, NEW k \in DOMAIN clients, Entry(k)
  PROVE  ~Idle /\ turn.fd \in Fds
<1>1. turn.fd \in Fds
  BY EntryAt DEF Entry
<1>2. NoTurn.fd = NoFd
  BY DEF NoTurn
<1> QED BY <1>1, <1>2, FdsAssumption DEF Idle

\* The turn passes from one entry to the next.
LEMMA ServingKept ==
  ASSUME TableTypes, TurnTypes, Serving, Next
  PROVE  Serving' /\ TurnTypes'
<1> DEFINE Goal == Serving' /\ TurnTypes'
<1>1. sock \in [Fds -> {"free", "prompt", "typed", "gone"}]
  BY DEF TableTypes
<1>2. NoTurn.fd = NoFd /\ NoTurn.parsed = FALSE /\ NoTurn.out = NoPipe
  BY DEF NoTurn
<1>3. NoTurn \in [fd : Fds \cup {NoFd}, cmd : Cmds \cup {NoCmd}, k : Nat, parsed : BOOLEAN, out : 0..MaxPipes]
  BY NAssumption DEF NoTurn, NoPipe
<1>4. ASSUME UNCHANGED turn, busy' \in {busy, NoProc},
             ~Idle => sock'[turn.fd] = sock[turn.fd]
      PROVE  Goal
  BY <1>4 DEF Serving, TurnTypes, Idle
<1>5. ASSUME NEW f \in Fds, Accept(f) \/ Type(f) \/ Close(f)
      PROVE  Goal
  <2>1. UNCHANGED <<turn, busy>> /\ (Idle \/ (sock[f] = "prompt" /\ \E v : sock' = [sock EXCEPT ![f] = v]))
    BY <1>5 DEF Accept, Type, Close
  <2>2. ~Idle => sock'[turn.fd] = sock[turn.fd]
    BY <1>1, <2>1 DEF Serving
  <2> HIDE DEF Goal
  <2> QED BY <1>4, <2>1, <2>2
<1>6. ASSUME NEW f \in Fds, Serve(f)
      PROVE  Goal
  <2>1. ASSUME NEW c \in Cmds, StartShell(f, c), sock[f] = "typed", Idle
        PROVE  Goal
    <3>1. turn' = [NoTurn EXCEPT !.fd = f, !.cmd = c] /\ sock' = sock /\ busy' = busy
      BY <2>1 DEF StartShell
    <3>2. /\ turn' \in [fd : Fds \cup {NoFd}, cmd : Cmds \cup {NoCmd}, k : Nat, parsed : BOOLEAN, out : 0..MaxPipes]
          /\ turn'.fd = f /\ turn'.parsed = FALSE /\ turn'.out = NoPipe
      BY <1>2, <1>3, <3>1
    <3>3. busy' = NoProc /\ turn' # NoTurn
      BY <1>2, <2>1, <3>1, <3>2, FdsAssumption DEF Serving
    <3> QED BY <2>1, <3>1, <3>2, <3>3 DEF Serving, TurnTypes, Idle
  <2>2. ASSUME UNCHANGED <<turn, busy>>, Idle
        PROVE  Goal
    BY <1>4, <2>2
  <2> HIDE DEF Goal
  <2> QED BY <1>6, <2>1, <2>2 DEF Serve, Disconnect, Exit, Who, Name, Say
<1>7. ASSUME turn' = NoTurn, busy' = NoProc
      PROVE  Goal
  BY <1>2, <1>3, <1>7 DEF Serving, TurnTypes, Idle
<1>8. ASSUME NEW k \in DOMAIN clients, BuiltIn(k)
      PROVE  Goal
  <2>1. /\ ~Idle /\ turn.fd \in Fds /\ sock[turn.fd] = "typed" /\ UNCHANGED <<busy, sock>>
        /\ turn' = [turn EXCEPT !.k = k + 1] /\ k \in Nat /\ busy = NoProc
    BY <1>8, EntryRuns, Entries DEF BuiltIn, Serving, TableTypes
  <2>2. /\ turn' \in [fd : Fds \cup {NoFd}, cmd : Cmds \cup {NoCmd}, k : Nat, parsed : BOOLEAN, out : 0..MaxPipes]
        /\ turn'.fd = turn.fd /\ turn'.cmd = turn.cmd /\ turn'.parsed = turn.parsed /\ turn'.out = turn.out
    BY <2>1 DEF TurnTypes
  <2> QED BY <2>1, <2>2 DEF Serving, TurnTypes
<1>9. ASSUME NEW k \in DOMAIN clients, NEW x \in 0..MaxPipes, ParseSend(k, x)
      PROVE  Goal
  <2>1. /\ ~Idle /\ turn.fd \in Fds /\ sock[turn.fd] = "typed" /\ UNCHANGED <<busy, sock>>
        /\ turn' = [turn EXCEPT !.parsed = TRUE, !.out = x] /\ busy = NoProc /\ turn.cmd.send # 0
    BY <1>9, EntryRuns DEF ParseSend, Serving
  <2>2. /\ turn' \in [fd : Fds \cup {NoFd}, cmd : Cmds \cup {NoCmd}, k : Nat, parsed : BOOLEAN, out : 0..MaxPipes]
        /\ turn'.fd = turn.fd /\ turn'.cmd = turn.cmd /\ turn'.parsed = TRUE
    BY <2>1 DEF TurnTypes
  <2> QED BY <2>1, <2>2 DEF Serving, TurnTypes
<1>10. ASSUME NEW k \in DOMAIN clients, NEW x \in 0..MaxPipes, NEW p \in Procs, Line(k, p, x)
       PROVE  Goal
  <2>1. ~Idle /\ turn.fd \in Fds /\ sock[turn.fd] = "typed" /\ sock' = sock
        /\ turn' = [NoTurn EXCEPT !.fd = turn.fd, !.cmd = turn.cmd, !.k = k + 1] /\ k \in Nat
    BY <1>10, EntryRuns, Entries DEF Line, Serving, TableTypes
  <2>2. turn.cmd \in Cmds \cup {NoCmd}
    BY DEF TurnTypes
  <2>3. /\ turn' \in [fd : Fds \cup {NoFd}, cmd : Cmds \cup {NoCmd}, k : Nat, parsed : BOOLEAN, out : 0..MaxPipes]
        /\ turn'.fd = turn.fd /\ turn'.parsed = FALSE /\ turn'.out = NoPipe
    <3>1. k + 1 \in Nat
      BY <2>1
    <3>2. turn' = [fd |-> turn.fd, cmd |-> turn.cmd, k |-> k + 1, parsed |-> FALSE, out |-> NoPipe]
      BY <2>1 DEF NoTurn
    <3>3. ASSUME NEW f \in Fds, NEW c \in Cmds \cup {NoCmd}, NEW n \in Nat, NEW o \in 0..MaxPipes, NEW t,
                 t = [fd |-> f, cmd |-> c, k |-> n, parsed |-> FALSE, out |-> o]
          PROVE  /\ t \in [fd : Fds \cup {NoFd}, cmd : Cmds \cup {NoCmd}, k : Nat, parsed : BOOLEAN, out : 0..MaxPipes]
                 /\ t.fd = f /\ t.parsed = FALSE /\ t.out = o
      BY <3>3
    <3>4. NoPipe \in 0..MaxPipes /\ turn.fd \in Fds
      BY <2>1, NAssumption DEF NoPipe
    <3> QED BY <2>2, <3>1, <3>2, <3>3, <3>4
  <2>4. turn' # NoTurn
    BY <1>2, <2>1, <2>3, FdsAssumption
  <2> QED BY <2>1, <2>3, <2>4 DEF Serving, TurnTypes, Idle
<1>11. ASSUME EndShell \/ SigPipe
       PROVE  Goal
  <2> HIDE DEF Goal
  <2> QED BY <1>7, <1>11 DEF EndShell, SigPipe
<1>12. ASSUME Wait \/ \E p \in Procs : Finish(p)
       PROVE  Goal
  <2> HIDE DEF Goal
  <2> QED BY <1>4, <1>12 DEF Wait, Finish
<1> HIDE DEF Goal
<1>13. Goal
  BY <1>5, <1>6, <1>8, <1>9, <1>10, <1>11, <1>12 DEF Next, Shell
<1> QED BY <1>13 DEF Goal

\* The pipe of <n has a type.
LEMMA InputType ==
  ASSUME PipeTypes, NEW c \in Cmds, NEW me, me.next \in 0..MaxPipes
  PROVE  Input(c, me) \in {Socket} \cup (0..MaxPipes)
<1>1. \A u \in upipes : u.pipe \in 0..MaxPipes
  BY NAssumption DEF PipeTypes, Pipes
<1>2. Pipe(c.recv, me.id) # {} => (CHOOSE u \in Pipe(c.recv, me.id) : TRUE).pipe \in 0..MaxPipes
  BY <1>1 DEF Pipe
<1>3. NoPipe \in 0..MaxPipes
  BY NAssumption DEF NoPipe
<1> QED BY <1>2, <1>3 DEF Input


\* The steps keep the types of the pipes and of the processes.
LEMMA PipesAndProcsTyped ==
  ASSUME TableTypes, PipeTypes, TurnTypes, ProcTypes, Listed, Next
  PROVE  PipeTypes' /\ ProcTypes'
<1> DEFINE Goal == PipeTypes' /\ ProcTypes'
<1>1. NoPipe \in 0..MaxPipes /\ Pipes \subseteq 0..MaxPipes /\ (0..MaxPipes) \ {NoPipe} \subseteq Pipes
  BY NAssumption DEF NoPipe, Pipes
<1>2. Off \in ProcType /\ [Off EXCEPT !.st = "ended"] \in ProcType
  BY <1>1 DEF Off, ProcType
<1>3. \A k \in DOMAIN clients : clients[k].id \in Slots /\ clients[k].next \in 0..MaxPipes
  BY EntryAt
<1>4. \A n : InCopy(n) => n \in Slots
  <2>1. \A d \in Elems(clients_copy) : d \in CopyType
    BY Entries DEF TableTypes
  <2> QED BY <2>1 DEF InCopy, CopyType
<1>5. upipes \subseteq [s : Slots, r : Slots, pipe : Pipes] /\ leaked \subseteq Pipes
  BY DEF PipeTypes
<1>6. busy \in Procs \cup {NoProc} /\ proc \in [Procs -> ProcType]
  BY DEF ProcTypes
<1>7. ASSUME UNCHANGED <<upipes, leaked, busy, proc>>
      PROVE  Goal
  BY <1>7 DEF PipeTypes, ProcTypes
<1>8. ASSUME NEW f \in Fds, Accept(f) \/ Type(f) \/ Close(f)
      PROVE  Goal
  <2> HIDE DEF Goal
  <2> QED BY <1>7, <1>8 DEF Accept, Type, Close, pipeVars
<1>9. ASSUME NEW f \in Fds, Serve(f)
      PROVE  Goal
  <2>1. ASSUME NEW c \in Cmds, Exit(f, c), InSlot(f)
        PROVE  Goal
    <3>1. PICK k \in 1..Len(clients) :
            upipes' \subseteq upipes /\ leaked' = leaked \cup ({clients[k].next} \ {NoPipe})
      BY <2>1, Exits
    <3>2. k \in DOMAIN clients
      BY Entries DEF TableTypes
    <3>3. leaked' \subseteq Pipes
      BY <1>1, <1>3, <1>5, <3>1, <3>2
    <3>4. UNCHANGED <<busy, proc>>
      BY <2>1 DEF Exit
    <3> QED BY <1>5, <1>6, <3>1, <3>3, <3>4 DEF PipeTypes, ProcTypes
  <2>2. ASSUME UNCHANGED <<pipeVars, busy, proc>>
        PROVE  Goal
    BY <1>7, <2>2 DEF pipeVars
  <2> HIDE DEF Goal
  <2> QED BY <1>9, <2>1, <2>2 DEF Serve, Disconnect, Who, Name, Say, StartShell
<1>10. ASSUME NEW k \in DOMAIN clients, BuiltIn(k)
       PROVE  Goal
  <2>1. /\ UNCHANGED <<upipes, busy, proc>>
        /\ leaked' = leaked \cup ({clients[k].next} \ {NoPipe})
    BY <1>10 DEF BuiltIn
  <2>2. {clients[k].next} \ {NoPipe} \subseteq Pipes
    BY <1>3 DEF Pipes, NoPipe
  <2> QED BY <1>5, <1>6, <2>1, <2>2 DEF PipeTypes, ProcTypes
<1>11. ASSUME NEW k \in DOMAIN clients, NEW x \in 0..MaxPipes, ParseSend(k, x)
       PROVE  Goal
  <2> DEFINE u == [s |-> clients[k].id, r |-> turn.cmd.send, pipe |-> x]
  <2>1. UNCHANGED <<leaked, busy, proc>>
    BY <1>11 DEF ParseSend
  <2>2. upipes' = upipes \/ (x \in Pipes /\ turn.cmd.send \in Slots /\ upipes' = upipes \cup {u})
    BY <1>4, <1>11 DEF ParseSend, CanSend, FirstPipe
  <2>3. x \in Pipes /\ turn.cmd.send \in Slots => u \in [s : Slots, r : Slots, pipe : Pipes]
    BY <1>3
  <2> HIDE DEF u
  <2>4. upipes' \subseteq [s : Slots, r : Slots, pipe : Pipes]
    BY <1>5, <2>2, <2>3
  <2> QED BY <1>5, <1>6, <2>1, <2>4 DEF PipeTypes, ProcTypes
<1>12. ASSUME NEW k \in DOMAIN clients, NEW x \in 0..MaxPipes, NEW p \in Procs, Line(k, p, x)
       PROVE  Goal
  <2> DEFINE q == [st |-> "run", in |-> Input(turn.cmd, clients[k]), big |-> turn.cmd.big,
                   out |-> IF turn.cmd.next THEN x ELSE turn.out, holds |-> Inherited(k)]
  <2>1. /\ proc' = [proc EXCEPT ![p] = q] /\ leaked' = leaked /\ upipes' \subseteq upipes
        /\ busy' \in {NoProc, p} /\ turn.cmd.op = "line"
    BY <1>12 DEF Line
  <2>2. turn.cmd \in Cmds /\ turn.cmd.big \in BOOLEAN
    <3>1. turn.cmd \in Cmds
      BY <2>1 DEF TurnTypes, NoCmd
    <3> QED BY <3>1, CmdsAssumption DEF CmdType
  <2>3. Input(turn.cmd, clients[k]) \in {Socket} \cup (0..MaxPipes)
    BY <1>3, <2>2, InputType
  <2>4. Inherited(k) \subseteq Pipes
    BY <1>1, <1>3, <1>5 DEF Inherited
  <2>5. (IF turn.cmd.next THEN x ELSE turn.out) \in 0..MaxPipes
    BY DEF TurnTypes
  <2>6. q \in ProcType
    BY <2>2, <2>3, <2>4, <2>5 DEF ProcType
  <2> HIDE DEF q
  <2>7. proc' \in [Procs -> ProcType]
    BY <1>6, <2>1, <2>6
  <2> QED BY <1>5, <2>1, <2>7 DEF PipeTypes, ProcTypes
<1>13. ASSUME EndShell
       PROVE  Goal
  <2> HIDE DEF Goal
  <2> QED BY <1>7, <1>13 DEF EndShell, pipeVars
<1>14. ASSUME Wait \/ \E p \in Procs : Finish(p)
       PROVE  Goal
  <2>1. UNCHANGED <<upipes, leaked>> /\ busy' \in {busy, NoProc}
    BY <1>14 DEF Wait, Finish, pipeVars
  <2>2. \E p : proc' = [proc EXCEPT ![p] = Off] \/ proc' = [proc EXCEPT ![p] = [Off EXCEPT !.st = "ended"]]
    BY <1>14 DEF Wait, Finish
  <2>3. proc' \in [Procs -> ProcType]
    BY <1>2, <1>6, <2>2
  <2> QED BY <1>5, <1>6, <2>1, <2>3 DEF PipeTypes, ProcTypes
<1>15. ASSUME SigPipe
       PROVE  Goal
  <2>1. upipes' = {} /\ leaked' = {} /\ proc' = [p \in Procs |-> Off] /\ busy' = busy
    BY <1>15 DEF SigPipe
  <2> QED BY <1>2, <1>6, <2>1 DEF PipeTypes, ProcTypes
<1> HIDE DEF Goal
<1>16. Goal
  BY <1>8, <1>9, <1>10, <1>11, <1>12, <1>13, <1>14, <1>15 DEF Next, Shell
<1> QED BY <1>16 DEF Goal
-----------------------------------------------------------------------------
Typed == TableTypes /\ PipeTypes /\ TurnTypes /\ ProcTypes

\* The inductive invariant of the tables.
Tables == Typed /\ Sockets /\ Listed /\ Serving /\ Counted

\* It holds of an empty server, and every step keeps it.
LEMMA TablesInit == Init => Tables
<1> SUFFICES ASSUME Init PROVE Tables
  OBVIOUS
<1>1. /\ client_socket = [j \in Slots |-> NoFd] /\ clients = <<>> /\ clients_copy = <<>>
      /\ upipes = {} /\ leaked = {} /\ sock = [f \in Fds |-> "free"]
  BY DEF Init
<1>2. \A f \in Fds : ~InSlot(f)
  BY <1>1, FdsAssumption DEF InSlot
<1>3. <<>> \in Seq(EntryType) /\ <<>> \in Seq(CopyType) /\ Len(<<>>) = 0
  OBVIOUS
<1>4. TableTypes /\ PipeTypes
  BY <1>1, <1>3 DEF TableTypes, PipeTypes
<1>5. TurnTypes /\ ProcTypes
  BY NAssumption DEF Init, TurnTypes, NoTurn, ProcTypes, ProcType, Off, NoPipe
<1>6. Sockets /\ Listed
  BY <1>1, <1>2 DEF Sockets, Listed
<1>7. Serving
  BY DEF Init, Serving, Idle, NoTurn
<1>8. Counted
  <2>1. Taken = {} /\ Closed = {}
    BY <1>1, <1>2 DEF Taken, Closed
  <2>2. Cardinality(Taken) = 0 /\ Cardinality(Closed) = 0 /\ Len(clients) = 0
    BY <1>1, <1>3, <2>1, FS_EmptySet
  <2> QED BY <2>2, NAssumption DEF Counted
<1> QED BY <1>4, <1>5, <1>6, <1>7, <1>8 DEF Tables, Typed

LEMMA TablesKept == Tables /\ [Next]_vars => Tables'
<1> SUFFICES ASSUME Tables, [Next]_vars PROVE Tables'
  OBVIOUS
<1>1. CASE Next
  <2>1. TableTypes /\ PipeTypes /\ TurnTypes /\ ProcTypes /\ Sockets /\ Listed /\ Serving /\ Counted
    BY DEF Tables, Typed
  <2>2. TableTypes' /\ Sockets' /\ Listed'
    BY <1>1, <2>1, ListedKept
  <2>3. Serving' /\ TurnTypes'
    BY <1>1, <2>1, ServingKept
  <2>4. PipeTypes' /\ ProcTypes'
    BY <1>1, <2>1, PipesAndProcsTyped
  <2>5. Counted'
    BY <1>1, <2>1, CountedKept
  <2> QED BY <2>2, <2>3, <2>4, <2>5 DEF Tables, Typed
<1>2. CASE UNCHANGED vars
  BY <1>2 DEF vars, tables, pipeVars, Tables, Typed, TableTypes, PipeTypes, TurnTypes, ProcTypes, Sockets,
              InSlot, Listed, Serving, Idle, Counted, Taken, Closed
<1> QED BY <1>1, <1>2

LEMMA TablesHold == Spec => []Tables
  BY TablesInit, TablesKept, PTL DEF Spec

\* Every variable keeps its type, and the tables never have more entries than ids
\* and clients that closed without exit.
THEOREM TypeCorrect == Spec => []TypeOK
<1>1. Tables => TypeOK
  <2> SUFFICES ASSUME Tables PROVE TypeOK
    OBVIOUS
  <2>1. Len(clients) \in Nat
    BY DEF Tables, Typed, TableTypes
  <2>2. Len(clients) <= N + MaxLost
    BY <2>1, Counts, NAssumption DEF Tables, Counted
  <2> QED BY <2>2 DEF Tables, Typed, TypeOK
<1> QED BY <1>1, TablesHold, PTL

\* Whoever is online is in both tables under its own id and descriptor, whatever
\* entries were left behind: no exit takes away the entry of somebody else.
THEOREM OnlineStayListed == Spec => []OnlineListed
<1>1. Tables => OnlineListed
  <2> SUFFICES ASSUME Tables, NEW j \in Slots, client_socket[j] # NoFd,
                      NEW T \in {Elems(clients), Elems(clients_copy)}
               PROVE  \E e \in T : e.id = j /\ e.fd = client_socket[j]
    BY DEF OnlineListed
  <2>1. Has(clients, j, client_socket[j]) /\ Has(clients_copy, j, client_socket[j])
    BY DEF Tables, Listed
  <2>2. /\ \A k \in 1..Len(clients) : clients[k] \in Elems(clients)
        /\ \A k \in 1..Len(clients_copy) : clients_copy[k] \in Elems(clients_copy)
    BY Entries DEF Tables, Typed, TableTypes
  <2> QED BY <2>1, <2>2 DEF Has
<1> QED BY <1>1, TablesHold, PTL
-----------------------------------------------------------------------------
(* Who has a pending user pipe.                                            *)

\* A pending user pipe is no other one and no pipe of a shell, and nobody reads from
\* it, keeps it, or writes to it but the process the server waits for.
Private(u) ==
  /\ u.pipe \notin Nexts \cup leaked
  /\ \A v \in upipes : v.pipe = u.pipe => v = u
  /\ \A p \in Procs : proc[p].st = "run" =>
       u.pipe \notin proc[p].holds /\ proc[p].in # u.pipe /\ (proc[p].out = u.pipe => p = busy)

AllPrivate == \A u \in upipes : Private(u)

\* The pipes of shells, at the places of the table.
LEMMA NextsAre ==
  ASSUME TableTypes
  PROVE  /\ \A n : n \in Nexts <=> n # NoPipe /\ \E k \in 1..Len(clients) : clients[k].next = n
         /\ clients' \in Seq(EntryType) =>
              \A n : n \in Nexts' <=> n # NoPipe /\ \E k \in 1..Len(clients') : clients'[k].next = n
<1>1. ASSUME NEW s \in Seq(EntryType), NEW n
      PROVE  n \in {c.next : c \in Elems(s)} <=> \E k \in 1..Len(s) : s[k].next = n
  <2>1. DOMAIN s = 1..Len(s)
    BY Entries
  <2> QED BY <2>1 DEF Elems
<1>2. clients \in Seq(EntryType)
  BY DEF TableTypes
<1> QED BY <1>1, <1>2 DEF Nexts

LEMMA NextsChange ==
  ASSUME TableTypes, NEW k \in DOMAIN clients, NEW x \in 0..MaxPipes, NextIs(k, x)
  PROVE  Nexts' \subseteq Nexts \cup {x} /\ NoPipe \notin Nexts'
<1>1. clients \in Seq(EntryType) /\ DOMAIN clients = 1..Len(clients)
      /\ \A j \in 1..Len(clients) : clients[j] \in EntryType
  BY Entries DEF TableTypes
<1> DEFINE e == [clients[k] EXCEPT !.next = x]
<1>2. e \in EntryType /\ e.next = x
  BY <1>1 DEF EntryType
<1>3. clients' = [clients EXCEPT ![k] = e]
  BY DEF NextIs
<1> HIDE DEF e
<1>4. clients' \in Seq(EntryType) /\ Len(clients') = Len(clients)
  BY <1>1, <1>2, <1>3
<1>5. \A j \in 1..Len(clients) : clients'[j].next = IF j = k THEN x ELSE clients[j].next
  BY <1>1, <1>2, <1>3
<1> QED BY <1>1, <1>4, <1>5, NextsAre

\* A step that makes no pipe and starts no process.
LEMMA StayPrivate ==
  ASSUME AllPrivate, upipes' \subseteq upipes, Nexts' \cup leaked' \subseteq Nexts \cup leaked,
         \A p \in Procs : proc'[p].st = "run" => proc'[p] = proc[p] /\ (p = busy => p = busy')
  PROVE  AllPrivate'
  BY DEF AllPrivate, Private

\* Serving a client gives no pipe to anybody.
LEMMA ServePrivate ==
  ASSUME Typed, Listed, AllPrivate, NEW f \in Fds, Serve(f)
  PROVE  AllPrivate'
<1>1. TableTypes /\ clients \in Seq(EntryType) /\ Idle /\ InSlot(f)
  BY DEF Serve, Typed, TableTypes
<1>2. UNCHANGED <<busy, proc>>
  BY DEF Serve, Disconnect, Exit, Who, Name, Say, StartShell
<1>3. ASSUME upipes' \subseteq upipes, Nexts' \cup leaked' \subseteq Nexts \cup leaked
      PROVE  AllPrivate'
  BY <1>2, <1>3, StayPrivate
<1>4. ASSUME NEW c \in Cmds, Exit(f, c)
      PROVE  AllPrivate'
  <2>1. PICK k \in 1..Len(clients) :
          /\ clients' = Without(clients, k) /\ upipes' \subseteq upipes
          /\ leaked' = leaked \cup ({clients[k].next} \ {NoPipe})
    BY <1>1, <1>4, Exits
  <2>2. /\ clients' \in Seq(EntryType)
        /\ \A j \in 1..Len(clients') : \E i \in 1..Len(clients) : clients'[j] = clients[i]
    BY <1>1, <2>1, EntryErased, EntriesLeft
  <2>3. Nexts' \subseteq Nexts
    BY <1>1, <2>2, NextsAre
  <2>4. {clients[k].next} \ {NoPipe} \subseteq Nexts
    BY <1>1, NextsAre
  <2> QED BY <1>3, <2>1, <2>3, <2>4
<1>5. ASSUME NEW c \in Cmds, Who(f, c)
      PROVE  AllPrivate'
  <2>1. /\ clients' \in Seq(EntryType) /\ Len(clients') = Len(clients)
        /\ \A k \in 1..Len(clients) : \E j \in 1..Len(clients) : clients'[k] = clients[j]
    BY <1>1, <1>5, EntriesSorted
  <2>2. Nexts' \subseteq Nexts
    BY <1>1, <2>1, NextsAre
  <2>3. UNCHANGED <<upipes, leaked>>
    BY <1>5 DEF Who, pipeVars
  <2> QED BY <1>3, <2>2, <2>3
<1>6. ASSUME NEW c \in Cmds, Name(f, c)
      PROVE  AllPrivate'
  <2>1. UNCHANGED <<upipes, leaked>> /\ c.name \in Names
    BY <1>6, CmdsAssumption DEF Name, Received, pipeVars
  <2>2. CASE clients' = clients
    <3>1. Nexts' = Nexts
      BY <2>2 DEF Nexts, Elems
    <3> QED BY <1>3, <2>1, <3>1
  <2>3. CASE clients' = Named(clients, f, c.name)
    <3>1. clients' \in Seq(EntryType) /\ Len(clients') = Len(clients) /\ EntryType \in {EntryType, CopyType}
      BY <1>1, <2>1, <2>3, EntryNamed
    <3>2. \A k \in 1..Len(clients) : clients'[k].next = clients[k].next
      <4>1. DOMAIN clients = 1..Len(clients) /\ \A k \in 1..Len(clients) : clients[k] \in EntryType
        BY <1>1, Entries
      <4>2. \A e \in EntryType : [e EXCEPT !.name = c.name].next = e.next
        BY DEF EntryType
      <4>3. \A k \in 1..Len(clients) : clients'[k] \in {clients[k], [clients[k] EXCEPT !.name = c.name]}
        BY <2>3, <4>1 DEF Named
      <4> QED BY <4>1, <4>2, <4>3
    <3>3. Nexts' \subseteq Nexts
      BY <1>1, <3>1, <3>2, NextsAre
    <3> QED BY <1>3, <2>1, <3>3
  <2> QED BY <1>6, <2>2, <2>3 DEF Name
<1>7. ASSUME UNCHANGED <<clients, pipeVars>>
      PROVE  AllPrivate'
  <2>1. Nexts' = Nexts /\ UNCHANGED <<upipes, leaked>>
    BY <1>7 DEF Nexts, Elems, pipeVars
  <2> QED BY <1>3, <2>1
<1> QED BY <1>4, <1>5, <1>6, <1>7 DEF Serve, Disconnect, Say, StartShell, tables

\* >n makes a pipe that nobody has.
LEMMA SendPrivate ==
  ASSUME Typed, AllPrivate, NEW k \in DOMAIN clients, NEW x \in 0..MaxPipes, ParseSend(k, x)
  PROVE  AllPrivate'
<1>1. UNCHANGED <<clients, leaked, busy, proc>>
  BY DEF ParseSend, tables
<1>2. Nexts' = Nexts
  BY <1>1 DEF Nexts, Elems
<1>3. CASE upipes' = upipes
  BY <1>1, <1>2, <1>3, StayPrivate
<1>4. CASE upipes' # upipes
  <2> DEFINE new == [s |-> clients[k].id, r |-> turn.cmd.send, pipe |-> x]
  <2>1. upipes' = upipes \cup {new} /\ new.pipe = x /\ Unused(x)
    BY <1>4 DEF ParseSend, FirstPipe
  <2> HIDE DEF new
  <2>2. /\ x \notin Nexts \cup leaked /\ \A v \in upipes : v.pipe # x
        /\ \A p \in Procs : proc[p].st = "run" => x \notin proc[p].holds /\ proc[p].in # x /\ proc[p].out # x
    BY <2>1 DEF Unused, Open, Holders, Readers, Writers
  <2>3. ASSUME NEW u \in upipes \cup {new}
        PROVE  Private(u)'
    <3>1. u = new \/ (u \in upipes /\ Private(u))
      BY DEF AllPrivate
    <3>2. u.pipe \notin Nexts' \cup leaked'
      BY <1>1, <1>2, <2>1, <2>2, <3>1 DEF Private
    <3>3. \A v \in upipes' : v.pipe = u.pipe => v = u
      BY <2>1, <2>2, <3>1 DEF Private
    <3>4. ASSUME NEW p \in Procs, proc'[p].st = "run"
          PROVE  u.pipe \notin proc'[p].holds /\ proc'[p].in # u.pipe /\ (proc'[p].out = u.pipe => p = busy')
      <4>1. proc'[p] = proc[p] /\ busy' = busy
        BY <1>1
      <4> QED BY <2>1, <2>2, <3>1, <3>4, <4>1 DEF Private
    <3> QED BY <3>2, <3>3, <3>4 DEF Private
  <2> QED BY <2>1, <2>3 DEF AllPrivate
<1> QED BY <1>3, <1>4

\* The process of a line takes the user pipe it reads out of the list, and the server
\* waits for the one that writes to a user pipe.
LEMMA LinePrivate ==
  ASSUME Typed, Serving, AllPrivate,
         NEW k \in DOMAIN clients, NEW x \in 0..MaxPipes, NEW p \in Procs, Line(k, p, x)
  PROVE  AllPrivate'
<1> DEFINE c == turn.cmd
           me == clients[k]
           in == Input(c, me)
           out == IF c.next THEN x ELSE turn.out
           q == [st |-> "run", in |-> in, big |-> c.big, out |-> out, holds |-> Inherited(k)]
<1>1. /\ proc' = [proc EXCEPT ![p] = q] /\ leaked' = leaked /\ busy = NoProc
      /\ busy' = (IF c.next THEN NoProc ELSE p) /\ clients' = [clients EXCEPT ![k].next = x]
      /\ upipes' = upipes \ (IF c.recv # 0 THEN Pipe(c.recv, me.id) ELSE {})
      /\ IF c.next THEN FirstPipe(x) ELSE x = NoPipe
  BY DEF Line, Used
<1>2. TableTypes /\ clients \in Seq(EntryType) /\ me \in EntryType /\ k \in 1..Len(clients)
  BY Entries DEF Typed, TableTypes
<1>3. \A u \in upipes : u.pipe \in Pipes /\ u.pipe # NoPipe /\ u.pipe # Socket
  BY NAssumption DEF Typed, PipeTypes, Pipes, NoPipe, Socket
<1>4. q.st = "run" /\ q.in = in /\ q.out = out /\ q.holds = Inherited(k)
  OBVIOUS
<1>5. \A r \in Procs : proc'[r] = IF r = p THEN q ELSE proc[r]
  BY <1>1 DEF Typed, ProcTypes
<1> HIDE DEF q, in, out
<1>6. me.next \in Nexts \cup {NoPipe} /\ Inherited(k) \subseteq Nexts \cup leaked
  <2>1. DOMAIN clients = 1..Len(clients)
    BY <1>2, Entries
  <2> QED BY <1>2, <2>1, NextsAre DEF Inherited
<1>7. Nexts' \subseteq Nexts \cup {x}
  <2>1. NextIs(k, x)
    BY DEF Line, NextIs
  <2> QED BY <1>2, <2>1, NextsChange
<1>8. \A u \in upipes : u.pipe # x
  BY <1>1, <1>3 DEF FirstPipe, Unused, Open
<1>9. ASSUME NEW u \in upipes'
      PROVE  Private(u)'
  <2>1. u \in upipes /\ Private(u) /\ u.pipe \in Pipes /\ u.pipe # NoPipe /\ u.pipe # Socket /\ u.pipe # x
    BY <1>1, <1>3, <1>8 DEF AllPrivate
  <2>2. u.pipe \notin Nexts' \cup leaked'
    BY <1>1, <1>7, <2>1 DEF Private
  <2>3. \A v \in upipes' : v.pipe = u.pipe => v = u
    BY <1>1, <2>1 DEF Private
  <2>4. u.pipe \notin Inherited(k)
    BY <1>6, <2>1 DEF Private
  <2>5. in # u.pipe
    <3>1. me.next # u.pipe
      BY <1>6, <2>1 DEF Private
    <3>2. CASE c.recv # 0 /\ Pipe(c.recv, me.id) # {}
      <4> DEFINE w == CHOOSE v \in Pipe(c.recv, me.id) : TRUE
      <4>1. w \in Pipe(c.recv, me.id)
        BY <3>2
      <4>2. w \in upipes /\ w # u
        BY <1>1, <3>2, <4>1 DEF Pipe
      <4>3. w.pipe # u.pipe
        BY <2>1, <4>2 DEF Private
      <4> HIDE DEF w
      <4>4. in \in {NoPipe, w.pipe}
        BY <3>2 DEF in, Input, w
      <4> QED BY <2>1, <4>3, <4>4
    <3>3. CASE ~(c.recv # 0 /\ Pipe(c.recv, me.id) # {})
      <4>1. in \in {me.next, NoPipe, Socket}
        BY <3>3 DEF in, Input
      <4> QED BY <2>1, <3>1, <4>1
    <3> QED BY <3>2, <3>3
  <2>6. out = u.pipe => p = busy'
    BY <1>1, <2>1 DEF out
  <2>7. ASSUME NEW r \in Procs, proc'[r].st = "run"
        PROVE  u.pipe \notin proc'[r].holds /\ proc'[r].in # u.pipe /\ (proc'[r].out = u.pipe => r = busy')
    <3>1. CASE r = p
      BY <1>4, <1>5, <2>4, <2>5, <2>6, <3>1
    <3>2. CASE r # p
      <4>1. proc'[r] = proc[r] /\ r # busy
        BY <1>1, <1>5, <3>2, ProcsAssumption
      <4> QED BY <2>1, <2>7, <4>1 DEF Private
    <3> QED BY <3>1, <3>2
  <2> QED BY <2>2, <2>3, <2>7 DEF Private
<1> QED BY <1>9 DEF AllPrivate

\* Every step keeps the pending user pipes private.
LEMMA PrivateKept == ASSUME Tables, AllPrivate, Next PROVE AllPrivate'
<1>1. Typed /\ Listed /\ Serving /\ TableTypes /\ clients \in Seq(EntryType)
  BY DEF Tables, Typed, TableTypes
<1>2. ASSUME UNCHANGED <<clients, upipes, leaked>>,
             \A p \in Procs : proc'[p].st = "run" => proc'[p] = proc[p] /\ (p = busy => p = busy')
      PROVE  AllPrivate'
  <2>1. Nexts' = Nexts
    BY <1>2 DEF Nexts, Elems
  <2> QED BY <1>2, <2>1, StayPrivate
<1>3. ASSUME NEW f \in Fds, Accept(f)
      PROVE  AllPrivate'
  <2>1. PICK j \in Slots :
          clients' = Append(clients, [fd |-> f, id |-> j, name |-> Anon, next |-> NoPipe])
    BY <1>3 DEF Accept
  <2> DEFINE e == [fd |-> f, id |-> j, name |-> Anon, next |-> NoPipe]
  <2>2. e \in EntryType /\ e.next = NoPipe /\ clients' = Append(clients, e)
    BY <2>1, NAssumption DEF EntryType, NoPipe
  <2> HIDE DEF e
  <2>3. /\ clients' \in Seq(EntryType) /\ Len(clients') = Len(clients) + 1
        /\ \A k \in 1..Len(clients) : clients'[k] = clients[k]
        /\ clients'[Len(clients) + 1] = e
    BY <1>1, <2>2, EntryAdded
  <2>4. \A k \in 1..Len(clients') : k \in 1..Len(clients) \/ k = Len(clients) + 1
    BY <1>1, <2>3, Entries
  <2>5. Nexts' \subseteq Nexts
    BY <1>1, <2>2, <2>3, <2>4, NextsAre
  <2>6. UNCHANGED <<upipes, leaked, busy, proc>>
    BY <1>3 DEF Accept, pipeVars
  <2> QED BY <2>5, <2>6, StayPrivate
<1>4. ASSUME NEW f \in Fds, Type(f) \/ Close(f)
      PROVE  AllPrivate'
  BY <1>2, <1>4 DEF Type, Close, tables, pipeVars
<1>5. ASSUME NEW f \in Fds, Serve(f)
      PROVE  AllPrivate'
  BY <1>1, <1>5, ServePrivate
<1>6. ASSUME EndShell
      PROVE  AllPrivate'
  BY <1>2, <1>6 DEF EndShell, tables, pipeVars
<1>10. ASSUME NEW k \in DOMAIN clients, BuiltIn(k)
       PROVE  AllPrivate'
  <2>1. /\ NextIs(k, NoPipe) /\ UNCHANGED <<upipes, busy, proc>>
        /\ leaked' = leaked \cup ({clients[k].next} \ {NoPipe})
    BY <1>10 DEF BuiltIn, NextIs
  <2>2. Nexts' \subseteq Nexts
    BY <1>1, <2>1, NoPipeIs, NextsChange
  <2>3. {clients[k].next} \ {NoPipe} \subseteq Nexts
    BY <1>1, Entries, NextsAre
  <2>4. Nexts' \cup leaked' \subseteq Nexts \cup leaked
    BY <2>1, <2>2, <2>3
  <2> QED BY <2>1, <2>4, StayPrivate
<1>7. ASSUME Wait
      PROVE  AllPrivate'
  <2>1. UNCHANGED <<clients, upipes, leaked>> /\ busy \in Procs /\ proc' = [proc EXCEPT ![busy] = Off]
    BY <1>1, <1>7 DEF Wait, tables, pipeVars, Typed, ProcTypes
  <2>2. Off.st # "run"
    BY DEF Off
  <2>3. \A p \in Procs : proc'[p] = IF p = busy THEN Off ELSE proc[p]
    BY <1>1, <2>1 DEF Typed, ProcTypes
  <2> QED BY <1>2, <2>1, <2>2, <2>3
<1>8. ASSUME NEW r \in Procs, Finish(r)
      PROVE  AllPrivate'
  <2>1. UNCHANGED <<clients, upipes, leaked, busy>>
    BY <1>8 DEF Finish, tables, pipeVars
  <2>2. Off.st # "run" /\ [Off EXCEPT !.st = "ended"].st # "run"
    BY DEF Off
  <2>3. \A p \in Procs : p # r => proc'[p] = proc[p]
    BY <1>1, <1>8 DEF Finish, Typed, ProcTypes
  <2>4. proc'[r].st # "run"
    BY <1>1, <1>8, <2>2 DEF Finish, Typed, ProcTypes
  <2> QED BY <1>2, <2>1, <2>3, <2>4
<1>9. ASSUME SigPipe
      PROVE  AllPrivate'
  BY <1>9 DEF SigPipe, AllPrivate
<1> QED BY <1>1, <1>3, <1>4, <1>5, <1>6, <1>7, <1>8, <1>9, <1>10, SendPrivate, LinePrivate DEF Next, Shell

\* Between commands nobody but the server has a pending user pipe, whatever ran
\* before and whoever has left: the receiver will see the end of its data.
THEOREM PipesStayAlone == Spec => []PipesAlone
<1>1. Init => AllPrivate
  BY DEF Init, AllPrivate
<1>2. Tables /\ AllPrivate /\ [Next]_vars => AllPrivate'
  <2> SUFFICES ASSUME Tables, AllPrivate, [Next]_vars PROVE AllPrivate'
    OBVIOUS
  <2>1. CASE UNCHANGED vars
    BY <2>1 DEF vars, tables, pipeVars, AllPrivate, Private, Nexts, Elems
  <2> QED BY <2>1, PrivateKept
<1>3. Tables /\ AllPrivate => PipesAlone
  BY ProcsAssumption DEF Tables, Serving, AllPrivate, Private, PipesAlone, Readers, Writers, Holders
<1> QED BY <1>1, <1>2, <1>3, TablesHold, PTL DEF Spec
-----------------------------------------------------------------------------
(* The users, when every client leaves by exit.                            *)

\* No entry is left behind: nobody closes the connection without exit.
NobodyCloses == MaxLost = 0

\* Table s lists id i with descriptor f and name n.
Lists(s, i, f, n) == \E k \in 1..Len(s) : s[k].id = i /\ s[k].fd = f /\ s[k].name = n

\* Table s lists an id once.
OneEach(s) == \A j, k \in 1..Len(s) : s[j].id = s[k].id => j = k

\* Both tables list the same users, once each, and only those with a socket.
Agreed ==
  /\ OneEach(clients) /\ OneEach(clients_copy)
  /\ \A i, f, n : Lists(clients, i, f, n) <=> Lists(clients_copy, i, f, n)
  /\ \A i, f, n : Lists(clients, i, f, n) => client_socket[i] = f

\* A new entry is listed, too.
LEMMA ListsAdded ==
  ASSUME NEW T, NEW s \in Seq(T), NEW e \in T
  PROVE  /\ \A i, g, n : Lists(Append(s, e), i, g, n) <=>
                           Lists(s, i, g, n) \/ (e.id = i /\ e.fd = g /\ e.name = n)
         /\ OneEach(s) /\ (\A g, n : ~Lists(s, e.id, g, n)) => OneEach(Append(s, e))
<1> DEFINE w == Append(s, e)
<1>1. /\ Len(w) = Len(s) + 1 /\ w[Len(s) + 1] = e
      /\ \A k \in 1..Len(s) : w[k] = s[k]
  BY EntryAdded
<1>2. Len(s) \in Nat
  BY Entries
<1> HIDE DEF w
<1>3. /\ \A k \in 1..Len(w) : k \in 1..Len(s) \/ k = Len(s) + 1
      /\ Len(s) + 1 \in 1..Len(w) /\ \A k \in 1..Len(s) : k \in 1..Len(w)
  BY <1>1, <1>2
<1>4. \A i, g, n : Lists(w, i, g, n) <=> Lists(s, i, g, n) \/ (e.id = i /\ e.fd = g /\ e.name = n)
  BY <1>1, <1>3 DEF Lists
<1>5. ASSUME OneEach(s), \A g, n : ~Lists(s, e.id, g, n)
      PROVE  OneEach(w)
  <2>1. \A k \in 1..Len(s) : s[k].id # e.id
    BY <1>5 DEF Lists
  <2> QED BY <1>1, <1>3, <1>5, <2>1 DEF OneEach
<1> QED BY <1>4, <1>5 DEF w

\* An entry erased is not listed any more.
LEMMA ListsErased ==
  ASSUME NEW T, NEW s \in Seq(T), NEW k \in 1..Len(s), OneEach(s)
  PROVE  /\ \A i, g, n : Lists(Without(s, k), i, g, n) <=> Lists(s, i, g, n) /\ i # s[k].id
         /\ OneEach(Without(s, k))
<1> DEFINE w == Without(s, k)
<1>1. /\ \A j \in 1..Len(w) : \E i \in 1..Len(s) : i # k /\ w[j] = s[i]
      /\ \A i \in 1..Len(s) : i # k => \E j \in 1..Len(w) : w[j] = s[i]
      /\ \A i, j \in 1..Len(w) : i # j => \E x, y \in 1..Len(s) : x # y /\ w[i] = s[x] /\ w[j] = s[y]
  BY EntriesLeft
<1> HIDE DEF w
<1>2. ASSUME NEW i, NEW g, NEW n, Lists(w, i, g, n)
      PROVE  Lists(s, i, g, n) /\ i # s[k].id
  <2>1. PICK j \in 1..Len(w) : w[j].id = i /\ w[j].fd = g /\ w[j].name = n
    BY <1>2 DEF Lists
  <2>2. PICK x \in 1..Len(s) : x # k /\ w[j] = s[x]
    BY <1>1
  <2> QED BY <2>1, <2>2 DEF Lists, OneEach
<1>3. ASSUME NEW i, NEW g, NEW n, Lists(s, i, g, n), i # s[k].id
      PROVE  Lists(w, i, g, n)
  <2>1. PICK x \in 1..Len(s) : s[x].id = i /\ s[x].fd = g /\ s[x].name = n
    BY <1>3 DEF Lists
  <2>2. PICK j \in 1..Len(w) : w[j] = s[x]
    BY <1>1, <1>3, <2>1
  <2> QED BY <2>1, <2>2 DEF Lists
<1>4. ASSUME NEW i \in 1..Len(w), NEW j \in 1..Len(w), w[i].id = w[j].id, i # j
      PROVE  FALSE
  <2>1. PICK x \in 1..Len(s), y \in 1..Len(s) : x # y /\ w[i] = s[x] /\ w[j] = s[y]
    BY <1>1, <1>4
  <2> QED BY <1>4, <2>1 DEF OneEach
<1>5. OneEach(w)
  BY <1>4 DEF OneEach
<1> QED BY <1>2, <1>3, <1>5 DEF w

\* A table with other entries, but of the same users.
LEMMA ListsSame ==
  ASSUME NEW s, NEW t, Len(t) = Len(s),
         \A k \in 1..Len(s) : t[k].id = s[k].id /\ t[k].fd = s[k].fd /\ t[k].name = s[k].name
  PROVE  (\A i, g, n : Lists(t, i, g, n) <=> Lists(s, i, g, n)) /\ (OneEach(s) => OneEach(t))
  BY DEF Lists, OneEach

\* A new name is listed with the descriptor.
LEMMA ListsNamed ==
  ASSUME NEW T \in {EntryType, CopyType}, NEW s \in Seq(T), NEW f, NEW n \in Names
  PROVE  /\ \A i, g, m : Lists(Named(s, f, n), i, g, m) <=>
                           IF g = f THEN m = n /\ Has(s, i, f) ELSE Lists(s, i, g, m)
         /\ OneEach(s) => OneEach(Named(s, f, n))
<1> DEFINE w == Named(s, f, n)
<1>1. /\ Len(w) = Len(s)
      /\ \A k \in 1..Len(s) : /\ w[k].id = s[k].id /\ w[k].fd = s[k].fd
                              /\ w[k].name = IF s[k].fd = f THEN n ELSE s[k].name
  BY EntryNamed
<1> HIDE DEF w
<1>2. OneEach(s) => OneEach(w)
  BY <1>1 DEF OneEach
<1>3. \A i, g, m : Lists(w, i, g, m) <=> IF g = f THEN m = n /\ Has(s, i, f) ELSE Lists(s, i, g, m)
  BY <1>1 DEF Lists, Has
<1> QED BY <1>2, <1>3 DEF w

\* The same users are listed in the same slots.
SameLists ==
  /\ client_socket' = client_socket
  /\ \A i, f, n : Lists(clients', i, f, n) <=> Lists(clients, i, f, n)

\* Where a listed user is.
LEMMA ListedWhere ==
  ASSUME TableTypes
  PROVE  /\ \A i, f, n : Lists(clients, i, f, n) => i \in Slots /\ f \in Fds /\ n \in Names \cup {Anon}
         /\ \A i, f, n : Lists(clients_copy, i, f, n) => i \in Slots /\ f \in Fds /\ n \in Names \cup {Anon}
         /\ \A i, f : Has(clients, i, f) <=> \E n : Lists(clients, i, f, n)
         /\ \A i, f : Has(clients_copy, i, f) <=> \E n : Lists(clients_copy, i, f, n)
<1>1. \A k \in 1..Len(clients) :
         clients[k].id \in Slots /\ clients[k].fd \in Fds /\ clients[k].name \in Names \cup {Anon}
  <2>1. \A k \in 1..Len(clients) : clients[k] \in EntryType
    BY Entries DEF TableTypes
  <2> QED BY <2>1 DEF EntryType
<1>2. \A k \in 1..Len(clients_copy) :
         /\ clients_copy[k].id \in Slots /\ clients_copy[k].fd \in Fds
         /\ clients_copy[k].name \in Names \cup {Anon}
  <2>1. \A k \in 1..Len(clients_copy) : clients_copy[k] \in CopyType
    BY Entries DEF TableTypes
  <2> QED BY <2>1 DEF CopyType
<1> QED BY <1>1, <1>2 DEF Lists, Has

\* A user comes in, with no name.
LEMMA UserComes ==
  ASSUME TableTypes, Agreed, NEW f \in Fds, Accept(f)
  PROVE  /\ Agreed'
         /\ \E j \in Slots :
              /\ FirstFree(j) /\ client_socket' = [client_socket EXCEPT ![j] = f]
              /\ \A i, g, n : Lists(clients', i, g, n) <=>
                                Lists(clients, i, g, n) \/ (i = j /\ g = f /\ n = Anon)
<1>1. PICK j \in Slots :
        /\ FirstFree(j) /\ client_socket' = [client_socket EXCEPT ![j] = f]
        /\ clients' = Append(clients, [fd |-> f, id |-> j, name |-> Anon, next |-> NoPipe])
        /\ clients_copy' = Append(clients_copy, [fd |-> f, id |-> j, name |-> Anon])
  BY DEF Accept
<1> DEFINE e == [fd |-> f, id |-> j, name |-> Anon, next |-> NoPipe]
           d == [fd |-> f, id |-> j, name |-> Anon]
<1>2. e \in EntryType /\ e.id = j /\ e.fd = f /\ e.name = Anon
  BY NAssumption DEF EntryType, NoPipe
<1>3. d \in CopyType /\ d.id = j /\ d.fd = f /\ d.name = Anon
  BY DEF CopyType
<1>4. clients' = Append(clients, e) /\ clients_copy' = Append(clients_copy, d)
  BY <1>1
<1> HIDE DEF e, d
<1>5. clients \in Seq(EntryType) /\ clients_copy \in Seq(CopyType) /\ client_socket \in [Slots -> Fds \cup {NoFd}]
  BY DEF TableTypes
<1>6. \A g, n : ~Lists(clients, j, g, n) /\ ~Lists(clients_copy, j, g, n)
  <2>1. client_socket[j] \notin Fds
    BY <1>1, FdsAssumption DEF FirstFree
  <2> QED BY <2>1, ListedWhere DEF Agreed
<1>7. /\ OneEach(clients')
      /\ \A i, g, n : Lists(clients', i, g, n) <=> Lists(clients, i, g, n) \/ (i = j /\ g = f /\ n = Anon)
  BY <1>2, <1>4, <1>5, <1>6, ListsAdded DEF Agreed
<1>8. /\ OneEach(clients_copy')
      /\ \A i, g, n : Lists(clients_copy', i, g, n) <=>
                        Lists(clients_copy, i, g, n) \/ (i = j /\ g = f /\ n = Anon)
  BY <1>3, <1>4, <1>5, <1>6, ListsAdded DEF Agreed
<1>9. \A i, g, n : Lists(clients', i, g, n) => client_socket'[i] = g
  BY <1>1, <1>5, <1>6, <1>7, ListedWhere DEF Agreed
<1>10. Agreed'
  BY <1>7, <1>8, <1>9 DEF Agreed
<1> QED BY <1>1, <1>7, <1>10

\* A user leaves, with the pipes from and to it.
LEMMA UserLeaves ==
  ASSUME TableTypes, Sockets, Listed, Agreed, NEW f \in Fds, NEW c, InSlot(f), Exit(f, c)
  PROVE  /\ Agreed'
         /\ \E j \in Slots :
              /\ client_socket[j] = f /\ client_socket' = [client_socket EXCEPT ![j] = NoFd]
              /\ upipes' = {u \in upipes : ~Involves(u, j)}
              /\ \A i, g, n : Lists(clients', i, g, n) <=> Lists(clients, i, g, n) /\ i # j
<1>1. PICK k \in 1..Len(clients), k2 \in 1..Len(clients_copy) :
           /\ clients[k].fd = f /\ clients' = Without(clients, k)
           /\ clients_copy[k2].fd = f /\ clients_copy' = Without(clients_copy, k2)
           /\ upipes' = {u \in upipes : ~Involves(u, clients_copy[k2].id)}
  BY Exits
<1>2. PICK j \in Slots : client_socket[j] = f /\ client_socket' = [client_socket EXCEPT ![j] = NoFd]
  BY SlotFreed DEF Exit
<1>3. clients \in Seq(EntryType) /\ clients_copy \in Seq(CopyType) /\ client_socket \in [Slots -> Fds \cup {NoFd}]
  BY DEF TableTypes
<1>4. \A i, n : Lists(clients, i, f, n) => i = j
  BY <1>2, FdsAssumption, ListedWhere DEF Agreed, Sockets
<1>5. clients[k].id = j /\ clients_copy[k2].id = j
  <2>1. \E n : Lists(clients, clients[k].id, f, n)
    BY <1>1 DEF Lists
  <2>2. \E n : Lists(clients_copy, clients_copy[k2].id, f, n)
    BY <1>1 DEF Lists
  <2> QED BY <1>4, <2>1, <2>2 DEF Agreed
<1>6. OneEach(clients') /\ \A i, g, n : Lists(clients', i, g, n) <=> Lists(clients, i, g, n) /\ i # j
  BY <1>1, <1>3, <1>5, ListsErased DEF Agreed
<1>7. OneEach(clients_copy') /\ \A i, g, n : Lists(clients_copy', i, g, n) <=> Lists(clients_copy, i, g, n) /\ i # j
  BY <1>1, <1>3, <1>5, ListsErased DEF Agreed
<1>8. \A i, g, n : Lists(clients', i, g, n) => client_socket'[i] = g
  BY <1>2, <1>3, <1>6, ListedWhere DEF Agreed
<1>9. Agreed'
  BY <1>6, <1>7, <1>8 DEF Agreed
<1> QED BY <1>1, <1>2, <1>5, <1>6, <1>9

\* A user takes a name that nobody has, or nothing happens.
LEMMA UserNamed ==
  ASSUME TableTypes, Sockets, Listed, Agreed, NEW f \in Fds, NEW c \in Cmds, InSlot(f), Name(f, c)
  PROVE  /\ Agreed' /\ client_socket' = client_socket
         /\ \/ SameLists
            \/ /\ c.name \in Names /\ \A i, g : ~Lists(clients, i, g, c.name)
               /\ \E j \in Slots :
                    /\ client_socket[j] = f
                    /\ \A i, g, n : Lists(clients', i, g, n) <=>
                         IF i = j THEN g = f /\ n = c.name ELSE Lists(clients, i, g, n)
<1>1. client_socket' = client_socket /\ c.name \in Names
  BY CmdsAssumption DEF Name, Received
<1>2. CASE UNCHANGED <<clients, clients_copy>>
  BY <1>1, <1>2 DEF Agreed, SameLists
<1>3. ASSUME ~ \E e \in Elems(clients) : e.name = c.name,
             clients' = Named(clients, f, c.name), clients_copy' = Named(clients_copy, f, c.name)
      PROVE  /\ Agreed' /\ \A i, g : ~Lists(clients, i, g, c.name)
             /\ \E j \in Slots :
                    /\ client_socket[j] = f
                    /\ \A i, g, n : Lists(clients', i, g, n) <=>
                         IF i = j THEN g = f /\ n = c.name ELSE Lists(clients, i, g, n)
  <2>1. /\ clients \in Seq(EntryType) /\ clients_copy \in Seq(CopyType)
        /\ EntryType \in {EntryType, CopyType} /\ CopyType \in {EntryType, CopyType}
    BY DEF TableTypes
  <2>2. PICK j \in Slots : client_socket[j] = f
    BY DEF InSlot
  <2>3. /\ \A i : Has(clients, i, f) <=> i = j
        /\ \A i : Has(clients_copy, i, f) <=> i = j
    BY <2>2, FdsAssumption, ListedWhere DEF Agreed, Sockets, Listed
  <2>4. \A i, g, n : Lists(clients, i, g, n) => (i = j <=> g = f)
    BY <2>2, FdsAssumption, ListedWhere DEF Agreed, Sockets
  <2>5. /\ OneEach(clients')
        /\ \A i, g, n : Lists(clients', i, g, n) <=>
                          IF g = f THEN n = c.name /\ Has(clients, i, f) ELSE Lists(clients, i, g, n)
    BY <1>1, <1>3, <2>1, ListsNamed DEF Agreed
  <2>6. /\ OneEach(clients_copy')
        /\ \A i, g, n : Lists(clients_copy', i, g, n) <=>
                          IF g = f THEN n = c.name /\ Has(clients_copy, i, f) ELSE Lists(clients_copy, i, g, n)
    BY <1>1, <1>3, <2>1, ListsNamed DEF Agreed
  <2>7. \A i, g, n : Lists(clients', i, g, n) <=> IF i = j THEN g = f /\ n = c.name ELSE Lists(clients, i, g, n)
    BY <2>3, <2>4, <2>5
  <2>8. \A i, g, n : Lists(clients', i, g, n) <=> Lists(clients_copy', i, g, n)
    BY <2>3, <2>5, <2>6 DEF Agreed
  <2>9. \A i, g, n : Lists(clients', i, g, n) => client_socket'[i] = g
    BY <1>1, <2>2, <2>7 DEF Agreed
  <2>10. \A i, g : ~Lists(clients, i, g, c.name)
    BY <1>3, <2>1, Entries DEF Lists
  <2>11. Agreed'
    BY <2>5, <2>6, <2>8, <2>9 DEF Agreed
  <2> QED BY <2>2, <2>7, <2>10, <2>11
<1> QED BY <1>1, <1>2, <1>3 DEF Name

\* who and the lines change no user.
LEMMA UsersSorted ==
  ASSUME TableTypes, Agreed, NEW f, NEW c, Who(f, c)
  PROVE  Agreed' /\ SameLists
<1>1. UNCHANGED <<client_socket, clients_copy>>
  BY DEF Who
<1>2. /\ Len(clients') = Len(clients)
      /\ \A k \in 1..Len(clients) : \E j \in 1..Len(clients) : clients'[k] = clients[j]
      /\ \A k \in 1..Len(clients) : \E j \in 1..Len(clients) : clients'[j] = clients[k]
      /\ \A j, k \in 1..Len(clients) : j # k =>
           \E x, y \in 1..Len(clients) : x # y /\ clients'[j] = clients[x] /\ clients'[k] = clients[y]
  BY EntriesSorted
<1>3. \A i, g, n : Lists(clients', i, g, n) => Lists(clients, i, g, n)
  <2> SUFFICES ASSUME NEW i, NEW g, NEW n, Lists(clients', i, g, n)
               PROVE  Lists(clients, i, g, n)
    OBVIOUS
  <2>1. PICK k \in 1..Len(clients') : clients'[k].id = i /\ clients'[k].fd = g /\ clients'[k].name = n
    BY DEF Lists
  <2>2. PICK j \in 1..Len(clients) : clients'[k] = clients[j]
    BY <1>2
  <2> QED BY <2>1, <2>2 DEF Lists
<1>4. \A i, g, n : Lists(clients, i, g, n) => Lists(clients', i, g, n)
  <2> SUFFICES ASSUME NEW i, NEW g, NEW n, NEW k \in 1..Len(clients),
                      clients[k].id = i, clients[k].fd = g, clients[k].name = n
               PROVE  Lists(clients', i, g, n)
    BY DEF Lists
  <2>1. PICK j \in 1..Len(clients) : clients'[j] = clients[k]
    BY <1>2
  <2> QED BY <1>2, <2>1 DEF Lists
<1>5. OneEach(clients')
  <2> SUFFICES ASSUME NEW j \in 1..Len(clients), NEW k \in 1..Len(clients), clients'[j].id = clients'[k].id, j # k
               PROVE  FALSE
    BY <1>2 DEF OneEach
  <2>1. PICK x \in 1..Len(clients), y \in 1..Len(clients) :
          x # y /\ clients'[j] = clients[x] /\ clients'[k] = clients[y]
    BY <1>2
  <2> QED BY <2>1 DEF Agreed, OneEach
<1> QED BY <1>1, <1>3, <1>4, <1>5 DEF Agreed, SameLists

LEMMA UsersStay ==
  ASSUME TableTypes, Agreed, NEW k \in DOMAIN clients, NEW x \in 0..MaxPipes, NextIs(k, x)
  PROVE  Agreed' /\ SameLists
<1>1. UNCHANGED <<client_socket, clients_copy>> /\ clients' = [clients EXCEPT ![k].next = x]
  BY DEF NextIs
<1>2. Len(clients) \in Nat /\ DOMAIN clients = 1..Len(clients) /\ \A j \in 1..Len(clients) : clients[j] \in EntryType
  BY Entries DEF TableTypes
<1> DEFINE e == [clients[k] EXCEPT !.next = x]
<1>3. e \in EntryType /\ e.id = clients[k].id /\ e.fd = clients[k].fd /\ e.name = clients[k].name
  BY <1>2 DEF EntryType
<1>4. clients' = [clients EXCEPT ![k] = e]
  BY <1>1
<1> HIDE DEF e
<1>5. Len(clients') = Len(clients)
  BY <1>3, <1>4 DEF TableTypes
<1>6. \A j \in 1..Len(clients) : /\ clients'[j].id = clients[j].id /\ clients'[j].fd = clients[j].fd
                                 /\ clients'[j].name = clients[j].name
  BY <1>2, <1>3, <1>4
<1>7. OneEach(clients') /\ \A i, g, n : Lists(clients', i, g, n) <=> Lists(clients, i, g, n)
  BY <1>5, <1>6, ListsSame DEF Agreed
<1> QED BY <1>1, <1>7 DEF Agreed, SameLists
-----------------------------------------------------------------------------
(* The refinement of the chat room.                                        *)

\* Nobody has closed.
NoneGone == \A f \in Fds : sock[f] # "gone"

\* Nobody runs a line with a pipe from or to himself.
NotSelf == ~Idle => \A j \in Slots : client_socket[j] = turn.fd => turn.cmd.recv # j /\ turn.cmd.send # j

\* The inductive invariant of the room.
RoomInv == Tables /\ Agreed /\ PipesOfOnline /\ NotSelf /\ NoneGone

\* What a step has to be: one of the room's, or none.
RoomStep == /\ Agreed' /\ PipesOfOnline' /\ NotSelf' /\ NoneGone'
            /\ Room!Next \/ (Nicknames' = Nicknames /\ Pairs' = Pairs)

\* The nickname of an id that a table lists once.
LEMMA NickIn ==
  ASSUME NEW s \in Seq(EntryType), OneEach(s), NEW i, NEW nick,
         nick = IF \E c \in Elems(s) : c.id = i
                  THEN (CHOOSE c \in Elems(s) : c.id = i).name ELSE NoName
  PROVE  /\ \A f, n : Lists(s, i, f, n) => nick = n
         /\ (\A f, n : ~Lists(s, i, f, n)) => nick = NoName
<1>1. ASSUME NEW k \in 1..Len(s), s[k].id = i
      PROVE  nick = s[k].name
  <2> DEFINE d == CHOOSE c \in Elems(s) : c.id = i
  <2>1. s[k] \in Elems(s) /\ s[k].id = i
    BY <1>1, Entries
  <2>2. d \in Elems(s) /\ d.id = i
    BY <2>1
  <2>3. nick = d.name
    BY <2>1
  <2> HIDE DEF d
  <2>4. PICK j \in 1..Len(s) : d = s[j]
    BY <2>2, Entries
  <2>5. j = k
    BY <1>1, <2>2, <2>4 DEF OneEach
  <2> QED BY <2>3, <2>4, <2>5
<1>2. ASSUME \A f, n : ~Lists(s, i, f, n)
      PROVE  nick = NoName
  <2>1. ASSUME NEW c \in Elems(s), c.id = i PROVE FALSE
    <3>1. PICK k \in 1..Len(s) : c = s[k]
      BY Entries
    <3> QED BY <1>2, <2>1, <3>1 DEF Lists
  <2> QED BY <2>1
<1> QED BY <1>1, <1>2 DEF Lists

\* The nicknames are those of the table, and belong to those with a socket.
LEMMA NickOf ==
  ASSUME TableTypes, Agreed, NEW i \in Slots
  PROVE  /\ Nicknames[i] = NameOf(i)
         /\ \A f, n : Lists(clients, i, f, n) => NameOf(i) = n
         /\ (\A f, n : ~Lists(clients, i, f, n)) => NameOf(i) = NoName
<1>1. clients \in Seq(EntryType) /\ OneEach(clients)
  BY DEF TableTypes, Agreed
<1>2. NameOf(i) = IF \E c \in Elems(clients) : c.id = i
                    THEN (CHOOSE c \in Elems(clients) : c.id = i).name ELSE NoName
  BY DEF NameOf
<1>3. Nicknames[i] = NameOf(i)
  BY DEF Nicknames
<1> QED BY <1>1, <1>2, <1>3, NickIn

LEMMA NickNext ==
  ASSUME TableTypes', Agreed', NEW i \in Slots
  PROVE  /\ Nicknames'[i] = NameOf(i)'
         /\ \A f, n : Lists(clients', i, f, n) => NameOf(i)' = n
         /\ (\A f, n : ~Lists(clients', i, f, n)) => NameOf(i)' = NoName
<1>1. clients' \in Seq(EntryType) /\ OneEach(clients')
  BY DEF TableTypes, Agreed
<1>2. NameOf(i)' = IF \E c \in Elems(clients') : c.id = i
                     THEN (CHOOSE c \in Elems(clients') : c.id = i).name ELSE NoName
  BY DEF NameOf
<1>3. Nicknames'[i] = NameOf(i)'
  BY DEF Nicknames
<1> QED BY <1>1, <1>2, <1>3, NickIn

\* Who is here in the room is who has a socket.
LEMMA WhoIsHere ==
  ASSUME TableTypes, Agreed, Listed, NEW i \in Slots
  PROVE  /\ Nicknames[i] # NoName <=> client_socket[i] # NoFd
         /\ Nicknames[i] \in Names \cup {NoName, Anon}
<1>1. CASE client_socket[i] # NoFd
  <2>1. PICK n : Lists(clients, i, client_socket[i], n)
    BY <1>1, ListedWhere DEF Listed
  <2>2. Nicknames[i] = n /\ n \in Names \cup {Anon}
    BY <2>1, NickOf, ListedWhere
  <2> QED BY <1>1, <2>2, NamesAssumption
<1>2. CASE client_socket[i] = NoFd
  <2>1. \A f, n : ~Lists(clients, i, f, n)
    BY <1>2, FdsAssumption, ListedWhere DEF Agreed
  <2> QED BY <1>2, <2>1, NickOf
<1> QED BY <1>1, <1>2

\* The nicknames after a step.
LEMMA NewNicks ==
  ASSUME TableTypes, Agreed, TableTypes', Agreed'
  PROVE  /\ SameLists => Nicknames' = Nicknames
         /\ \A j \in Slots : \A v :
              /\ \A i \in Slots : \A f, n : i # j => (Lists(clients', i, f, n) <=> Lists(clients, i, f, n))
              /\ NameOf(j)' = v
              => Nicknames' = [Nicknames EXCEPT ![j] = v]
<1>1. ASSUME NEW i \in Slots, \A f, n : Lists(clients', i, f, n) <=> Lists(clients, i, f, n)
      PROVE  NameOf(i)' = NameOf(i)
  BY <1>1, NickOf, NickNext
<1>2. Nicknames = [i \in Slots |-> NameOf(i)]
  BY DEF Nicknames
<1>3. Nicknames' = [i \in Slots |-> NameOf(i)']
  BY DEF Nicknames
<1>4. ASSUME SameLists PROVE Nicknames' = Nicknames
  <2>1. \A i \in Slots : NameOf(i)' = NameOf(i)
    BY <1>1, <1>4 DEF SameLists
  <2> QED BY <1>2, <1>3, <2>1
<1>5. ASSUME NEW j \in Slots, NEW v, NameOf(j)' = v,
             \A i \in Slots : \A f, n : i # j => (Lists(clients', i, f, n) <=> Lists(clients, i, f, n))
      PROVE  Nicknames' = [Nicknames EXCEPT ![j] = v]
  <2>1. \A i \in Slots : NameOf(i)' = IF i = j THEN v ELSE NameOf(i)
    BY <1>1, <1>5
  <2> QED BY <1>2, <1>3, <2>1
<1> QED BY <1>4, <1>5

\* A step that changes no user and no pipe is none of the room's.
LEMMA QuietInRoom ==
  ASSUME RoomInv, TableTypes', Agreed', SameLists, upipes' = upipes, NoneGone',
         \/ turn' = NoTurn
         \/ ~Idle /\ turn'.fd = turn.fd /\ turn'.cmd = turn.cmd
  PROVE  RoomStep
<1>1. Nicknames' = Nicknames
  BY NewNicks DEF RoomInv, Tables, Typed
<1>2. Pairs' = Pairs
  BY DEF Pairs
<1>3. PipesOfOnline'
  BY DEF RoomInv, PipesOfOnline, SameLists
<1>4. NotSelf'
  BY DEF RoomInv, NotSelf, SameLists, Idle
<1> QED BY <1>1, <1>2, <1>3, <1>4 DEF RoomStep

\* Somebody comes.
LEMMA AcceptInRoom ==
  ASSUME RoomInv, TableTypes', NEW f \in Fds, Accept(f)
  PROVE  RoomStep
<1>1. /\ TableTypes /\ Sockets /\ Listed /\ Agreed /\ client_socket \in [Slots -> Fds \cup {NoFd}]
      /\ sock \in [Fds -> {"free", "prompt", "typed", "gone"}] /\ NoFd \notin Fds
  BY FdsAssumption DEF RoomInv, Tables, Typed, TableTypes
<1>2. Idle /\ turn' = turn /\ upipes' = upipes /\ sock' = [sock EXCEPT ![f] = "prompt"]
  BY DEF Accept, pipeVars
<1>3. Agreed'
  BY <1>1, UserComes
<1>4. PICK j \in Slots :
        /\ FirstFree(j) /\ client_socket' = [client_socket EXCEPT ![j] = f]
        /\ \A i, g, n : Lists(clients', i, g, n) <=> Lists(clients, i, g, n) \/ (i = j /\ g = f /\ n = Anon)
  BY <1>1, UserComes
<1>5. Nicknames' = [Nicknames EXCEPT ![j] = Anon]
  <2>1. NameOf(j)' = Anon
    BY <1>3, <1>4, NickNext
  <2> QED BY <1>1, <1>3, <1>4, <2>1, NewNicks
<1>6. Nicknames[j] = NoName /\ \A k \in 1..(j - 1) : Nicknames[k] # NoName
  <2>1. \A k \in 1..(j - 1) : k \in Slots
    BY NAssumption DEF Slots
  <2> QED BY <1>1, <1>4, <2>1, WhoIsHere DEF FirstFree
<1>7. Room!Login(j)
  <2>1. Pairs' = Pairs
    BY <1>2 DEF Pairs
  <2> QED BY <1>5, <1>6, <2>1 DEF Room!Login, Room!Here
<1>8. Room!Next
  BY <1>7 DEF Room!Next, Room!Ids, Slots
<1>9. PipesOfOnline'
  BY <1>1, <1>2, <1>4 DEF RoomInv, PipesOfOnline, Tables, Typed, PipeTypes
<1>10. NotSelf'
  BY <1>2 DEF NotSelf, Idle
<1>11. NoneGone'
  BY <1>1, <1>2 DEF RoomInv, NoneGone
<1> QED BY <1>3, <1>8, <1>9, <1>10, <1>11 DEF RoomStep

\* Somebody leaves by exit.
LEMMA ExitInRoom ==
  ASSUME RoomInv, TableTypes', NEW f \in Fds, NEW c, Idle, InSlot(f), Exit(f, c)
  PROVE  RoomStep
<1>1. /\ TableTypes /\ Sockets /\ Listed /\ Agreed /\ client_socket \in [Slots -> Fds \cup {NoFd}]
      /\ sock \in [Fds -> {"free", "prompt", "typed", "gone"}] /\ NoFd \notin Fds
  BY FdsAssumption DEF RoomInv, Tables, Typed, TableTypes
<1>2. turn' = turn /\ sock' = [sock EXCEPT ![f] = "free"]
  BY DEF Exit
<1>3. Agreed'
  BY <1>1, UserLeaves
<1>4. PICK j \in Slots :
        /\ client_socket[j] = f /\ client_socket' = [client_socket EXCEPT ![j] = NoFd]
        /\ upipes' = {u \in upipes : ~Involves(u, j)}
        /\ \A i, g, n : Lists(clients', i, g, n) <=> Lists(clients, i, g, n) /\ i # j
  BY <1>1, UserLeaves
<1>5. Nicknames' = [Nicknames EXCEPT ![j] = NoName]
  <2>1. NameOf(j)' = NoName
    BY <1>3, <1>4, NickNext
  <2> QED BY <1>1, <1>3, <1>4, <2>1, NewNicks
<1>6. Nicknames[j] # NoName
  BY <1>1, <1>4, WhoIsHere
<1>7. Pairs' = Pairs \ Room!About(j)
  <2>1. \A u \in upipes : <<u.s, u.r>>[1] = u.s /\ <<u.s, u.r>>[2] = u.r
    OBVIOUS
  <2>2. \A u \in upipes : Involves(u, j) <=> j \in {<<u.s, u.r>>[1], <<u.s, u.r>>[2]}
    BY <2>1 DEF Involves
  <2>3. \A p : p \in Pairs' <=> \E u \in upipes : ~Involves(u, j) /\ p = <<u.s, u.r>>
    BY <1>4 DEF Pairs
  <2>4. \A p : p \in Pairs \ Room!About(j) <=> p \in Pairs /\ j \notin {p[1], p[2]}
    BY DEF Room!About
  <2>5. \A p : p \in Pairs <=> \E u \in upipes : p = <<u.s, u.r>>
    BY DEF Pairs
  <2> QED BY <2>2, <2>3, <2>4, <2>5
<1>8. Room!Leave(j)
  BY <1>5, <1>6, <1>7 DEF Room!Leave, Room!Here
<1>9. Room!Next
  BY <1>8 DEF Room!Next, Room!Ids, Slots
<1>10. PipesOfOnline'
  BY <1>1, <1>4 DEF RoomInv, PipesOfOnline, Tables, Typed, PipeTypes, Involves
<1>11. NotSelf'
  BY <1>2 DEF NotSelf, Idle
<1>12. NoneGone'
  BY <1>1, <1>2 DEF RoomInv, NoneGone
<1> QED BY <1>3, <1>9, <1>10, <1>11, <1>12 DEF RoomStep

\* Somebody takes a name.
LEMMA NameInRoom ==
  ASSUME RoomInv, TableTypes', NEW f \in Fds, NEW c \in Cmds, Idle, InSlot(f), Name(f, c)
  PROVE  RoomStep
<1>1. /\ TableTypes /\ Sockets /\ Listed /\ Agreed /\ client_socket \in [Slots -> Fds \cup {NoFd}]
      /\ sock \in [Fds -> {"free", "prompt", "typed", "gone"}] /\ NoFd \notin Fds
  BY FdsAssumption DEF RoomInv, Tables, Typed, TableTypes
<1>2. turn' = NoTurn /\ upipes' = upipes /\ NoneGone'
  <2>1. turn' = turn /\ upipes' = upipes /\ sock' = [sock EXCEPT ![f] = "prompt"]
    BY DEF Name, Prompt, pipeVars
  <2> QED BY <1>1, <2>1 DEF RoomInv, NoneGone, Idle
<1>3. Agreed' /\ client_socket' = client_socket
  BY <1>1, UserNamed
<1>4. CASE SameLists
  BY <1>2, <1>3, <1>4, QuietInRoom
<1>5. ASSUME c.name \in Names, \A i, g : ~Lists(clients, i, g, c.name),
             NEW j \in Slots, client_socket[j] = f,
             \A i, g, n : Lists(clients', i, g, n) <=>
                            IF i = j THEN g = f /\ n = c.name ELSE Lists(clients, i, g, n)
      PROVE  RoomStep
  <2>1. Nicknames' = [Nicknames EXCEPT ![j] = c.name]
    <3>1. NameOf(j)' = c.name
      BY <1>3, <1>5, NickNext
    <3> QED BY <1>1, <1>3, <1>5, <3>1, NewNicks
  <2>2. Nicknames[j] # NoName
    BY <1>1, <1>5, WhoIsHere
  <2>3. \A i \in Slots : Nicknames[i] # c.name
    <3> SUFFICES ASSUME NEW i \in Slots, Nicknames[i] = c.name PROVE FALSE
      OBVIOUS
    <3>1. \E g, n : Lists(clients, i, g, n)
      BY <1>1, <1>5, NickOf, NamesAssumption
    <3> QED BY <1>1, <1>5, <3>1, NickOf
  <2>4. Pairs' = Pairs
    BY <1>2 DEF Pairs
  <2>5. Room!Rename(j, c.name)
    BY <2>1, <2>2, <2>3, <2>4 DEF Room!Rename, Room!Here, Room!Free, Room!Ids, Slots
  <2>6. Room!Next
    BY <1>5, <2>5 DEF Room!Next, Room!Ids, Slots
  <2>7. PipesOfOnline' /\ NotSelf'
    BY <1>2, <1>3 DEF RoomInv, PipesOfOnline, NotSelf, Idle
  <2> QED BY <1>2, <1>3, <2>6, <2>7 DEF RoomStep
<1> QED BY <1>1, <1>4, <1>5, UserNamed

\* Whose entry it is whose shell runs.
LEMMA RunsFor ==
  ASSUME TableTypes, Agreed, NEW k \in DOMAIN clients, Entry(k)
  PROVE  /\ clients[k].id \in Slots /\ client_socket[clients[k].id] = turn.fd /\ turn.fd \in Fds
         /\ ~Idle
<1>1. k \in 1..Len(clients)
  BY Entries DEF TableTypes
<1>2. Lists(clients, clients[k].id, clients[k].fd, clients[k].name) /\ clients[k].fd = turn.fd
  BY <1>1 DEF Lists, Entry
<1> QED BY <1>2, ListedWhere, EntryRuns DEF Agreed

\* >n sends to somebody who is here, and to whom nothing was sent yet.
LEMMA SendInRoom ==
  ASSUME RoomInv, TableTypes', NEW k \in DOMAIN clients, NEW x \in 0..MaxPipes, ParseSend(k, x)
  PROVE  RoomStep
<1> DEFINE me == clients[k].id
           j  == turn.cmd.send
           u  == [s |-> me, r |-> j, pipe |-> x]
<1>1. TableTypes /\ Listed /\ Agreed /\ TurnTypes /\ NotSelf
  BY DEF RoomInv, Tables, Typed
<1>2. UNCHANGED <<client_socket, clients, clients_copy, sock>>
  BY DEF ParseSend, tables
<1>3. me \in Slots /\ client_socket[me] = turn.fd /\ turn.fd \in Fds /\ ~Idle
  BY <1>1, RunsFor DEF ParseSend
<1>4. turn'.fd = turn.fd /\ turn'.cmd = turn.cmd
  BY <1>1 DEF ParseSend, TurnTypes
<1>5. Agreed' /\ NoneGone' /\ SameLists
  BY <1>1, <1>2 DEF RoomInv, Agreed, NoneGone, SameLists
<1>6. CASE ~CanSend(me, j)
  <2>1. upipes' = upipes
    BY <1>6 DEF ParseSend
  <2> QED BY <1>3, <1>4, <1>5, <2>1, QuietInRoom
<1>7. CASE CanSend(me, j)
  <2>1. upipes' = upipes \cup {u}
    BY <1>7 DEF ParseSend
  <2>2. j \in Slots /\ client_socket[j] # NoFd
    <3>1. PICK d \in Elems(clients_copy) : d.id = j
      BY <1>7 DEF CanSend, InCopy
    <3>2. PICK i \in 1..Len(clients_copy) : clients_copy[i] = d
      BY <1>1, Entries DEF TableTypes
    <3>3. Lists(clients_copy, j, d.fd, d.name)
      BY <3>1, <3>2 DEF Lists
    <3> QED BY <1>1, <3>3, ListedWhere, FdsAssumption DEF Agreed
  <2>3. me # j
    BY <1>1, <1>3 DEF NotSelf
  <2>4. Nicknames[me] # NoName /\ Nicknames[j] # NoName
    BY <1>1, <1>3, <2>2, WhoIsHere, FdsAssumption
  <2>5. <<me, j>> \notin Pairs
    BY <1>7 DEF CanSend, Pipe, Pairs
  <2>6. u.s = me /\ u.r = j
    OBVIOUS
  <2>7. Nicknames' = Nicknames
    BY <1>1, <1>5, NewNicks
  <2> HIDE DEF u, me, j
  <2>8. Pairs' = Pairs \cup {<<me, j>>}
    BY <2>1, <2>6 DEF Pairs
  <2>9. Room!Send(me, j)
    BY <2>3, <2>4, <2>5, <2>7, <2>8 DEF Room!Send, Room!Here
  <2>10. Room!Next
    BY <1>3, <2>2, <2>9 DEF Room!Next, Room!Ids, Slots
  <2>11. PipesOfOnline'
    BY <1>2, <1>3, <2>1, <2>2, <2>6, FdsAssumption DEF RoomInv, PipesOfOnline
  <2>12. NotSelf'
    BY <1>1, <1>2, <1>3, <1>4 DEF NotSelf
  <2> QED BY <1>5, <2>10, <2>11, <2>12 DEF RoomStep
<1> QED BY <1>6, <1>7

\* <n receives what was sent; other lines change nothing in the room.
LEMMA LineInRoom ==
  ASSUME RoomInv, TableTypes', NEW k \in DOMAIN clients, NEW x \in 0..MaxPipes, NEW p \in Procs, Line(k, p, x)
  PROVE  RoomStep
<1> DEFINE me == clients[k].id
           j  == turn.cmd.recv
<1>1. TableTypes /\ Listed /\ Agreed /\ TurnTypes /\ NotSelf /\ PipeTypes
  BY DEF RoomInv, Tables, Typed
<1>2. UNCHANGED <<client_socket, sock>> /\ upipes' = upipes \ (IF j # 0 THEN Pipe(j, me) ELSE {})
  BY DEF Line, Used
<1>3. me \in Slots /\ turn.fd \in Fds /\ ~Idle
  BY <1>1, RunsFor DEF Line
<1>4. turn'.fd = turn.fd /\ turn'.cmd = turn.cmd
  <2>1. turn' = [NoTurn EXCEPT !.fd = turn.fd, !.cmd = turn.cmd, !.k = k + 1]
    BY DEF Line
  <2> QED BY <2>1 DEF NoTurn
<1>5. Agreed' /\ SameLists
  BY <1>1, UsersStay DEF Line, NextIs
<1>6. NoneGone'
  BY <1>2 DEF RoomInv, NoneGone
<1>7. CASE upipes' = upipes
  BY <1>3, <1>4, <1>5, <1>6, <1>7, QuietInRoom
<1>8. CASE upipes' # upipes
  <2>1. upipes' = upipes \ Pipe(j, me) /\ Pipe(j, me) # {}
    BY <1>2, <1>8
  <2>2. PICK u \in upipes : u.s = j /\ u.r = me
    BY <2>1 DEF Pipe
  <2>3. j \in Slots
    BY <1>1, <2>2 DEF PipeTypes
  <2> HIDE DEF me, j
  <2>4. <<j, me>> \in Pairs
    BY <2>2 DEF Pairs
  <2>5. Pairs' = Pairs \ {<<j, me>>}
    <3>1. \A v \in upipes : v \in Pipe(j, me) <=> <<v.s, v.r>> = <<j, me>>
      BY DEF Pipe
    <3>2. \A q : q \in Pairs' <=> \E v \in upipes : v \notin Pipe(j, me) /\ q = <<v.s, v.r>>
      BY <2>1 DEF Pairs
    <3>3. \A q : q \in Pairs <=> \E v \in upipes : q = <<v.s, v.r>>
      BY DEF Pairs
    <3> QED BY <3>1, <3>2, <3>3
  <2>6. Nicknames' = Nicknames
    BY <1>1, <1>5, NewNicks
  <2>7. Room!Receive(j, me)
    BY <2>4, <2>5, <2>6 DEF Room!Receive
  <2>8. Room!Next
    BY <1>3, <2>3, <2>7 DEF Room!Next, Room!Ids, Slots
  <2>9. PipesOfOnline' /\ NotSelf'
    BY <1>1, <1>2, <1>3, <1>4, <2>1 DEF RoomInv, PipesOfOnline, NotSelf
  <2> QED BY <1>5, <1>6, <2>8, <2>9 DEF RoomStep
<1> QED BY <1>7, <1>8

\* Nobody closes: there is no entry without a socket, and none may be left behind.
LEMMA NoneCloses ==
  ASSUME NobodyCloses, Typed, Counted, NEW f \in Fds
  PROVE  ~Close(f)
<1> SUFFICES ASSUME Close(f) PROVE FALSE
  OBVIOUS
<1> DEFINE Gone == {g \in Fds : sock[g] = "gone"}
<1>1. Len(clients) - Cardinality(Taken) + Cardinality(Gone) < 0
  BY DEF Close, Lost, Taken, NobodyCloses
<1>2. Cardinality(Gone) \in Nat
  <2>1. Gone \in SUBSET Fds
    OBVIOUS
  <2> HIDE DEF Gone
  <2> QED BY <2>1, FdsAssumption, FS_Subset, FS_CardinalityType
<1>3. Cardinality(Taken) \in Nat /\ Cardinality(Taken) <= Len(clients) /\ Len(clients) \in Nat
  BY Counts DEF Counted, Typed, TableTypes
<1> HIDE DEF Gone
<1> QED BY <1>1, <1>2, <1>3

\* Every step is one of the room's.
LEMMA RoomSteps ==
  ASSUME NobodyCloses, RoomInv, TableTypes', Next
  PROVE  RoomStep
<1>1. /\ Typed /\ TableTypes /\ Counted /\ Serving /\ Agreed /\ NoneGone /\ NotSelf
      /\ sock \in [Fds -> {"free", "prompt", "typed", "gone"}]
  BY DEF RoomInv, Tables, Typed, TableTypes
<1>2. ASSUME UNCHANGED tables
      PROVE  Agreed' /\ SameLists
  BY <1>1, <1>2 DEF Agreed, SameLists, tables
<1>3. ASSUME NEW f \in Fds, NEW v \in {"prompt", "typed"}, sock' = [sock EXCEPT ![f] = v]
      PROVE  NoneGone'
  BY <1>1, <1>3 DEF NoneGone
<1>4. ASSUME sock' = sock
      PROVE  NoneGone'
  BY <1>1, <1>4 DEF NoneGone
<1>5. ASSUME UNCHANGED <<tables, upipes, turn>>, NoneGone'
      PROVE  RoomStep
  <2>1. turn' = NoTurn \/ (~Idle /\ turn'.fd = turn.fd /\ turn'.cmd = turn.cmd)
    BY <1>5 DEF Idle
  <2> QED BY <1>1, <1>2, <1>5, <2>1, QuietInRoom
<1>6. ASSUME NEW f \in Fds, Accept(f) \/ Type(f) \/ Close(f)
      PROVE  RoomStep
  <2>1. CASE Type(f)
    BY <1>3, <1>5, <2>1 DEF Type, pipeVars
  <2> QED BY <1>1, <1>6, <2>1, NoneCloses, AcceptInRoom
<1>7. ASSUME NEW f \in Fds, Serve(f)
      PROVE  RoomStep
  <2>1. Idle /\ InSlot(f) /\ ~Disconnect(f)
    BY <1>1, <1>7 DEF Serve, Disconnect, NoneGone
  <2>2. ASSUME NEW c \in Cmds, Say(f, c)
        PROVE  RoomStep
    BY <1>3, <1>5, <2>2 DEF Say, Prompt, pipeVars
  <2>3. ASSUME NEW c \in Cmds, Who(f, c)
        PROVE  RoomStep
    <3>1. turn' = NoTurn /\ upipes' = upipes /\ NoneGone'
      BY <1>3, <2>1, <2>3 DEF Who, Prompt, pipeVars, Idle
    <3> QED BY <1>1, <2>3, <3>1, UsersSorted, QuietInRoom
  <2>4. ASSUME NEW c \in Cmds, StartShell(f, c)
        PROVE  RoomStep
    <3>1. UNCHANGED <<tables, upipes, sock>> /\ Received(f, c) /\ turn' = [NoTurn EXCEPT !.fd = f, !.cmd = c]
      BY <2>4 DEF StartShell, pipeVars
    <3>2. turn'.fd = f /\ turn'.cmd = c
      BY <3>1 DEF NoTurn
    <3>3. NotSelf'
      BY <3>1, <3>2 DEF NotSelf, Received, tables
    <3>4. PipesOfOnline' /\ Pairs' = Pairs
      BY <3>1 DEF RoomInv, PipesOfOnline, Pairs, tables
    <3>5. Agreed' /\ SameLists /\ NoneGone'
      BY <1>2, <1>4, <3>1
    <3>6. Nicknames' = Nicknames
      BY <1>1, <3>5, NewNicks
    <3> QED BY <3>3, <3>4, <3>5, <3>6 DEF RoomStep
  <2> QED BY <1>7, <2>1, <2>2, <2>3, <2>4, ExitInRoom, NameInRoom DEF Serve
<1>8. ASSUME NEW k \in DOMAIN clients, BuiltIn(k)
      PROVE  RoomStep
  <2>1. ~Idle /\ turn' = [turn EXCEPT !.k = k + 1] /\ UNCHANGED <<upipes, sock>>
    BY <1>1, <1>8, EntryRuns DEF BuiltIn
  <2>2. turn'.fd = turn.fd /\ turn'.cmd = turn.cmd
    BY <1>1, <2>1 DEF Typed, TurnTypes
  <2>3. Agreed' /\ SameLists
    BY <1>1, <1>8, NoPipeIs, UsersStay DEF BuiltIn, NextIs
  <2>4. NoneGone'
    BY <1>1, <2>1 DEF NoneGone
  <2> QED BY <1>1, <2>1, <2>2, <2>3, <2>4, QuietInRoom
<1>9. ASSUME EndShell
      PROVE  RoomStep
  <2>1. turn' = NoTurn /\ UNCHANGED <<tables, upipes>> /\ sock' = [sock EXCEPT ![turn.fd] = "prompt"] /\ turn.fd \in Fds
    BY <1>1, <1>9 DEF EndShell, Prompt, pipeVars, Serving
  <2> QED BY <1>1, <1>2, <1>3, <2>1, QuietInRoom
<1>10. ASSUME Wait \/ \E p \in Procs : Finish(p)
       PROVE  RoomStep
  BY <1>4, <1>5, <1>10 DEF Wait, Finish, pipeVars
<1>11. ASSUME SigPipe
       PROVE  FALSE
  BY <1>1, <1>11 DEF SigPipe, NoneGone
<1> QED BY <1>6, <1>7, <1>8, <1>9, <1>10, <1>11, SendInRoom, LineInRoom DEF Next, Shell

\* The invariant of the room, and that every step is one of its own.
LEMMA RoomInvInit == Init => RoomInv
<1> SUFFICES ASSUME Init PROVE RoomInv
  OBVIOUS
<1>1. Tables
  BY TablesInit
<1>2. clients = <<>> /\ clients_copy = <<>> /\ upipes = {} /\ turn = NoTurn /\ sock = [f \in Fds |-> "free"]
  BY DEF Init
<1>3. Len(<<>>) = 0
  OBVIOUS
<1>4. Agreed
  BY <1>2, <1>3 DEF Agreed, OneEach, Lists
<1> QED BY <1>1, <1>2, <1>4 DEF RoomInv, PipesOfOnline, NotSelf, Idle, NoneGone

LEMMA RoomInvKept ==
  ASSUME NobodyCloses
  PROVE  RoomInv /\ [Next]_vars => RoomInv' /\ [Room!Next]_<<Nicknames, Pairs>>
<1> SUFFICES ASSUME RoomInv, [Next]_vars
             PROVE  RoomInv' /\ (Room!Next \/ (Nicknames' = Nicknames /\ Pairs' = Pairs))
  OBVIOUS
<1>1. Tables'
  BY TablesKept DEF RoomInv
<1>2. CASE Next
  <2>1. RoomStep
    BY <1>1, <1>2, RoomSteps DEF Tables, Typed
  <2> QED BY <1>1, <2>1 DEF RoomStep, RoomInv
<1>3. CASE UNCHANGED vars
  <2>1. UNCHANGED <<client_socket, clients, clients_copy, upipes, turn, sock>>
    BY <1>3 DEF vars, tables, pipeVars
  <2>2. Nicknames' = Nicknames /\ Pairs' = Pairs
    BY <2>1 DEF Nicknames, NameOf, Pairs
  <2>3. Agreed' /\ PipesOfOnline' /\ NotSelf' /\ NoneGone'
    BY <2>1 DEF RoomInv, Agreed, PipesOfOnline, NotSelf, Idle, NoneGone
  <2> QED BY <1>1, <2>2, <2>3 DEF RoomInv
<1> QED BY <1>2, <1>3

LEMMA RoomInvHolds == ASSUME NobodyCloses PROVE Spec => []RoomInv
  BY RoomInvInit, RoomInvKept, PTL DEF Spec

\* As long as everybody leaves by exit, the two tables and the sockets list the same
\* users, each once, under the same descriptor and name.
THEOREM TablesStayAgreed == ASSUME NobodyCloses PROVE Spec => []TablesAgree
<1>1. RoomInv => TablesAgree
  <2> SUFFICES ASSUME RoomInv PROVE TablesAgree
    OBVIOUS
  <2>1. TableTypes /\ Listed /\ Agreed
    BY DEF RoomInv, Tables, Typed
  <2>2. /\ clients \in Seq(EntryType) /\ clients_copy \in Seq(CopyType)
        /\ DOMAIN clients = 1..Len(clients) /\ Len(clients) = Len(clients_copy)
    BY <2>1, Entries DEF TableTypes
  <2>3. \A c \in EntryType, d \in CopyType :
          c.id = d.id /\ c.fd = d.fd /\ c.name = d.name => Plain(c) = d
    BY DEF Plain, EntryType, CopyType
  <2>4. ASSUME NEW c \in Elems(clients)
        PROVE  Plain(c) \in Elems(clients_copy)
    <3>1. PICK k \in 1..Len(clients) : c = clients[k] /\ c \in EntryType
      BY <2>2, Entries
    <3>2. Lists(clients_copy, c.id, c.fd, c.name)
      <4>1. Lists(clients, c.id, c.fd, c.name)
        BY <3>1 DEF Lists
      <4> QED BY <2>1, <4>1 DEF Agreed
    <3>3. PICK j \in 1..Len(clients_copy) :
            clients_copy[j].id = c.id /\ clients_copy[j].fd = c.fd /\ clients_copy[j].name = c.name
      BY <3>2 DEF Lists
    <3>4. clients_copy[j] \in CopyType /\ clients_copy[j] \in Elems(clients_copy)
      BY <2>2, Entries
    <3> QED BY <2>3, <3>1, <3>3, <3>4
  <2>5. ASSUME NEW d \in Elems(clients_copy)
        PROVE  \E c \in Elems(clients) : d = Plain(c)
    <3>1. PICK k \in 1..Len(clients_copy) : d = clients_copy[k] /\ d \in CopyType
      BY <2>2, Entries
    <3>2. Lists(clients, d.id, d.fd, d.name)
      <4>1. Lists(clients_copy, d.id, d.fd, d.name)
        BY <3>1 DEF Lists
      <4> QED BY <2>1, <4>1 DEF Agreed
    <3>3. PICK j \in 1..Len(clients) :
            clients[j].id = d.id /\ clients[j].fd = d.fd /\ clients[j].name = d.name
      BY <3>2 DEF Lists
    <3>4. clients[j] \in EntryType /\ clients[j] \in Elems(clients)
      BY <2>2, Entries
    <3> QED BY <2>3, <3>1, <3>3, <3>4
  <2>6. {Plain(c) : c \in Elems(clients)} = Elems(clients_copy)
    BY <2>4, <2>5
  <2>7. \A j, k \in DOMAIN clients : clients[j].id = clients[k].id => j = k
    BY <2>1, <2>2 DEF Agreed, OneEach
  <2>8. ASSUME NEW j \in Slots, NEW f \in Fds
        PROVE  client_socket[j] = f <=> \E c \in Elems(clients) : c.id = j /\ c.fd = f
    <3>1. Has(clients, j, f) <=> \E c \in Elems(clients) : c.id = j /\ c.fd = f
      <4>1. \A k \in 1..Len(clients) : clients[k] \in Elems(clients)
        BY <2>2, Entries
      <4>2. \A c \in Elems(clients) : \E k \in 1..Len(clients) : c = clients[k]
        BY <2>2, Entries
      <4> QED BY <4>1, <4>2 DEF Has
    <3>2. Has(clients, j, f) => client_socket[j] = f
      BY <2>1, ListedWhere DEF Agreed
    <3>3. client_socket[j] = f => Has(clients, j, f)
      BY <2>1, FdsAssumption DEF Listed
    <3> QED BY <3>1, <3>2, <3>3
  <2> QED BY <2>2, <2>6, <2>7, <2>8 DEF TablesAgree
<1> QED BY <1>1, RoomInvHolds, PTL

\* Then whoever sends or receives through a pending user pipe is online.
THEOREM PipesStayOfOnline == ASSUME NobodyCloses PROVE Spec => []PipesOfOnline
<1>1. RoomInv => PipesOfOnline
  BY DEF RoomInv
<1> QED BY <1>1, RoomInvHolds, PTL

\* And the server is a chat room: an accept is a login, an exit a leave, >n a send
\* and <n a receive, and no step does anything else to ids, nicknames and pipes.
THEOREM ImplementsRoom == ASSUME NobodyCloses PROVE Spec => RoomSpec
<1>1. Init => Room!Init
  <2> SUFFICES ASSUME Init PROVE Room!Init
    OBVIOUS
  <2>1. Elems(clients) = {} /\ upipes = {}
    BY DEF Init, Elems
  <2> QED BY <2>1 DEF Room!Init, Room!Ids, Slots, Nicknames, NameOf, Pairs
<1>2. RoomInv /\ [Next]_vars => [Room!Next]_Room!vars
  BY RoomInvKept DEF Room!vars
<1> QED BY <1>1, <1>2, RoomInvHolds, PTL DEF Spec, RoomSpec, Room!Spec
=============================================================================
