--------------------------- MODULE ChatRoomProofs ---------------------------
(***************************************************************************)
(* What the chat servers promise about names, ids and user pipes, proved   *)
(* of ChatRoom for every number of users and every set of names.           *)
(***************************************************************************)
EXTENDS ChatRoom, TLAPS

-----------------------------------------------------------------------------
\* The tables keep their types.
THEOREM TypeCorrect == Spec => []TypeOK
<1>1. Init => TypeOK
  BY DEF Init, TypeOK
<1>2. TypeOK /\ [Next]_vars => TypeOK'
  <2> SUFFICES ASSUME TypeOK, [Next]_vars PROVE TypeOK'
    OBVIOUS
  <2>1. ASSUME NEW i \in Ids, Login(i) PROVE TypeOK'
    BY <2>1 DEF Login, TypeOK
  <2>2. ASSUME NEW i \in Ids, Leave(i) PROVE TypeOK'
    BY <2>2 DEF Leave, TypeOK
  <2>3. ASSUME NEW i \in Ids, NEW n \in Names, Rename(i, n) PROVE TypeOK'
    BY <2>3 DEF Rename, TypeOK
  <2>4. ASSUME NEW i \in Ids, NEW j \in Ids, Send(i, j) PROVE TypeOK'
    BY <2>4 DEF Send, TypeOK
  <2>5. ASSUME NEW i \in Ids, NEW j \in Ids, Receive(i, j) PROVE TypeOK'
    BY <2>5 DEF Receive, TypeOK
  <2>6. CASE UNCHANGED vars
    BY <2>6 DEF vars, TypeOK
  <2> QED
    BY <2>1, <2>2, <2>3, <2>4, <2>5, <2>6 DEF Next
<1> QED
  BY <1>1, <1>2, PTL DEF Spec

-----------------------------------------------------------------------------
\* No two users ever have one nickname, except "(no name)": a name is taken only
\* when nobody in the table has it (834-866 of np_single_proc.cpp).
THEOREM NamesAreUnique == Spec => []UniqueNames
<1>1. Init => UniqueNames
  BY DEF Init, UniqueNames
<1>2. TypeOK /\ UniqueNames /\ [Next]_vars => UniqueNames'
  <2> SUFFICES ASSUME TypeOK, UniqueNames, [Next]_vars,
                      NEW a \in Ids, NEW b \in Ids, a # b, users'[a] = users'[b]
               PROVE  users'[a] \in {NoName, Anon}
    BY DEF UniqueNames
  <2>1. ASSUME NEW i \in Ids, Login(i) PROVE users'[a] \in {NoName, Anon}
    BY <2>1 DEF Login, TypeOK, UniqueNames
  <2>2. ASSUME NEW i \in Ids, Leave(i) PROVE users'[a] \in {NoName, Anon}
    BY <2>2 DEF Leave, TypeOK, UniqueNames
  <2>3. ASSUME NEW i \in Ids, NEW n \in Names, Rename(i, n)
        PROVE  users'[a] \in {NoName, Anon}
    BY <2>3 DEF Rename, Free, TypeOK, UniqueNames
  <2>4. CASE UNCHANGED users
    BY <2>4 DEF UniqueNames
  <2> QED
    BY <2>1, <2>2, <2>3, <2>4 DEF Next, Send, Receive, vars
<1> QED
  BY TypeCorrect, <1>1, <1>2, PTL DEF Spec

-----------------------------------------------------------------------------
\* Every pending user pipe has a sender and a receiver who are in the room, and
\* they are different: a pipe is made between users who are there (646-707) and
\* goes with either of them (99-119), so that a later user of an id does not
\* inherit it.
THEOREM PipesAlwaysHaveUsers ==
  ASSUME NoName \notin Names \cup {Anon}
  PROVE  Spec => []PipesHaveUsers
<1>1. Init => PipesHaveUsers
  BY DEF Init, PipesHaveUsers
<1>2. TypeOK /\ PipesHaveUsers /\ [Next]_vars => PipesHaveUsers'
  <2> SUFFICES ASSUME TypeOK, PipesHaveUsers, [Next]_vars, NEW p \in pipes'
               PROVE  Here(p[1])' /\ Here(p[2])' /\ p[1] # p[2]
    BY DEF PipesHaveUsers
  <2> DEFINE Ends == Here(p[1])' /\ Here(p[2])' /\ p[1] # p[2]
  <2>1. ASSUME NEW i \in Ids, Login(i) PROVE Ends
    BY <2>1 DEF Login, TypeOK, PipesHaveUsers, Here
  <2>2. ASSUME NEW i \in Ids, Leave(i) PROVE Ends
    <3>1. p \in pipes /\ p \in Ids \X Ids /\ p[1] # i /\ p[2] # i
      BY <2>2 DEF Leave, About, TypeOK
    <3> QED
      BY <2>2, <3>1 DEF Leave, TypeOK, PipesHaveUsers, Here
  <2>3. ASSUME NEW i \in Ids, NEW n \in Names, Rename(i, n) PROVE Ends
    BY <2>3 DEF Rename, TypeOK, PipesHaveUsers, Here
  <2>4. ASSUME NEW i \in Ids, NEW j \in Ids, Send(i, j) PROVE Ends
    BY <2>4 DEF Send, PipesHaveUsers, Here
  <2>5. ASSUME NEW i \in Ids, NEW j \in Ids, Receive(i, j) PROVE Ends
    BY <2>5 DEF Receive, PipesHaveUsers, Here
  <2>6. CASE UNCHANGED vars
    BY <2>6 DEF vars, PipesHaveUsers, Here
  <2> QED
    BY <2>1, <2>2, <2>3, <2>4, <2>5, <2>6 DEF Next
<1> QED
  BY TypeCorrect, <1>1, <1>2, PTL DEF Spec
=============================================================================
