------------------------------ MODULE ChatRoom ------------------------------
(***************************************************************************)
(* What the chat servers of project 2 promise: users with ids and          *)
(* nicknames, and pipes between users.  Both np_single_proc.cpp and, when  *)
(* its clients take turns, np_multi_proc_sem.cpp implement it.             *)
(***************************************************************************)
EXTENDS Integers

CONSTANTS N,       \* ids are 1..N
          Names,   \* the names a user can take
          NoName,  \* the id is free
          Anon     \* "(no name)"

VARIABLES users,   \* the nickname of each id
          pipes    \* the pairs <<sender, receiver>> with data to be received

vars == <<users, pipes>>

Ids == 1..N
Here(i) == users[i] # NoName

Init == users = [i \in Ids |-> NoName] /\ pipes = {}

\* A new user gets the smallest free id.
Login(i) == /\ ~Here(i) /\ \A j \in 1..(i - 1) : Here(j)
            /\ users' = [users EXCEPT ![i] = Anon]
            /\ UNCHANGED pipes

\* Nobody may have the name.
Free(n) == \A j \in Ids : users[j] # n

Rename(i, n) == /\ Here(i) /\ Free(n)
                /\ users' = [users EXCEPT ![i] = n]
                /\ UNCHANGED pipes

\* The pipes from and to a user.
About(i) == {p \in pipes : i \in {p[1], p[2]}}

\* They go with the user.
Leave(i) == /\ Here(i)
            /\ users' = [users EXCEPT ![i] = NoName]
            /\ pipes' = pipes \ About(i)

\* There is at most one pipe from a user to another one.
Send(i, j) == /\ Here(i) /\ Here(j) /\ i # j /\ <<i, j>> \notin pipes
              /\ pipes' = pipes \cup {<<i, j>>}
              /\ UNCHANGED users

Receive(i, j) == /\ <<i, j>> \in pipes
                 /\ pipes' = pipes \ {<<i, j>>}
                 /\ UNCHANGED users

Next == \E i \in Ids : \/ Login(i) \/ Leave(i)
                       \/ \E n \in Names : Rename(i, n)
                       \/ \E j \in Ids : Send(i, j) \/ Receive(i, j)

Spec == Init /\ [][Next]_vars
-----------------------------------------------------------------------------
TypeOK == /\ users \in [Ids -> Names \cup {NoName, Anon}]
          /\ pipes \subseteq Ids \X Ids

\* No two users have one nickname, except "(no name)".
UniqueNames == \A i, j \in Ids :
                 i # j /\ users[i] = users[j] => users[i] \in {NoName, Anon}

\* Every pipe has a sender and a receiver, two different users who are here: a
\* new user never finds the pipes of the one who had the id before.
PipesHaveUsers == \A p \in pipes : Here(p[1]) /\ Here(p[2]) /\ p[1] # p[2]
=============================================================================
