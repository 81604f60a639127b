--------------------------- MODULE MCSocksServer ---------------------------
(* A small instance of SocksServer. *)
EXTENDS SocksServer

Campus == <<140, 113, 1, 2>>
Outside == <<8, 8, 8, 8>>
TwoAddrs == {Campus, Outside}

Rule(c, i) == [cmd |-> c, ip |-> i]

\* The rules of the repository, and CONNECT to the campus only.
Files == {{Rule("c", <<Any, Any, Any, Any>>), Rule("b", <<Any, Any, Any, Any>>)},
          {Rule("c", <<140, 113, Any, Any>>)}}

\* CONNECT to a name (the address that comes with it is not used), BIND for an
\* address, and neither.
Asks == {[cd |-> 1, ip |-> Outside, name |-> TRUE], [cd |-> 2, ip |-> Campus, name |-> FALSE],
         [cd |-> 0, ip |-> Campus, name |-> FALSE]}

\* Two buffers one way, one unit the other.
Amounts == [web |-> 1, dst |-> 4]
============================================================================
