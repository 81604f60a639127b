------------------------------- MODULE MCWeb -------------------------------
(* A small instance of Web. *)
EXTENDS Web, TLC

CONSTANTS b1, b2, s0, s1

AllQueries == SUBSET {s0, s1}
Programs   == {"console.cgi", "panel.cgi", "nosuch.cgi"}
Get(f, q)  == [file |-> f, query |-> q]

\* One browser asks for two servers, the other one for none or for something else.
Asks == (b1 :> {Get("console.cgi", {s0, s1}), Get(Bad, {})}) @@
        (b2 :> {Get("console.cgi", {}), Get("nosuch.cgi", {})})

\* The second file is not there.
Lines == [t \in Slots |-> IF t = s0 THEN 2 ELSE 0]

\* With the prompt behind them they fit into the buffer, with a percent sign that
\* is no prompt; fill it; and are one unit longer.
Answers == {<<"%">>, <<"x", "x">>, <<"x", "x", "x">>}
============================================================================
