---------------------------- MODULE MCCgiServer ----------------------------
(* A small instance of CgiServer. *)
EXTENDS CgiServer, TLC

CONSTANTS b1, b2, s0, s1

Files == {"console.cgi", "panel.cgi", "favicon.ico"}
Get(f, q) == [file |-> f, query |-> q, found |-> TRUE]
Missing(f, q) == [Get(f, q) EXCEPT !.found = FALSE]

\* One browser asks for two servers; the other one for one, for the panel, also
\* without its directory, for a server whose name is unknown, or for nonsense.
Asks == (b1 :> {Get("console.cgi", {s0, s1}), Get("favicon.ico", {})}) @@
        (b2 :> {Get("console.cgi", {s1}), Get("panel.cgi", {}), Missing("panel.cgi", {}),
                Missing("console.cgi", {s1}), Get(Bad, {})})

\* The second file is not there.
Lines == [t \in Slots |-> IF t = s0 THEN 2 ELSE 0]

\* With the prompt behind them they fit into the buffer, with a percent sign that
\* is no prompt; fill it; and are one unit longer.
Answers == {<<"%">>, <<"x", "x">>, <<"x", "x", "x">>}
============================================================================
