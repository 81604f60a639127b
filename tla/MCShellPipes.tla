--------------------------- MODULE MCShellPipes ---------------------------
(* Small instances of ShellPipes: the lines that are typed. *)
EXTENDS ShellPipes

Line(cmds)     == [cmds |-> cmds, n |-> 0, err |-> FALSE, file |-> FALSE]
To(cmds, n)    == [Line(cmds) EXCEPT !.n = n]
ErrTo(cmds, n) == [Line(cmds) EXCEPT !.n = n, !.err = TRUE]
ToFile(cmds)   == [Line(cmds) EXCEPT !.file = TRUE]

\* test_case/t3.txt: "removetag0 test.html |1", "number | cat | cat |1", "removetag0".
StaleLines == {To(<<"source">>, 1), To(<<"filter", "filter", "filter">>, 1),
               Line(<<"filter">>)}
=============================================================================
