---------------------------- MODULE MCNpSimple ----------------------------
(* A small instance of NpSimple: the lines that its client types. *)
EXTENDS NpSimple, MCShellPipes

\* Numbered pipes, with at most two commands on a line; three commands; and outputs
\* larger than a pipe on lines of one or two.  Three commands do not receive a
\* numbered pipe (constraint NotStale; StaleLines do).
NumberLines ==
  {To(<<"large">>, 1), To(<<"source">>, 2), ErrTo(<<"source0">>, 1),
   To(<<"large", "filter">>, 1), To(<<"filter">>, 1),
   Line(<<"filter">>), ToFile(<<"filter", "filter">>),
   Line(<<"noop">>), Line(<<"source", "filter", "filter">>),
   Line(<<"source", "noop", "filter">>)}
=============================================================================
