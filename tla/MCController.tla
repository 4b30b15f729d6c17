---------------------------- MODULE MCController ----------------------------
(***************************************************************************)
(* A job that mentions a host twice, one of its runs with two lines, and a *)
(* second job, which takes its place in a cache for one.                   *)
(***************************************************************************)
EXTENDS Controller

MCJob == {"j1", "j2"}
MCHost == {"h1"}
MCRunsOf == [j1 |-> {"a", "b"}, j2 |-> {}]
MCHostName == [a |-> "h1", b |-> "h1"]
MCMaxLines == [a |-> 2, b |-> 1]
=============================================================================
