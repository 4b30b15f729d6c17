---------------------------- MODULE MCLocalApply ----------------------------
(***************************************************************************)
(* Two raw commands, the first with the ensure the planner gives it and    *)
(* one of those the local executor looks at twice.                         *)
(***************************************************************************)
EXTENDS LocalApply

MCEnsures == << <<"ExeExists", "FileExists">>, <<"ExeExists">> >>

\* The plan of test_simple_executor.
MCOneCommand == << <<"ExeExists">> >>
=============================================================================
