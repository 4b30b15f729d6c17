----------------------------- MODULE MCSshApply -----------------------------
(***************************************************************************)
(* A TouchFile task as the planner makes it (two ensures of existence)     *)
(* followed by a task with an ensure of absence.                           *)
(***************************************************************************)
EXTENDS SshApply

MCEnsures == << <<"ExeExists", "DirectoryExists">>, <<"FileDoesntExist">> >>

MCExitStatus == {0, 1}
=============================================================================
