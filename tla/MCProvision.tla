---------------------------- MODULE MCProvision ----------------------------
(***************************************************************************)
(* A directory, a file in it, and a file there whose name a shell reads as *)
(* the other's.                                                            *)
(***************************************************************************)
EXTENDS Provision

MCWord == {"/", "/d", "/d/a", "/d/$a", "mkdir", "touch", "echo"}

MCParent == [w \in {"/d", "/d/a", "/d/$a"} |-> IF w = "/d" THEN "/" ELSE "/d"]

MCQuoted == [w \in MCWord |-> IF w = "/d/$a" THEN "/d/a" ELSE w]

MCExe == {{"mkdir", "touch", "echo"}, {"mkdir", "touch"}, {"echo"}}

MCHost == {"h1"}

OnHost(type, words, closed) ==
  [type |-> type, words |-> words, closed |-> closed, hosts |-> MCHost]

MCTask ==
  {OnHost("Command", words, TRUE) : words \in {<<>>, <<"echo", "/d/a">>}} \cup
  {OnHost("Command", <<"echo">>, FALSE)} \cup
  {OnHost(type, <<p>>, TRUE) :
     type \in {"CreateDirectory", "TouchFile"}, p \in {"/d", "/d/$a", "/"}}

MCTaskSets == {<<t>> : t \in MCTask} \cup {<<t, u>> : t, u \in MCTask}

\* A plan of a library user or another planner, with every kind of ensure, and one
\* whose command has no words.
MCPosted ==
  {<<[command |-> <<"touch", p>>, hosts |-> {},
      ensures |-> <<[kind |-> "ExeExists", of |-> "touch"], [kind |-> k, of |-> p]>>]>> :
     p \in {"/d", "/d/a", "/d/$a"}, k \in Kind}
  \cup {<<[command |-> <<>>, hosts |-> {}, ensures |-> <<>>]>>}
=============================================================================
