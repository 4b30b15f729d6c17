------------------------------ MODULE MCFanOut ------------------------------
(***************************************************************************)
(* Three host names, of which h1 is in two groups, h3 is in one group or   *)
(* in none, and one group or the other is empty or shares a host's name;   *)
(* plans of up to two tasks that name hosts, groups, both or nobody.       *)
(***************************************************************************)
EXTENDS FanOut

MCNames == {"h1", "h2", "h3"}

MCGroups ==
  {[web |-> <<"h1", "h2">>, db |-> <<"h1">>],
   [web |-> <<"h1", "h2">>, h1 |-> <<"h3">>],
   [web |-> <<"h2", "h2", "h3">>, db |-> <<>>]}

MCKinds ==
  {[h1 |-> a, h2 |-> "ssh", h3 |-> c] :
     a \in {"simple", "unknown"}, c \in {"local", "missing"}}

MCHostFiles == {[groups |-> g, kind |-> k] : g \in MCGroups, k \in MCKinds}

MCTasks == {{}, {"h1"}, {"h3"}, {"web"}, {"db", "h2"}}
MCPlans == {<<>>} \cup {<<t>> : t \in MCTasks} \cup
           {<<t, u>> : t \in {{"h1"}, {"web"}}, u \in MCTasks}
=============================================================================
