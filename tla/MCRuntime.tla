----------------------------- MODULE MCRuntime ------------------------------
(***************************************************************************)
(* A host over ssh and a local one, on machines with one to three workers: *)
(* fewer than hosts, as many, and one to spare.                            *)
(***************************************************************************)
EXTENDS Runtime
=============================================================================
