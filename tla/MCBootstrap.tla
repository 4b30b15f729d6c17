---------------------------- MODULE MCBootstrap ----------------------------
(***************************************************************************)
(* One controller started at most twice, with or without its passphrase,   *)
(* or with another.                                                        *)
(***************************************************************************)
EXTENDS Bootstrap
=============================================================================
